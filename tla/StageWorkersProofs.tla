------------------------- MODULE StageWorkersProofs -------------------------
(***************************************************************************)
(* For any number of URLs, bodies, consumers, retries, failures and raw    *)
(* rows: no article that the parser, validate or enrich stage has had is   *)
(* lost without a reason that the code gives, and without a failure an     *)
(* article is in one place at a time, its raw row goes when it does, and   *)
(* it is not reparsed more often in a row than the limit says.             *)
(*                                                                         *)
(* And for any number of callers, agent workers, faults, midnights and     *)
(* starts of the process, of the agents that the stages call: a session    *)
(* runs in a container that runs, a pool that has ended leaves no          *)
(* container behind, and Stop of a codex worker does not die of a session  *)
(* it did not see, each unless the faults that the property names have     *)
(* happened.                                                               *)
(***************************************************************************)
EXTENDS StageWorkers, AgentSessions, FiniteSetTheorems, TLAPS

(* A copy put into a topic, or taken from it, changes nothing of the others.*)
LEMMA BagGrows ==
  ASSUME NEW B, IsABag(B), NEW m
  PROVE  /\ IsABag(B (+) SetToBag({m}))
         /\ BagToSet(B (+) SetToBag({m})) = BagToSet(B) \cup {m}
         /\ \A n \in BagToSet(B) \ {m} : (B (+) SetToBag({m}))[n] = B[n]
         /\ m \notin BagToSet(B) => (B (+) SetToBag({m}))[m] = 1
<1> DEFINE C == [e \in DOMAIN B \cup {m} |-> (IF e \in DOMAIN B THEN B[e] ELSE 0)
                                              + (IF e \in {m} THEN 1 ELSE 0)]
<1>1. B (+) SetToBag({m}) = C
  BY DEF SetToBag, (+)
<1>2. \A e \in DOMAIN B : B[e] \in Nat /\ B[e] > 0
  BY DEF IsABag
<1>3. \A e \in DOMAIN C : C[e] \in Nat /\ C[e] > 0
  BY <1>2
<1>4. IsABag(C)
  BY <1>3 DEF IsABag
<1>5. \A X : BagToSet(X) = DOMAIN X
  BY DEF BagToSet
<1>. QED  BY <1>1, <1>2, <1>4, <1>5

LEMMA BagShrinks ==
  ASSUME NEW B, IsABag(B), NEW m \in BagToSet(B)
  PROVE  /\ IsABag(B (-) SetToBag({m}))
         /\ BagToSet(B (-) SetToBag({m})) \subseteq BagToSet(B)
         /\ BagToSet(B) \ {m} \subseteq BagToSet(B (-) SetToBag({m}))
         /\ \A n \in BagToSet(B) \ {m} : (B (-) SetToBag({m}))[n] = B[n]
         /\ B[m] = 1 => m \notin BagToSet(B (-) SetToBag({m}))
<1> DEFINE D == [e \in DOMAIN B |-> IF e \in {m} THEN B[e] - 1 ELSE B[e]]
           C == [e \in {d \in DOMAIN D : D[d] > 0} |-> D[e]]
<1>1. B (-) SetToBag({m}) = C
  BY DEF SetToBag, (-)
<1>2. \A e \in DOMAIN B : B[e] \in Nat /\ B[e] > 0
  BY DEF IsABag
<1>3. \A e \in DOMAIN C : e \in DOMAIN B /\ C[e] = D[e] /\ C[e] \in Nat /\ C[e] > 0
  BY <1>2
<1>4. IsABag(C)
  BY <1>3 DEF IsABag
<1>5. \A X : BagToSet(X) = DOMAIN X
  BY DEF BagToSet
<1>6. /\ BagToSet(C) \subseteq BagToSet(B) /\ BagToSet(B) \ {m} \subseteq BagToSet(C)
      /\ \A n \in BagToSet(B) \ {m} : C[n] = B[n]
  BY <1>2, <1>5
<1>7. B[m] = 1 => m \notin BagToSet(C)
  <2>1. ASSUME B[m] = 1, m \in BagToSet(C)  PROVE FALSE
    <3>1. m \in DOMAIN C /\ m \in DOMAIN B
      BY <2>1, <1>5
    <3>2. C[m] = D[m] /\ C[m] > 0
      BY <3>1, <1>3
    <3>3. D[m] = 0
      BY <3>1, <2>1
    <3>. QED  BY <3>2, <3>3
  <2>. QED  BY <2>1
<1> HIDE DEF C
<1>. QED  BY <1>1, <1>4, <1>6, <1>7

---------------------------------------------------------------------------
(* Types                                                                   *)

LEMMA JobTypes ==
  /\ SomeUrl \in Urls
  /\ \A u \in Urls : Job(u) \in Message
BY StageWorkersAssumption DEF Job, Message, SomeUrl

(* What a queue contains when a message is put, taken or replaced.         *)
LEMMA PutAdds ==
  ASSUME StageTypeOK, NEW m \in Message, Put(m)
  PROVE  IsABag(queue') /\ Topics' = Topics \cup {m} /\ Topics' \subseteq Message
<1>1. IsABag(queue') /\ Topics' = Topics \cup {m}
  BY BagGrows DEF StageTypeOK, Put, Topics
<1>. QED  BY <1>1 DEF StageTypeOK

LEMMA QueueStays ==
  ASSUME StageTypeOK, UNCHANGED queue
  PROVE  IsABag(queue') /\ Topics' = Topics /\ Topics' \subseteq Message
BY DEF StageTypeOK, Topics

LEMMA TakeRemoves ==
  ASSUME StageTypeOK, NEW m \in Topics, Take(m)
  PROVE  /\ IsABag(queue') /\ Topics' \subseteq Message
         /\ Topics' \subseteq Topics /\ Topics \ {m} \subseteq Topics'
BY BagShrinks DEF Take, StageTypeOK, Topics

LEMMA SwapReplaces ==
  ASSUME StageTypeOK, NEW m \in Topics, NEW n \in Message,
         Swap(m, n)
  PROVE  /\ IsABag(queue') /\ Topics' \subseteq Message
         /\ Topics' \subseteq Topics \cup {n} /\ (Topics \ {m}) \cup {n} \subseteq Topics'
<1>1. /\ IsABag(queue (-) SetToBag({m}))
      /\ BagToSet(queue (-) SetToBag({m})) \subseteq Topics
      /\ Topics \ {m} \subseteq BagToSet(queue (-) SetToBag({m}))
  BY BagShrinks DEF StageTypeOK, Topics
<1>2. IsABag(queue') /\ Topics' = BagToSet(queue (-) SetToBag({m})) \cup {n}
  BY <1>1, BagGrows DEF Swap, Topics
<1>. QED  BY <1>1, <1>2 DEF StageTypeOK

(* What a worker is about to do fits its message: a parser forwards and    *)
(* cleans up, the later steps are the validate worker's, and it asks for no*)
(* reparse or requeue over the limit.                                      *)
StepsFit ==
  \A w \in Consumers :
    /\ pc[w] \in {"forward", "cleanup"} => msg[w].stage = "fetched"
    /\ pc[w] \in {"publish", "republish", "delete", "requeue", "reject", "dlq"} =>
         msg[w].stage = "normalized"
    /\ pc[w] = "republish" => msg[w].reparse < MaxReparse
    /\ pc[w] = "requeue" => msg[w].retry < MaxRetry

(* The helpers that move a worker, end its message and give its lock back. *)
LEMMA WorkersTyped ==
  ASSUME StageTypeOK, NEW w \in Consumers
  PROVE  /\ msg[w] \in Message /\ Url(w) \in Urls /\ msg[w].row \in Urls
         /\ \A p \in PCs : Goto(w, p) => pc' \in [Consumers -> PCs]
         /\ Release(w) => lock' \in [Stages \X Urls -> Consumers \cup {Unheld, Orphan}]
         /\ Forget(w) => /\ pc' \in [Consumers -> PCs] /\ msg' \in [Consumers -> Message]
                         /\ seen' \in [Consumers -> Rows \cup {NoRow}]
                         /\ id' \in [Consumers -> Urls]
<1>1. msg[w] \in Message /\ Url(w) \in Urls /\ msg[w].row \in Urls
  BY DEF StageTypeOK, Message, Url
<1>2. \A p \in PCs : Goto(w, p) => pc' \in [Consumers -> PCs]
  BY DEF StageTypeOK, Goto
<1>3. Release(w) => lock' \in [Stages \X Urls -> Consumers \cup {Unheld, Orphan}]
  BY DEF StageTypeOK, Release
<1>4. ASSUME Forget(w)
      PROVE  /\ pc' \in [Consumers -> PCs] /\ msg' \in [Consumers -> Message]
             /\ seen' \in [Consumers -> Rows \cup {NoRow}] /\ id' \in [Consumers -> Urls]
  <2>1. pc' \in [Consumers -> PCs]
    BY <1>4 DEF StageTypeOK, Forget, Goto, PCs
  <2>2. msg' \in [Consumers -> Message]
    BY <1>4, JobTypes DEF StageTypeOK, Forget
  <2>3. seen' \in [Consumers -> Rows \cup {NoRow}] /\ id' \in [Consumers -> Urls]
    BY <1>4, JobTypes DEF StageTypeOK, Forget
  <2>. QED  BY <2>1, <2>2, <2>3
<1>. QED  BY <1>1, <1>2, <1>3, <1>4

(* What the deletes and Store leave.                                       *)
LEMMA RowsTyped ==
  ASSUME StageTypeOK, NEW w, NEW u \in Urls
  PROVE  /\ DeleteRaw(w, u) => raw' \in [Urls -> 0..MaxRaw] /\ excused' \subseteq Urls
         /\ DeleteContent(w, u) =>
              contents' \in [Urls -> Rows \cup {NoRow}] /\ excused' \subseteq Urls
<1>1. RawUsers(w, u) \subseteq Urls /\ RowUsers(w, u) \subseteq Urls
  BY DEF StageTypeOK, RawUsers, RowUsers, Busy, Url, Message
<1>2. 0 \in 0..MaxRaw
  BY StageWorkersAssumption
<1>3. DeleteRaw(w, u) => raw' \in [Urls -> 0..MaxRaw] /\ excused' \subseteq Urls
  BY <1>1, <1>2 DEF DeleteRaw, StageTypeOK
<1>4. DeleteContent(w, u) =>
        contents' \in [Urls -> Rows \cup {NoRow}] /\ excused' \subseteq Urls
  BY <1>1 DEF DeleteContent, StageTypeOK
<1>. QED  BY <1>3, <1>4

LEMMA StoreTyped ==
  ASSUME StageTypeOK, NEW w \in Consumers, StoreRow(w)
  PROVE  contents' \in [Urls -> Rows \cup {NoRow}] /\ id' \in [Consumers -> Urls]
<1>. PICK c \in Rows :
       LET u == Url(w)
           same == {v \in Urls : contents[v].body = c.body}
       IN  IF same # {}
           THEN /\ \E v \in same : id' = [id EXCEPT ![w] = v]
                /\ UNCHANGED contents
           ELSE /\ id' = [id EXCEPT ![w] = u]
                /\ contents' = [contents EXCEPT ![u] =
                     IF @ = NoRow THEN c ELSE [c EXCEPT !.dated = contents[u].dated]]
  BY DEF StoreRow
<1>1. Url(w) \in Urls
  BY WorkersTyped
<1>2. contents[Url(w)] # NoRow => [c EXCEPT !.dated = contents[Url(w)].dated] \in Rows
  BY <1>1 DEF StageTypeOK, Rows
<1>3. CASE {v \in Urls : contents[v].body = c.body} # {}
  BY <1>3 DEF StageTypeOK
<1>4. CASE {v \in Urls : contents[v].body = c.body} = {}
  <2>1. id' = [id EXCEPT ![w] = Url(w)]
    BY <1>4
  <2>2. contents' = [contents EXCEPT ![Url(w)] =
           IF @ = NoRow THEN c ELSE [c EXCEPT !.dated = contents[Url(w)].dated]]
    BY <1>4
  <2>. QED  BY <1>1, <1>2, <2>1, <2>2 DEF StageTypeOK
<1>. QED  BY <1>3, <1>4

(* The messages that the stages send.                                      *)
LEMMA SentIsMessage ==
  ASSUME StageTypeOK, StepsFit, NEW w \in Consumers
  PROVE  /\ NormalizedRef(w) \in Message /\ ValidatedRef(w) \in Message
         /\ pc[w] = "requeue" => Requeued(w) \in Message
         /\ pc[w] = "republish" => ReparseJob(w) \in Message
<1>1. msg[w] \in Message /\ Url(w) \in Urls /\ msg[w].row \in Urls /\ id[w] \in Urls
  BY WorkersTyped DEF StageTypeOK
<1>2. Job(Url(w)) \in Message /\ Job(msg[w].row) \in Message
  BY <1>1, JobTypes
<1>3. MaxRaw \in Nat /\ MaxReparse \in Nat /\ MaxRetry \in Nat /\ MaxSkips \in Nat
  BY StageWorkersAssumption
<1>4. NormalizedRef(w) \in Message
  <2>1. ASSUME NEW m \in Message, NEW r \in Urls
        PROVE  [m EXCEPT !.stage = "normalized", !.row = r, !.raw = 0] \in Message
    <3>1. 0 \in 0..MaxRaw /\ "normalized" \in Stages \cup {"crawl"}
      BY <1>3 DEF Stages
    <3>. QED  BY <3>1 DEF Message
  <2>. QED  BY <1>1, <2>1 DEF NormalizedRef
<1>5. ValidatedRef(w) \in Message
  BY <1>1, <1>2 DEF ValidatedRef, Message, Stages
<1>6. pc[w] = "requeue" => Requeued(w) \in Message
  <2>1. ASSUME NEW m \in Message, m.retry < MaxRetry
        PROVE  [m EXCEPT !.retry = @ + 1, !.reparse = 0, !.skips = 0] \in Message
    <3>1. m.retry \in 0..MaxRetry
      BY DEF Message
    <3>2. m.retry + 1 \in 0..MaxRetry /\ 0 \in 0..MaxReparse /\ 0 \in 0..MaxSkips
      BY <1>3, <2>1, <3>1
    <3>. QED  BY <3>2 DEF Message
  <2>. QED  BY <1>1, <2>1 DEF StepsFit, Requeued
<1>7. pc[w] = "republish" => ReparseJob(w) \in Message
  <2>1. ASSUME NEW m \in Message, NEW n \in Message, m.reparse < MaxReparse
        PROVE  [n EXCEPT !.reparse = m.reparse + 1, !.skips = m.skips] \in Message
    <3>1. m.reparse \in 0..MaxReparse /\ m.skips \in 0..MaxSkips
      BY DEF Message
    <3>2. m.reparse + 1 \in 0..MaxReparse
      BY <1>3, <2>1, <3>1
    <3>. QED  BY <3>1, <3>2 DEF Message
  <2>. QED  BY <1>1, <1>2, <2>1 DEF StepsFit, ReparseJob
<1>. QED  BY <1>4, <1>5, <1>6, <1>7

LEMMA PassedOnIsMessage ==
  ASSUME StageTypeOK, NEW m \in Topics
  PROVE  /\ m \in Message /\ m.url \in Urls
         /\ m.skips < MaxSkips => SkippedJob(m) \in Message
         /\ raw[m.url] # 0 \/ FreshRaws(m.url) # {} => FetchedRef(m) \in Message
         /\ raw[m.url] # 0 \/ FreshRaws(m.url) # {} =>
              RawToStore(m.url) \in 0..MaxRaw /\ RawToStore(m.url) # 0
<1>1. m \in Message /\ m.url \in Urls
  BY DEF StageTypeOK, Message
<1>2. Job(m.url) \in Message
  BY <1>1, JobTypes
<1>3. MaxRaw \in Nat /\ MaxReparse \in Nat /\ MaxRetry \in Nat /\ MaxSkips \in Nat
  BY StageWorkersAssumption
<1>4. m.skips < MaxSkips => SkippedJob(m) \in Message
  BY <1>1, <1>2, <1>3 DEF SkippedJob, Message
<1>5. raw[m.url] # 0 \/ FreshRaws(m.url) # {} =>
        RawToStore(m.url) \in 0..MaxRaw /\ RawToStore(m.url) # 0
  BY <1>1, <1>3 DEF RawToStore, FreshRaws, StageTypeOK
<1>6. Headers(m) \in Message
  BY <1>1, <1>2 DEF Headers
<1>7. RawToStore(m.url) \in 0..MaxRaw => FetchedRef(m) \in Message
  BY <1>6 DEF FetchedRef, Message, Stages
<1>. QED  BY <1>1, <1>4, <1>5, <1>7

(* The count of a URL's reparses, when it is lost or goes on.             *)
LEMMA StreakTyped ==
  ASSUME StageTypeOK, NEW u \in Urls
  PROVE  /\ Loses(u) => streak' \in [Urls -> 0..(MaxReparse + 1)]
         /\ streak' = [streak EXCEPT ![u] = IF @ > MaxReparse THEN @ ELSE @ + 1] =>
              streak' \in [Urls -> 0..(MaxReparse + 1)]
<1>1. 0 \in 0..(MaxReparse + 1)
  BY StageWorkersAssumption
<1>2. Loses(u) => streak' \in [Urls -> 0..(MaxReparse + 1)]
  BY <1>1 DEF Loses, StageTypeOK
<1>3. (IF streak[u] > MaxReparse THEN streak[u] ELSE streak[u] + 1) \in 0..(MaxReparse + 1)
  BY StageWorkersAssumption DEF StageTypeOK
<1>. QED  BY <1>2, <1>3 DEF StageTypeOK

LEMMA FaultCounts ==
  ASSUME StageTypeOK, StageFault
  PROVE  faults' \in 0..MaxFaults /\ faults' # 0
BY StageWorkersAssumption DEF StageTypeOK, StageFault

(* Each action's types *)

LEMMA TypesStay ==
  ASSUME StageTypeOK, StepsFit, [StageNext]_stageVars
  PROVE  StageTypeOK'
<1>1. CASE UNCHANGED stageVars
  BY <1>1, QueueStays DEF StageTypeOK, stageVars, still, settings, worker, ends
<1>2. ASSUME NEW w \in Consumers, Handles(w)
      PROVE  StageTypeOK'
  <2>1. CASE RawMissing(w)
    BY <1>2, <2>1, QueueStays, WorkersTyped DEF RawMissing, LeaveGate, StageTypeOK,
           still, settings, ends
  <2>2. CASE RowMissing(w)
    BY <1>2, <2>2, QueueStays, WorkersTyped DEF RowMissing, LeaveGate, StageTypeOK,
           still, settings, ends
  <2>3. CASE ReadFails(w)
    BY <1>2, <2>3, QueueStays, WorkersTyped, FaultCounts
       DEF ReadFails, LeaveGate, StageTypeOK, still, settings
  <2>4. CASE Refuse(w)
    BY <1>2, <2>4, QueueStays, WorkersTyped, RowsTyped DEF Refuse, LeaveGate,
           StageTypeOK, still, settings
  <2>5. CASE Store(w)
    BY <1>2, <2>5, QueueStays, WorkersTyped, StoreTyped DEF Store, StageTypeOK, still, settings,
           ends, PCs
  <2>6. CASE Forward(w)
    BY <1>2, <2>6, WorkersTyped, PutAdds, SentIsMessage DEF Forward, StageTypeOK, still,
           settings, ends, PCs
  <2>7. CASE Cleanup(w)
    BY <1>2, <2>7, QueueStays, WorkersTyped, FaultCounts, RowsTyped
       DEF Cleanup, StageTypeOK, still, settings, ends, PCs
  <2>8. CASE Judge(w)
    BY <1>2, <2>8, QueueStays, WorkersTyped DEF Judge, Course, StageTypeOK, still, settings,
       ends, PCs
  <2>a. ASSUME NEW at, NEW m \in Message, NEW then \in PCs, Publishes(w, at, m, then),
               doubled' \subseteq Urls, streak' \in [Urls -> 0..(MaxReparse + 1)]
        PROVE  StageTypeOK'
    <3>1. IsABag(queue') /\ Topics' \subseteq Message
      BY <2>a, PutAdds DEF Publishes
    <3>2. pc' \in [Consumers -> PCs]
      BY <1>2, <2>a, WorkersTyped DEF Publishes
    <3>. QED  BY <2>a, <3>1, <3>2 DEF Publishes, StageTypeOK, settings, ends
  <2>b. {"commit", "delete"} \subseteq PCs
    BY DEF PCs
  <2>c. /\ Url(w) \in Urls /\ msg[w].row \in Urls
        /\ doubled \subseteq Urls /\ streak \in [Urls -> 0..(MaxReparse + 1)]
    BY <1>2, WorkersTyped DEF StageTypeOK
  <2>9. CASE Publish(w)
    <3>1. ValidatedRef(w) \in Message
      BY <1>2, SentIsMessage
    <3>. QED  BY <2>9, <2>a, <2>b, <2>c, <3>1 DEF Publish
  <2>10. CASE Requeue(w)
    <3>1. Requeued(w) \in Message
      BY <1>2, <2>10, SentIsMessage DEF Requeue, Publishes
    <3>. QED  BY <2>10, <2>a, <2>b, <2>c, <3>1, StreakTyped DEF Requeue
  <2>11. CASE Republish(w)
    <3>1. ReparseJob(w) \in Message
      BY <1>2, <2>11, SentIsMessage DEF Republish, Publishes
    <3>2. streak' \in [Urls -> 0..(MaxReparse + 1)]
      BY <2>11, <2>c, StreakTyped DEF Republish
    <3>3. doubled' \subseteq Urls
      BY <2>11, <2>c DEF Republish
    <3>. QED  BY <2>11, <2>a, <2>b, <3>1, <3>2, <3>3 DEF Republish
  <2>12. CASE DeleteReparsed(w)
    BY <1>2, <2>12, QueueStays, WorkersTyped, FaultCounts, RowsTyped
       DEF DeleteReparsed, Deletes, StageTypeOK, still, settings, ends, PCs
  <2>13. CASE DeleteRejected(w)
    BY <1>2, <2>13, QueueStays, WorkersTyped, FaultCounts, RowsTyped
       DEF DeleteRejected, Deletes, StageTypeOK, still, settings, ends, PCs
  <2>14. CASE ToDlq(w)
    BY <1>2, <2>14, QueueStays, WorkersTyped DEF ToDlq, StageTypeOK, still, settings, PCs
  <2>15. CASE Enrich(w)
    BY <1>2, <2>15, QueueStays, WorkersTyped DEF Enrich, StageTypeOK, still, settings, PCs
  <2>16. CASE Commit(w)
    BY <1>2, <2>16, QueueStays, WorkersTyped DEF Commit, LeaveGate, StageTypeOK,
       still, settings, ends
  <2>17. CASE ProcessFails(w)
    BY <1>2, <2>17, QueueStays, WorkersTyped, FaultCounts, PutAdds, JobTypes
       DEF ProcessFails, Fails, LeaveGate, StageTypeOK, still, settings
  <2>18. CASE DlqFails(w)
    BY <1>2, <2>18, QueueStays, WorkersTyped, FaultCounts, PutAdds, JobTypes
       DEF DlqFails, Fails, LeaveGate, Unrecoverable, StageTypeOK, still, settings
  <2>19. CASE CommitFails(w)
    BY <1>2, <2>19, WorkersTyped, FaultCounts, PutAdds DEF CommitFails, LeaveGate,
           StageTypeOK, still, settings, ends
  <2>20. CASE Crash(w)
    BY <1>2, <2>20, QueueStays, WorkersTyped, FaultCounts, PutAdds
       DEF Crash, Unrecoverable, StageTypeOK, still, settings, ends
  <2>21. ASSUME NEW m \in Topics, Enter(w, m)  PROVE StageTypeOK'
    BY <1>2, <2>21, WorkersTyped, TakeRemoves DEF Enter, Takes, StageTypeOK, still, settings,
           ends, PCs
  <2>22. ASSUME NEW m \in Topics, EnterUngated(w, m)  PROVE StageTypeOK'
    BY <1>2, <2>22, WorkersTyped, TakeRemoves, FaultCounts
       DEF EnterUngated, Takes, StageTypeOK, still, settings, ends, PCs
  <2>23. ASSUME NEW m \in Topics, Skip(w, m)  PROVE StageTypeOK'
    <3>1. m.url \in Urls /\ SkippedJob(m) \in Message
      BY <2>23, PassedOnIsMessage DEF Skip
    <3>2. IsABag(queue') /\ Topics' \subseteq Message
      BY <2>23, <3>1, SwapReplaces DEF Skip
    <3>3. streak' \in [Urls -> 0..(MaxReparse + 1)]
      BY <2>23, <3>1, StreakTyped DEF Skip
    <3>. QED  BY <2>23, <3>2, <3>3 DEF Skip, Skipped, StageTypeOK, settings, worker
  <2>24. ASSUME NEW m \in Topics, SkipToDlq(w, m)  PROVE StageTypeOK'
    BY <1>2, <2>24, TakeRemoves, FaultCounts, PassedOnIsMessage
       DEF SkipToDlq, Skipped, StageTypeOK, still, settings, worker
  <2>25. ASSUME NEW m \in Topics, SkipLost(w, m)  PROVE StageTypeOK'
    BY <1>2, <2>25, TakeRemoves, FaultCounts, PassedOnIsMessage
       DEF SkipLost, Skipped, StageTypeOK, still, settings, worker
  <2>. QED  BY <1>2, <2>1, <2>2, <2>3, <2>4, <2>5, <2>6, <2>7, <2>8, <2>9, <2>10, <2>11,
               <2>12, <2>13, <2>14, <2>15, <2>16, <2>17, <2>18, <2>19, <2>20, <2>21,
               <2>22, <2>23, <2>24, <2>25
               DEF Handles
<1>3. ASSUME NEW m \in Topics, Fetch(m)  PROVE StageTypeOK'
  <2>1. /\ m.url \in Urls /\ FetchedRef(m) \in Message /\ RawToStore(m.url) \in 0..MaxRaw
    BY <1>3, PassedOnIsMessage DEF Fetch
  <2>2. IsABag(queue') /\ Topics' \subseteq Message
    BY <1>3, <2>1, SwapReplaces DEF Fetch
  <2>3. streak' \in [Urls -> 0..(MaxReparse + 1)]
    BY <1>3, <2>1, StreakTyped DEF Fetch, StageTypeOK
  <2>4. raw' \in [Urls -> 0..MaxRaw]
    BY <1>3, <2>1 DEF Fetch, StageTypeOK
  <2>. QED  BY <1>3, <2>2, <2>3, <2>4 DEF Fetch, StageTypeOK, settings, worker, ends
<1>4. ASSUME NEW u \in Urls, Purge(u)  PROVE StageTypeOK'
  BY <1>4, QueueStays, FaultCounts, RowsTyped DEF Purge, StageTypeOK, still, settings, worker,
     ends
<1>5. ASSUME NEW k \in Stages \X Urls, Expire(k)  PROVE StageTypeOK'
  BY <1>5, QueueStays, FaultCounts DEF Expire, StageTypeOK, still, settings, worker, ends
<1>. QED  BY <1>1, <1>2, <1>3, <1>4, <1>5 DEF StageNext

---------------------------------------------------------------------------
(* Messages and places                                                     *)

LEMMA SentFields ==
  ASSUME StageTypeOK, NEW w \in Consumers
  PROVE  /\ \A u \in Urls : LET j == Job(u)
                           IN  /\ j.stage = "crawl" /\ j.url = u /\ j.row = u
         /\ LET n == NormalizedRef(w)
            IN  /\ n.stage = "normalized" /\ n.url = Url(w) /\ n.row = id[w]
                /\ n.reparse = msg[w].reparse
         /\ LET n == ValidatedRef(w)
            IN  n.stage = "validated" /\ n.url = Url(w)
         /\ LET n == Requeued(w)
            IN  /\ n.stage = msg[w].stage /\ n.url = Url(w) /\ n.row = msg[w].row
                /\ n.raw = msg[w].raw
         /\ LET n == ReparseJob(w)
            IN  /\ n.stage = "crawl" /\ n.url = msg[w].row
                /\ n.reparse = msg[w].reparse + 1
<1>1. msg[w] \in Message /\ Url(w) \in Urls /\ msg[w].row \in Urls
  BY WorkersTyped
<1>. QED  BY <1>1 DEF Job, NormalizedRef, ValidatedRef, Requeued, ReparseJob, Url

LEMMA PassedOnFields ==
  ASSUME StageTypeOK, NEW m \in Topics
  PROVE  /\ LET n == SkippedJob(m)
            IN  n.stage = "crawl" /\ n.url = m.url
         /\ LET n == FetchedRef(m)
            IN  /\ n.stage = "fetched" /\ n.url = m.url /\ n.raw = RawToStore(m.url)
                /\ m.url \notin BrowserUrls => n.reparse = m.reparse
<1>1. m \in Message /\ m.url \in Urls
  BY PassedOnIsMessage
<1>2. LET n == SkippedJob(m)
      IN  n.stage = "crawl" /\ n.url = m.url
  BY <1>1 DEF SkippedJob, Job
<1>3. LET n == FetchedRef(m)
      IN  /\ n.stage = "fetched" /\ n.url = m.url /\ n.raw = RawToStore(m.url)
          /\ m.url \notin BrowserUrls => n.reparse = m.reparse
  BY <1>1 DEF FetchedRef, Headers, Job
<1>. QED  BY <1>2, <1>3

(* A reference to a raw row has an identity; one to another article's row  *)
(* is that of a duplicate.                                                 *)
MessageFits(m, gone) ==
  /\ m.stage = "fetched" => m.raw # 0
  /\ m.stage = "normalized" => m.row = m.url \/ m.url \in gone

MessagesFit ==
  /\ \A m \in Topics : MessageFits(m, excused)
  /\ \A w \in Busy : MessageFits(msg[w], excused) /\ msg[w].stage # "crawl"

(* What a parser has stored is there, until somebody deletes it under it.  *)
RowStored ==
  \A w \in Consumers : pc[w] = "forward" => contents[id[w]] # NoRow \/ Url(w) \in excused

(* An article that is at an end, or excused, stays there; faults are counted.*)
LEMMA EndsGrow ==
  ASSUME StageTypeOK, [StageNext]_stageVars
  PROVE  /\ dlq \subseteq dlq' /\ enriched \subseteq enriched'
         /\ abandoned \subseteq abandoned' /\ excused \subseteq excused'
         /\ doubled \subseteq doubled' /\ (faults' = 0 => faults = 0)
<1>1. CASE UNCHANGED stageVars
  BY <1>1 DEF stageVars, still, ends
<1>2. ASSUME NEW w \in Consumers, Handles(w)
      PROVE  /\ dlq \subseteq dlq' /\ enriched \subseteq enriched'
         /\ abandoned \subseteq abandoned' /\ excused \subseteq excused'
         /\ doubled \subseteq doubled' /\ (faults' = 0 => faults = 0)
  <2>1. CASE RawMissing(w)
    BY <1>2, <2>1 DEF RawMissing, still, ends
  <2>2. CASE RowMissing(w)
    BY <1>2, <2>2 DEF RowMissing, still, ends
  <2>3. CASE ReadFails(w)
    BY <1>2, <2>3, FaultCounts DEF ReadFails, still
  <2>4. CASE Refuse(w)
    BY <1>2, <2>4 DEF Refuse, DeleteRaw, still
  <2>5. CASE Store(w)
    BY <1>2, <2>5 DEF Store, still, ends
  <2>6. CASE Forward(w)
    BY <1>2, <2>6 DEF Forward, still, ends
  <2>7. CASE Cleanup(w)
    BY <1>2, <2>7, FaultCounts DEF Cleanup, DeleteRaw, still, ends
  <2>8. CASE Judge(w)
    BY <1>2, <2>8 DEF Judge, still, ends
  <2>9. CASE Publish(w)
    BY <1>2, <2>9 DEF Publish, Publishes, ends
  <2>10. CASE Requeue(w)
    BY <1>2, <2>10 DEF Requeue, Publishes, ends
  <2>11. CASE Republish(w)
    BY <1>2, <2>11 DEF Republish, Publishes, ends
  <2>12. CASE DeleteReparsed(w)
    BY <1>2, <2>12, FaultCounts DEF DeleteReparsed, Deletes, DeleteContent, still, ends
  <2>13. CASE DeleteRejected(w)
    BY <1>2, <2>13, FaultCounts DEF DeleteRejected, Deletes, DeleteContent, still, ends
  <2>14. CASE ToDlq(w)
    BY <1>2, <2>14 DEF ToDlq, still
  <2>15. CASE Enrich(w)
    BY <1>2, <2>15 DEF Enrich, still
  <2>16. CASE Commit(w)
    BY <1>2, <2>16 DEF Commit, still, ends
  <2>17. CASE ProcessFails(w)
    BY <1>2, <2>17, FaultCounts DEF ProcessFails, Fails, still
  <2>18. CASE DlqFails(w)
    BY <1>2, <2>18, FaultCounts DEF DlqFails, Fails, still
  <2>19. CASE CommitFails(w)
    BY <1>2, <2>19, FaultCounts DEF CommitFails, still, ends
  <2>20. CASE Crash(w)
    BY <1>2, <2>20, FaultCounts DEF Crash, still, ends
  <2>21. ASSUME NEW m \in Topics, Enter(w, m)
        PROVE  /\ dlq \subseteq dlq' /\ enriched \subseteq enriched'
         /\ abandoned \subseteq abandoned' /\ excused \subseteq excused'
         /\ doubled \subseteq doubled' /\ (faults' = 0 => faults = 0)
    BY <1>2, <2>21 DEF Enter, Takes, still, ends
  <2>22. ASSUME NEW m \in Topics, EnterUngated(w, m)
        PROVE  /\ dlq \subseteq dlq' /\ enriched \subseteq enriched'
         /\ abandoned \subseteq abandoned' /\ excused \subseteq excused'
         /\ doubled \subseteq doubled' /\ (faults' = 0 => faults = 0)
    BY <1>2, <2>22, FaultCounts DEF EnterUngated, Takes, still, ends
  <2>23. ASSUME NEW m \in Topics, Skip(w, m)
        PROVE  /\ dlq \subseteq dlq' /\ enriched \subseteq enriched'
         /\ abandoned \subseteq abandoned' /\ excused \subseteq excused'
         /\ doubled \subseteq doubled' /\ (faults' = 0 => faults = 0)
    BY <1>2, <2>23 DEF Skip, Skipped, still
  <2>24. ASSUME NEW m \in Topics, SkipToDlq(w, m)
        PROVE  /\ dlq \subseteq dlq' /\ enriched \subseteq enriched'
         /\ abandoned \subseteq abandoned' /\ excused \subseteq excused'
         /\ doubled \subseteq doubled' /\ (faults' = 0 => faults = 0)
    BY <1>2, <2>24, FaultCounts DEF SkipToDlq, Skipped, still
  <2>25. ASSUME NEW m \in Topics, SkipLost(w, m)
        PROVE  /\ dlq \subseteq dlq' /\ enriched \subseteq enriched'
         /\ abandoned \subseteq abandoned' /\ excused \subseteq excused'
         /\ doubled \subseteq doubled' /\ (faults' = 0 => faults = 0)
    BY <1>2, <2>25, FaultCounts DEF SkipLost, Skipped, still
  <2>. QED  BY <1>2, <2>1, <2>2, <2>3, <2>4, <2>5, <2>6, <2>7, <2>8, <2>9, <2>10, <2>11,
               <2>12, <2>13, <2>14, <2>15, <2>16, <2>17, <2>18, <2>19, <2>20, <2>21,
               <2>22, <2>23, <2>24, <2>25
               DEF Handles
<1>3. ASSUME NEW m \in Topics, Fetch(m)
      PROVE  /\ dlq \subseteq dlq' /\ enriched \subseteq enriched'
         /\ abandoned \subseteq abandoned' /\ excused \subseteq excused'
         /\ doubled \subseteq doubled' /\ (faults' = 0 => faults = 0)
  BY <1>3 DEF Fetch, still, ends
<1>4. ASSUME NEW u \in Urls, Purge(u)
      PROVE  /\ dlq \subseteq dlq' /\ enriched \subseteq enriched'
         /\ abandoned \subseteq abandoned' /\ excused \subseteq excused'
         /\ doubled \subseteq doubled' /\ (faults' = 0 => faults = 0)
  BY <1>4, FaultCounts DEF Purge, DeleteRaw, still, ends
<1>5. ASSUME NEW k \in Stages \X Urls, Expire(k)
      PROVE  /\ dlq \subseteq dlq' /\ enriched \subseteq enriched'
         /\ abandoned \subseteq abandoned' /\ excused \subseteq excused'
         /\ doubled \subseteq doubled' /\ (faults' = 0 => faults = 0)
  BY <1>5, FaultCounts DEF Expire, still, ends
<1>. QED  BY <1>1, <1>2, <1>3, <1>4, <1>5 DEF StageNext

LEMMA FailureFits ==
  ASSUME StageTypeOK, MessagesFit, NEW w \in Busy, NEW E, Fails(w, E), excused \subseteq excused'
  PROVE  MessagesFit'
<1>1. w \in Consumers /\ msg[w] \in Message /\ Url(w) \in Urls
  BY WorkersTyped DEF Busy
<1>2. MessageFits(msg[w], excused') /\ MessageFits(Job(Url(w)), excused')
  BY <1>1, SentFields DEF MessagesFit, MessageFits
<1>3. \A m \in Topics' : m \in Topics \/ m = msg[w] \/ m = Job(Url(w))
  BY <1>1, PutAdds, QueueStays, JobTypes DEF Fails
<1>4. \A m \in Topics' : MessageFits(m, excused')
  BY <1>2, <1>3 DEF MessagesFit, MessageFits
<1>5. \A v \in Busy' : v \in Busy /\ msg'[v] = msg[v]
  BY <1>1 DEF Busy, Fails, LeaveGate, Forget, Goto, StageTypeOK
<1>. QED  BY <1>4, <1>5 DEF MessagesFit, MessageFits

(* The messages of a step fit if those before it did.                      *)
LEMMA MessagesStayFit ==
  ASSUME StageTypeOK, StepsFit, MessagesFit, [StageNext]_stageVars
  PROVE  MessagesFit'
<1>1. CASE UNCHANGED stageVars
  BY <1>1, QueueStays DEF stageVars, worker, MessagesFit, Busy
<1>2. ASSUME NEW w \in Consumers, Handles(w)
      PROVE  MessagesFit'
  <2>1. CASE RawMissing(w)
    BY <1>2, <2>1, QueueStays DEF RawMissing, LeaveGate, MessagesFit, Forget, Goto,
           Busy, StageTypeOK
  <2>2. CASE RowMissing(w)
    BY <1>2, <2>2, QueueStays DEF RowMissing, LeaveGate, MessagesFit, Forget, Goto,
           Busy, StageTypeOK
  <2>3. CASE ReadFails(w)
    BY <1>2, <2>3, QueueStays DEF ReadFails, LeaveGate, MessagesFit, Forget, Goto, Busy,
           StageTypeOK
  <2>4. CASE Refuse(w)
    BY <1>2, <2>4, QueueStays, EndsGrow DEF Refuse, LeaveGate, MessagesFit, MessageFits,
           Forget, Goto, Busy, StageTypeOK
  <2>5. CASE Store(w)
    BY <1>2, <2>5, QueueStays DEF Store, At, MessagesFit, Goto, Busy
  <2>6. CASE Forward(w)
    BY <1>2, <2>6, PutAdds, SentIsMessage, SentFields DEF Forward, MessagesFit,
           MessageFits, Goto, Busy
  <2>7. CASE Cleanup(w)
    BY <1>2, <2>7, QueueStays, EndsGrow DEF Cleanup, MessagesFit, MessageFits, Goto,
       Busy
  <2>8. CASE Judge(w)
    BY <1>2, <2>8, QueueStays DEF Judge, At, MessagesFit, Goto, Busy
  <2>9. CASE Publish(w)
    BY <1>2, <2>9, PutAdds, SentIsMessage, SentFields DEF Publish, Publishes,
           MessagesFit, MessageFits, Goto, Busy
  <2>10. CASE Requeue(w)
    BY <1>2, <2>10, PutAdds, SentIsMessage, SentFields DEF Requeue, Publishes,
           MessagesFit, MessageFits, Goto, Busy, Url
  <2>11. CASE Republish(w)
    BY <1>2, <2>11, PutAdds, SentIsMessage, SentFields DEF Republish, Publishes,
           MessagesFit, MessageFits, Goto, Busy
  <2>12. CASE DeleteReparsed(w)
    BY <1>2, <2>12, QueueStays, EndsGrow DEF DeleteReparsed, Deletes, MessagesFit,
           MessageFits, Goto, Busy
  <2>13. CASE DeleteRejected(w)
    BY <1>2, <2>13, QueueStays, EndsGrow DEF DeleteRejected, Deletes, MessagesFit,
           MessageFits, Goto, Busy
  <2>14. CASE ToDlq(w)
    BY <1>2, <2>14, QueueStays DEF ToDlq, MessagesFit, Goto, Busy
  <2>15. CASE Enrich(w)
    BY <1>2, <2>15, QueueStays DEF Enrich, At, MessagesFit, Goto, Busy
  <2>16. CASE Commit(w)
    BY <1>2, <2>16, QueueStays DEF Commit, LeaveGate, MessagesFit, Forget, Goto, Busy,
           StageTypeOK
  <2>17. CASE ProcessFails(w)
    BY <1>2, <2>17, FailureFits, EndsGrow DEF ProcessFails, Busy
  <2>18. CASE DlqFails(w)
    BY <1>2, <2>18, FailureFits, EndsGrow DEF DlqFails, Busy
  <2>19. CASE CommitFails(w)
    BY <1>2, <2>19, PutAdds DEF CommitFails, LeaveGate, MessagesFit, Forget, Goto, Busy,
           StageTypeOK
  <2>20. CASE Crash(w)
    BY <1>2, <2>20, QueueStays, PutAdds, WorkersTyped, JobTypes, EndsGrow, SentFields
       DEF Crash, still, worker, MessagesFit, MessageFits, Forget, Goto, Busy,
           StageTypeOK
  <2>21. ASSUME NEW m \in Topics, Enter(w, m)
        PROVE  MessagesFit'
    BY <1>2, <2>21, TakeRemoves DEF Enter, Takes, MessagesFit, Goto, Busy, StageTypeOK
  <2>22. ASSUME NEW m \in Topics, EnterUngated(w, m)
        PROVE  MessagesFit'
    BY <1>2, <2>22, TakeRemoves DEF EnterUngated, Takes, MessagesFit, Goto, Busy,
           StageTypeOK
  <2>23. ASSUME NEW m \in Topics, Skip(w, m)
        PROVE  MessagesFit'
    BY <1>2, <2>23, SwapReplaces, PassedOnIsMessage, PassedOnFields
       DEF Skip, Skipped, worker, MessagesFit, MessageFits, Busy
  <2>24. ASSUME NEW m \in Topics, SkipToDlq(w, m)
        PROVE  MessagesFit'
    BY <1>2, <2>24, TakeRemoves DEF SkipToDlq, Skipped, worker, MessagesFit, Busy
  <2>25. ASSUME NEW m \in Topics, SkipLost(w, m)
        PROVE  MessagesFit'
    BY <1>2, <2>25, TakeRemoves DEF SkipLost, Skipped, worker, MessagesFit, MessageFits,
           Busy
  <2>. QED  BY <1>2, <2>1, <2>2, <2>3, <2>4, <2>5, <2>6, <2>7, <2>8, <2>9, <2>10, <2>11,
               <2>12, <2>13, <2>14, <2>15, <2>16, <2>17, <2>18, <2>19, <2>20, <2>21,
               <2>22, <2>23, <2>24, <2>25
               DEF Handles
<1>3. ASSUME NEW m \in Topics, Fetch(m)
      PROVE  MessagesFit'
  <2>1. /\ Topics' \subseteq Topics \cup {FetchedRef(m)} /\ excused' = excused
        /\ pc' = pc /\ msg' = msg
    BY <1>3, SwapReplaces, PassedOnIsMessage DEF Fetch, worker
  <2>2. FetchedRef(m).raw # 0 /\ FetchedRef(m).stage = "fetched"
    BY <1>3, PassedOnIsMessage, PassedOnFields DEF Fetch
  <2>3. MessageFits(FetchedRef(m), excused')
    BY <2>2 DEF MessageFits
  <2>. QED  BY <2>1, <2>3 DEF MessagesFit, Busy
<1>4. ASSUME NEW u \in Urls, Purge(u)
      PROVE  MessagesFit'
  BY <1>4, QueueStays, EndsGrow DEF Purge, worker, MessagesFit, MessageFits, Busy
<1>5. ASSUME NEW k \in Stages \X Urls, Expire(k)
      PROVE  MessagesFit'
  BY <1>5, QueueStays DEF Expire, worker, MessagesFit, Busy
<1>. QED  BY <1>1, <1>2, <1>3, <1>4, <1>5 DEF StageNext

(* A worker's step fits its message after a step too: Judge sends it where *)
(* the limits let it, and no one else moves it.                            *)
LEMMA StepsStayFit ==
  ASSUME StageTypeOK, StepsFit, [StageNext]_stageVars
  PROVE  StepsFit'
<1>1. CASE UNCHANGED stageVars
  BY <1>1 DEF stageVars, worker, StepsFit
<1>2. ASSUME NEW w \in Consumers, Handles(w)
      PROVE  StepsFit'
  <2>1. CASE RawMissing(w)
    BY <1>2, <2>1 DEF RawMissing, At, LeaveGate, StepsFit, Forget, Goto
  <2>2. CASE RowMissing(w)
    BY <1>2, <2>2 DEF RowMissing, At, LeaveGate, StepsFit, Forget, Goto
  <2>3. CASE ReadFails(w)
    BY <1>2, <2>3 DEF ReadFails, At, LeaveGate, StepsFit, Forget, Goto
  <2>4. CASE Refuse(w)
    BY <1>2, <2>4 DEF Refuse, At, LeaveGate, StepsFit, Forget, Goto
  <2>5. CASE Store(w)
    BY <1>2, <2>5 DEF Store, At, StepsFit, Goto
  <2>6. CASE Forward(w)
    BY <1>2, <2>6 DEF Forward, StepsFit, Goto
  <2>7. CASE Cleanup(w)
    BY <1>2, <2>7 DEF Cleanup, StepsFit, Goto
  <2>8. CASE Judge(w)
    <3>1. /\ msg[w].stage = "normalized" /\ msg' = msg
          /\ pc' = [pc EXCEPT ![w] = Course(msg[w], contents[msg[w].row])]
      BY <2>8 DEF Judge, At, Goto
    <3>2. \A m \in Message : \A row : LET c == Course(m, row) IN
            /\ c \in {"publish", "republish", "reject", "requeue"}
            /\ c = "republish" => m.reparse < MaxReparse
            /\ c = "requeue" => ~(m.retry >= MaxRetry)
      BY DEF Course
    <3>3. \A m \in Message : ~(m.retry >= MaxRetry) => m.retry < MaxRetry
      BY StageWorkersAssumption DEF Message
    <3>4. msg[w] \in Message
      BY <1>2 DEF StageTypeOK
    <3>5. \A v \in Consumers : pc'[v] = IF v = w THEN pc'[w] ELSE pc[v]
      BY <3>1 DEF StageTypeOK
    <3>6. pc'[w] = Course(msg[w], contents[msg[w].row])
      BY <1>2, <3>1 DEF StageTypeOK
    <3>. QED  BY <3>1, <3>2, <3>3, <3>4, <3>5, <3>6 DEF StepsFit
  <2>9. CASE Publish(w)
    BY <1>2, <2>9 DEF Publish, Publishes, StepsFit, Goto
  <2>10. CASE Requeue(w)
    BY <1>2, <2>10 DEF Requeue, Publishes, StepsFit, Goto
  <2>11. CASE Republish(w)
    BY <1>2, <2>11 DEF Republish, Publishes, StepsFit, Goto
  <2>12. CASE DeleteReparsed(w)
    BY <1>2, <2>12 DEF DeleteReparsed, Deletes, StepsFit, Goto
  <2>13. CASE DeleteRejected(w)
    BY <1>2, <2>13 DEF DeleteRejected, Deletes, StepsFit, Goto
  <2>14. CASE ToDlq(w)
    BY <1>2, <2>14 DEF ToDlq, StepsFit, Goto
  <2>15. CASE Enrich(w)
    BY <1>2, <2>15 DEF Enrich, StepsFit, Goto
  <2>16. CASE Commit(w)
    BY <1>2, <2>16 DEF Commit, LeaveGate, StepsFit, Forget, Goto
  <2>17. CASE ProcessFails(w)
    BY <1>2, <2>17 DEF ProcessFails, Fails, LeaveGate, StepsFit,
           Forget, Goto, StageTypeOK
  <2>18. CASE DlqFails(w)
    BY <1>2, <2>18 DEF DlqFails, Fails, LeaveGate, StepsFit, Forget,
           Goto, StageTypeOK
  <2>19. CASE CommitFails(w)
    BY <1>2, <2>19 DEF CommitFails, LeaveGate, StepsFit, Forget, Goto
  <2>20. CASE Crash(w)
    BY <1>2, <2>20 DEF Crash, StepsFit, Forget, Goto, StageTypeOK
  <2>21. ASSUME NEW m \in Topics, Enter(w, m)
        PROVE  StepsFit'
    BY <1>2, <2>21 DEF Enter, Takes, StepsFit, Goto
  <2>22. ASSUME NEW m \in Topics, EnterUngated(w, m)
        PROVE  StepsFit'
    BY <1>2, <2>22 DEF EnterUngated, Takes, StepsFit, Goto
  <2>23. ASSUME NEW m \in Topics, Skip(w, m)
        PROVE  StepsFit'
    BY <1>2, <2>23 DEF Skip, Skipped, worker, StepsFit
  <2>24. ASSUME NEW m \in Topics, SkipToDlq(w, m)
        PROVE  StepsFit'
    BY <1>2, <2>24 DEF SkipToDlq, Skipped, worker, StepsFit
  <2>25. ASSUME NEW m \in Topics, SkipLost(w, m)
        PROVE  StepsFit'
    BY <1>2, <2>25 DEF SkipLost, Skipped, worker, StepsFit
  <2>. QED  BY <1>2, <2>1, <2>2, <2>3, <2>4, <2>5, <2>6, <2>7, <2>8, <2>9, <2>10, <2>11,
               <2>12, <2>13, <2>14, <2>15, <2>16, <2>17, <2>18, <2>19, <2>20, <2>21,
               <2>22, <2>23, <2>24, <2>25
               DEF Handles
<1>3. ASSUME NEW m \in Topics, Fetch(m)
      PROVE  StepsFit'
  BY <1>3 DEF Fetch, worker, StepsFit
<1>4. ASSUME NEW u \in Urls, Purge(u)
      PROVE  StepsFit'
  BY <1>4 DEF Purge, worker, StepsFit
<1>5. ASSUME NEW k \in Stages \X Urls, Expire(k)
      PROVE  StepsFit'
  BY <1>5 DEF Expire, worker, StepsFit
<1>. QED  BY <1>1, <1>2, <1>3, <1>4, <1>5 DEF StageNext

---------------------------------------------------------------------------
(* Conservation                                                            *)

LEMMA StoreKeepsRows ==
  ASSUME StageTypeOK, NEW w \in Consumers, StoreRow(w)
  PROVE  /\ \A u \in Urls : contents[u] # NoRow => contents'[u] # NoRow
         /\ id'[w] \in Urls /\ contents'[id'[w]] # NoRow
         /\ \A v \in Consumers \ {w} : id'[v] = id[v]
<1>1. PICK c \in Rows :
       LET u == Url(w)
           same == {v \in Urls : contents[v].body = c.body}
       IN  IF same # {}
           THEN /\ \E v \in same : id' = [id EXCEPT ![w] = v]
                /\ UNCHANGED contents
           ELSE /\ id' = [id EXCEPT ![w] = u]
                /\ contents' = [contents EXCEPT ![u] =
                     IF @ = NoRow THEN c ELSE [c EXCEPT !.dated = contents[u].dated]]
  BY DEF StoreRow
<1>2. Url(w) \in Urls /\ c.body \in Bodies
  BY WorkersTyped DEF Rows
<1>3. \A r : r.body \in Bodies => r # NoRow
  BY StageWorkersAssumption DEF NoRow
<1>4. CASE {v \in Urls : contents[v].body = c.body} # {}
  <2>1. PICK v \in Urls : contents[v].body = c.body /\ id' = [id EXCEPT ![w] = v]
    BY <1>1, <1>4
  <2>2. UNCHANGED contents
    BY <1>1, <1>4
  <2>. QED  BY <1>2, <1>3, <2>1, <2>2 DEF StageTypeOK
<1>5. CASE {v \in Urls : contents[v].body = c.body} = {}
  <2>1. id' = [id EXCEPT ![w] = Url(w)]
    BY <1>1, <1>5
  <2>2. contents' = [contents EXCEPT ![Url(w)] =
           IF @ = NoRow THEN c ELSE [c EXCEPT !.dated = contents[Url(w)].dated]]
    BY <1>1, <1>5
  <2>3. contents'[Url(w)] = c \/ contents'[Url(w)] = [c EXCEPT !.dated = contents[Url(w)].dated]
    BY <1>2, <2>2 DEF StageTypeOK
  <2>4. [c EXCEPT !.dated = contents[Url(w)].dated].body = c.body
    OBVIOUS
  <2>5. contents'[Url(w)] # NoRow
    BY <1>2, <1>3, <2>3, <2>4
  <2>6. \A u \in Urls \ {Url(w)} : contents'[u] = contents[u]
    BY <2>2
  <2>. QED  BY <1>2, <2>1, <2>5, <2>6 DEF StageTypeOK
<1>. QED  BY <1>4, <1>5

(* A message leads on while there is what it refers to; a worker has its   *)
(* article in hand until it has published or settled it.                   *)
LeadsOn(m, pages, rows) ==
  /\ m.stage = "fetched" => pages[m.url] = m.raw
  /\ m.stage = "normalized" => rows[m.row] # NoRow

InHand(w) ==
  \/ pc[w] = "dlq"
  \/ /\ pc[w] \in {"read", "forward", "publish", "republish", "requeue", "reject"}
     /\ LeadsOn(msg[w], raw, contents)

Carried(u) ==
  \/ \E m \in Topics : m.url = u /\ LeadsOn(m, raw, contents)
  \/ \E w \in Consumers : InHand(w) /\ Url(w) = u
  \/ Settled(u) \/ u \in excused

AllCarried == \A u \in Seeds : Carried(u)

(* The row that a parser is about to forward is deleted only by a validate *)
(* worker that has it reparsed or rejects it, which excuses the article.   *)
LEMMA RowsStayStored ==
  ASSUME StageTypeOK, StepsFit, RowStored, [StageNext]_stageVars
  PROVE  RowStored'
<1>1. CASE UNCHANGED stageVars
  BY <1>1 DEF stageVars, worker, RowStored, Url
<1>2. ASSUME NEW w \in Consumers, Handles(w)
      PROVE  RowStored'
  <2>1. CASE RawMissing(w)
    BY <1>2, <2>1 DEF RawMissing, At, LeaveGate, RowStored, Forget, Goto, Url
  <2>2. CASE RowMissing(w)
    BY <1>2, <2>2 DEF RowMissing, At, LeaveGate, RowStored, Forget, Goto, Url
  <2>3. CASE ReadFails(w)
    BY <1>2, <2>3 DEF ReadFails, At, LeaveGate, RowStored, Forget, Goto, Url
  <2>4. CASE Refuse(w)
    BY <1>2, <2>4, EndsGrow DEF Refuse, At, LeaveGate, RowStored, Forget, Goto, Url
  <2>5. CASE Store(w)
    BY <1>2, <2>5, StoreKeepsRows DEF Store, RowStored, Goto, Url, StageTypeOK
  <2>6. CASE Forward(w)
    BY <1>2, <2>6 DEF Forward, RowStored, Goto, Url
  <2>7. CASE Cleanup(w)
    BY <1>2, <2>7, EndsGrow DEF Cleanup, RowStored, Goto, Url
  <2>8. CASE Judge(w)
    BY <1>2, <2>8 DEF Judge, RowStored, Goto, Url, Course
  <2>9. CASE Publish(w)
    BY <1>2, <2>9 DEF Publish, Publishes, RowStored, Goto, Url
  <2>10. CASE Requeue(w)
    BY <1>2, <2>10 DEF Requeue, Publishes, RowStored, Goto, Url
  <2>11. CASE Republish(w)
    BY <1>2, <2>11 DEF Republish, Publishes, RowStored, Goto, Url
  <2>12. CASE DeleteReparsed(w)
    BY <1>2, <2>12 DEF DeleteReparsed, Deletes, DeleteContent, RowStored, Goto, Busy,
           Url, StageTypeOK, RowUsers
  <2>13. CASE DeleteRejected(w)
    BY <1>2, <2>13 DEF DeleteRejected, Deletes, DeleteContent, RowStored, Goto, Busy,
           Url, StageTypeOK, RowUsers
  <2>14. CASE ToDlq(w)
    BY <1>2, <2>14 DEF ToDlq, RowStored, Goto, Url
  <2>15. CASE Enrich(w)
    BY <1>2, <2>15 DEF Enrich, RowStored, Goto, Url
  <2>16. CASE Commit(w)
    BY <1>2, <2>16 DEF Commit, LeaveGate, RowStored, Forget, Goto, Url
  <2>17. CASE ProcessFails(w)
    BY <1>2, <2>17, QueueStays, PutAdds, WorkersTyped, JobTypes, EndsGrow
       DEF ProcessFails, Fails, LeaveGate, still, worker, ends, RowStored, Forget, Goto,
           Busy, Url, StageTypeOK, StepsFit
  <2>18. CASE DlqFails(w)
    BY <1>2, <2>18, QueueStays, PutAdds, WorkersTyped, JobTypes, EndsGrow
       DEF DlqFails, Fails, LeaveGate, still, worker, ends, RowStored, Forget, Goto,
           Busy, Url, StageTypeOK, StepsFit
  <2>19. CASE CommitFails(w)
    BY <1>2, <2>19 DEF CommitFails, LeaveGate, RowStored, Forget, Goto, Url
  <2>20. CASE Crash(w)
    BY <1>2, <2>20, QueueStays, PutAdds, WorkersTyped, JobTypes, EndsGrow
       DEF Crash, still, worker, RowStored, Forget, Goto, Url
  <2>21. ASSUME NEW m \in Topics, Enter(w, m)
        PROVE  RowStored'
    BY <1>2, <2>21 DEF Enter, Takes, RowStored, Goto, Url
  <2>22. ASSUME NEW m \in Topics, EnterUngated(w, m)
        PROVE  RowStored'
    BY <1>2, <2>22 DEF EnterUngated, Takes, RowStored, Goto, Url
  <2>23. ASSUME NEW m \in Topics, Skip(w, m)
        PROVE  RowStored'
    BY <1>2, <2>23 DEF Skip, Skipped, worker, RowStored, Url
  <2>24. ASSUME NEW m \in Topics, SkipToDlq(w, m)
        PROVE  RowStored'
    BY <1>2, <2>24 DEF SkipToDlq, Skipped, worker, RowStored, Url
  <2>25. ASSUME NEW m \in Topics, SkipLost(w, m)
        PROVE  RowStored'
    BY <1>2, <2>25 DEF SkipLost, Skipped, worker, RowStored, Url
  <2>. QED  BY <1>2, <2>1, <2>2, <2>3, <2>4, <2>5, <2>6, <2>7, <2>8, <2>9, <2>10, <2>11,
               <2>12, <2>13, <2>14, <2>15, <2>16, <2>17, <2>18, <2>19, <2>20, <2>21,
               <2>22, <2>23, <2>24, <2>25
               DEF Handles
<1>3. ASSUME NEW m \in Topics, Fetch(m)
      PROVE  RowStored'
  BY <1>3 DEF Fetch, worker, RowStored, Url
<1>4. ASSUME NEW u \in Urls, Purge(u)
      PROVE  RowStored'
  BY <1>4, EndsGrow DEF Purge, worker, RowStored, Url
<1>5. ASSUME NEW k \in Stages \X Urls, Expire(k)
      PROVE  RowStored'
  BY <1>5 DEF Expire, worker, RowStored, Url
<1>. QED  BY <1>1, <1>2, <1>3, <1>4, <1>5 DEF StageNext

(* Whoever has a message or an article in hand still has it after a step   *)
(* that neither takes the message nor moves the worker, unless the row it  *)
(* needs is deleted, which excuses the article.                            *)
LEMMA CarriersStay ==
  ASSUME StageTypeOK, StepsFit, AllCarried, NEW w, NEW u \in Seeds,
         Topics \subseteq Topics', excused \subseteq excused', Settled(u) => Settled(u)',
         \A v \in Consumers \ {w} :
           InHand(v) => pc'[v] = pc[v] /\ msg'[v] = msg[v],
         \A m \in Message : LeadsOn(m, raw, contents) =>
           \/ LeadsOn(m, raw', contents')
           \/ /\ m \in Topics => m.url \in excused'
              /\ \A v \in Consumers \ {w} :
                   InHand(v) /\ pc[v] # "dlq" /\ msg[v] = m => m.url \in excused',
         w \in Consumers /\ InHand(w) /\ Url(w) = u => Carried(u)'
  PROVE  Carried(u)'
<1>1. Carried(u)
  BY DEF AllCarried
<1>2. CASE Settled(u) \/ u \in excused
  BY <1>2 DEF Carried
<1>3. ASSUME NEW m \in Topics, m.url = u, LeadsOn(m, raw, contents)  PROVE Carried(u)'
  <2>1. m \in Message
    BY DEF StageTypeOK
  <2>. QED  BY <1>3, <2>1 DEF Carried
<1>4. ASSUME NEW v \in Consumers \ {w}, InHand(v), Url(v) = u  PROVE Carried(u)'
  <2>1. msg[v] \in Message /\ pc'[v] = pc[v] /\ msg'[v] = msg[v]
    BY <1>4, WorkersTyped
  <2>2. CASE pc[v] = "dlq"
    BY <1>4, <2>1, <2>2 DEF Carried, InHand, Url
  <2>3. CASE LeadsOn(msg[v], raw', contents')
    BY <1>4, <2>1, <2>3 DEF Carried, InHand, Url
  <2>4. CASE u \in excused'
    BY <2>4 DEF Carried
  <2>. QED  BY <1>4, <2>1, <2>2, <2>3, <2>4 DEF InHand, Url
<1>. QED  BY <1>1, <1>2, <1>3, <1>4 DEF Carried

LEMMA FailureDropsNothing ==
  ASSUME StageTypeOK, StepsFit, AllCarried, NEW w \in Consumers, pc[w] # "idle", NEW E,
         \/ Fails(w, E)
         \/ /\ \/ excused' = excused \cup {Url(w)} /\ UNCHANGED queue
               \/ Put(msg[w]) /\ excused' = excused \cup E
            /\ Forget(w) /\ UNCHANGED <<raw, contents, ends>>,
         InHand(w) => LeadsOn(msg[w], raw, contents) \/ Url(w) \in E
  PROVE  AllCarried'
<1>. SUFFICES ASSUME NEW u \in Seeds  PROVE Carried(u)'
  BY DEF AllCarried
<1>1. msg[w] \in Message /\ Url(w) \in Urls
  BY WorkersTyped
<1>2. /\ raw' = raw /\ contents' = contents /\ excused \subseteq excused'
      /\ Settled(u) => Settled(u)'
  BY DEF Fails, Settled, ends
<1>3. \A v \in Consumers \ {w} : pc'[v] = pc[v] /\ msg'[v] = msg[v]
  BY DEF Fails, LeaveGate, Forget, Goto, StageTypeOK
<1>4. Topics \subseteq Topics'
  BY <1>1, QueueStays, PutAdds, JobTypes DEF Fails
<1>5. ASSUME InHand(w), Url(w) = u  PROVE Carried(u)'
  <2>1. CASE Put(msg[w]) /\ excused' = excused \cup E
    BY <1>1, <1>2, <1>5, <2>1, PutAdds DEF Carried, Url
  <2>2. CASE Put(Job(Url(w)))
    BY <1>1, <1>5, <2>2, PutAdds, JobTypes, SentFields DEF Carried, LeadsOn
  <2>3. CASE dlq' = dlq \cup {Url(w)} \/ excused' = excused \cup {Url(w)}
    BY <1>5, <2>3 DEF Carried, Settled
  <2>. QED  BY <2>1, <2>2, <2>3 DEF Fails
<1>. QED  BY <1>2, <1>3, <1>4, <1>5, CarriersStay

(* Each step of each worker hands its article on: a message is taken when  *)
(* the worker holds it, and given up when the next one is in a topic, when *)
(* the article is at an end, or with what it needs gone and so excused.    *)
LEMMA NothingIsDropped ==
  ASSUME StageTypeOK, StepsFit, MessagesFit, RowStored, AllCarried, [StageNext]_stageVars
  PROVE  AllCarried'
<1>1. CASE UNCHANGED stageVars
  BY <1>1, QueueStays, EndsGrow DEF stageVars, worker, AllCarried, Carried, InHand,
         Settled, Url
<1>2. ASSUME NEW w \in Consumers, Handles(w)
      PROVE  AllCarried'
  <2>1. CASE RawMissing(w)
    BY <1>2, <2>1, QueueStays, EndsGrow DEF RawMissing, At, LeaveGate, AllCarried,
           Carried, InHand, LeadsOn, Settled, Forget, Goto, Url, HasRaw
  <2>2. CASE RowMissing(w)
    BY <1>2, <2>2, QueueStays, EndsGrow DEF RowMissing, At, LeaveGate, AllCarried,
           Carried, InHand, LeadsOn, Settled, Forget, Goto, Url
  <2>3. CASE ReadFails(w)
    BY <1>2, <2>3, QueueStays, EndsGrow, PassedOnIsMessage, StageWorkersAssumption
       DEF ReadFails, At, LeaveGate, still, worker, ends, AllCarried, Carried, InHand,
           LeadsOn, Settled, Forget, Goto, Busy, Url, StageTypeOK, StepsFit
  <2>4. CASE Refuse(w)
    BY <1>2, <2>4, QueueStays, StageWorkersAssumption DEF Refuse, LeaveGate, DeleteRaw,
           AllCarried, Carried, InHand, LeadsOn, Settled, Forget, Goto, Url, StageTypeOK
  <2>5. CASE Store(w)
    <3>. SUFFICES ASSUME NEW u \in Seeds  PROVE Carried(u)'
      BY DEF AllCarried
    <3>1. /\ Topics' = Topics /\ excused' = excused /\ raw' = raw /\ UNCHANGED ends
          /\ msg' = msg
          /\ pc' = [pc EXCEPT ![w] = "forward"]
          /\ msg[w].stage = "fetched" /\ LeadsOn(msg[w], raw, contents)
      BY <2>5, QueueStays DEF Store, At, HasRaw, Goto, LeadsOn, Url
    <3>2. \A m \in Message : LeadsOn(m, raw, contents) => LeadsOn(m, raw', contents')
      BY <2>5, <3>1, StoreKeepsRows DEF Store, LeadsOn, Message
    <3>3. \A v \in Consumers \ {w} : pc'[v] = pc[v]
      BY <3>1
    <3>4. Url(w) = u => Carried(u)'
      <4>1. pc'[w] = "forward" /\ LeadsOn(msg'[w], raw', contents')
        BY <3>1, <3>2 DEF StageTypeOK
      <4>. QED  BY <3>1, <4>1 DEF InHand, Carried, Url
    <3>5. Settled(u) => Settled(u)'
      BY <3>1 DEF Settled, ends
    <3>. QED  BY <3>1, <3>2, <3>3, <3>4, <3>5, CarriersStay
  <2>6. CASE Forward(w)
    BY <1>2, <2>6, PutAdds, SentIsMessage, EndsGrow, PassedOnIsMessage,
       StageWorkersAssumption, SentFields
       DEF Forward, still, worker, ends, AllCarried, Carried, InHand, LeadsOn, Settled,
           Goto, Url, RowStored
  <2>7. CASE Cleanup(w)
    BY <1>2, <2>7, QueueStays, EndsGrow, StageWorkersAssumption
       DEF Cleanup, DeleteRaw, AllCarried, Carried, InHand, LeadsOn, Settled, Goto,
           Busy, Url, StageTypeOK, StepsFit, RawUsers
  <2>8. CASE Judge(w)
    BY <1>2, <2>8, QueueStays, EndsGrow DEF Judge, At, AllCarried, Carried, InHand,
           Settled, Goto, Url, Course
  <2>9. CASE Publish(w)
    BY <1>2, <2>9, PutAdds, SentIsMessage, EndsGrow, SentFields
       DEF Publish, Publishes, AllCarried, Carried, InHand, LeadsOn, Settled, Goto, Url
  <2>10. CASE Requeue(w)
    <3> DEFINE n == Requeued(w)
    <3>1. /\ pc[w] = "requeue" /\ Put(n) /\ n \in Message /\ n.url = Url(w)
          /\ n.stage = msg[w].stage /\ n.row = msg[w].row /\ n.raw = msg[w].raw
          /\ msg' = msg /\ raw' = raw /\ contents' = contents /\ ends' = ends
          /\ excused' = excused /\ \A v \in Consumers \ {w} : pc'[v] = pc[v]
      BY <2>10, SentIsMessage, SentFields DEF Requeue, Publishes, Goto
    <3>2. Topics' = Topics \cup {n}
      BY <3>1, PutAdds
    <3>3. InHand(w) => LeadsOn(n, raw, contents)
      BY <3>1 DEF InHand, LeadsOn, Url
    <3>4. \A u \in Seeds : Settled(u)' = Settled(u)
      BY <3>1 DEF Settled, ends
    <3>5. \A v \in Consumers \ {w} : InHand(v) => InHand(v)' /\ Url(v)' = Url(v)
      BY <3>1 DEF InHand, Url
    <3> HIDE DEF n
    <3>. QED  BY <3>1, <3>2, <3>3, <3>4, <3>5 DEF AllCarried, Carried
  <2>11. CASE Republish(w)
    BY <1>2, <2>11, PutAdds, SentIsMessage, EndsGrow, PassedOnIsMessage,
       StageWorkersAssumption, SentFields
       DEF Republish, Publishes, still, worker, ends, AllCarried, Carried, InHand,
           LeadsOn, Settled, Goto, Busy, Url, StepsFit, MessagesFit, MessageFits
  <2>12. CASE DeleteReparsed(w)
    <3>. SUFFICES ASSUME NEW u \in Seeds  PROVE Carried(u)'
      BY DEF AllCarried
    <3>1. /\ Topics' = Topics /\ excused \subseteq excused' /\ raw' = raw /\ UNCHANGED ends
          /\ msg' = msg /\ \A v \in Consumers \ {w} : pc'[v] = pc[v]
      BY <2>12, QueueStays DEF DeleteReparsed, Deletes, DeleteContent, Goto
    <3>2. ASSUME NEW m \in Message, LeadsOn(m, raw, contents)
          PROVE  \/ LeadsOn(m, raw', contents')
                 \/ /\ m \in Topics => m.url \in excused'
                    /\ \A v \in Consumers \ {w} :
                         InHand(v) /\ pc[v] # "dlq" /\ msg[v] = m => m.url \in excused'
      <4>1. CASE UNCHANGED contents
        BY <3>1, <3>2, <4>1
      <4>2. CASE DeleteContent(w, msg[w].row)
        <5>1. CASE m.stage = "normalized" /\ m.row = msg[w].row
          <6>1. m \in Topics => m.url \in RowUsers(w, msg[w].row)
            BY <5>1 DEF RowUsers
          <6>2. \A v \in Consumers \ {w} : InHand(v) /\ pc[v] # "dlq" /\ msg[v] = m =>
                  m.url \in RowUsers(w, msg[w].row)
            BY <5>1 DEF RowUsers, InHand, Busy, Url, StepsFit
          <6>. QED  BY <4>2, <6>1, <6>2 DEF DeleteContent
        <5>2. CASE ~(m.stage = "normalized" /\ m.row = msg[w].row)
          BY <3>1, <3>2, <4>2, <5>2 DEF DeleteContent, LeadsOn
        <5>. QED  BY <5>1, <5>2
      <4>. QED  BY <2>12, <4>1, <4>2 DEF DeleteReparsed, Deletes
    <3>3. InHand(w) /\ Url(w) = u => Carried(u)'
      BY <2>12, <3>1 DEF DeleteReparsed, Deletes, InHand
    <3>4. Settled(u) => Settled(u)'
      BY <3>1 DEF Settled, ends
    <3>. QED  BY <3>1, <3>2, <3>3, <3>4, CarriersStay
  <2>13. CASE DeleteRejected(w)
    <3>. SUFFICES ASSUME NEW u \in Seeds  PROVE Carried(u)'
      BY DEF AllCarried
    <3>1. /\ Topics' = Topics /\ excused \subseteq excused' /\ raw' = raw /\ UNCHANGED ends
          /\ msg' = msg /\ \A v \in Consumers \ {w} : pc'[v] = pc[v]
      BY <2>13, QueueStays DEF DeleteRejected, Deletes, DeleteContent, Goto
    <3>2. ASSUME NEW m \in Message, LeadsOn(m, raw, contents)
          PROVE  \/ LeadsOn(m, raw', contents')
                 \/ /\ m \in Topics => m.url \in excused'
                    /\ \A v \in Consumers \ {w} :
                         InHand(v) /\ pc[v] # "dlq" /\ msg[v] = m => m.url \in excused'
      <4>1. CASE UNCHANGED contents
        BY <3>1, <3>2, <4>1
      <4>2. CASE DeleteContent(w, msg[w].row)
        <5>1. CASE m.stage = "normalized" /\ m.row = msg[w].row
          <6>1. m \in Topics => m.url \in RowUsers(w, msg[w].row)
            BY <5>1 DEF RowUsers
          <6>2. \A v \in Consumers \ {w} : InHand(v) /\ pc[v] # "dlq" /\ msg[v] = m =>
                  m.url \in RowUsers(w, msg[w].row)
            BY <5>1 DEF RowUsers, InHand, Busy, Url, StepsFit
          <6>. QED  BY <4>2, <6>1, <6>2 DEF DeleteContent
        <5>2. CASE ~(m.stage = "normalized" /\ m.row = msg[w].row)
          BY <3>1, <3>2, <4>2, <5>2 DEF DeleteContent, LeadsOn
        <5>. QED  BY <5>1, <5>2
      <4>. QED  BY <2>13, <4>1, <4>2 DEF DeleteRejected, Deletes
    <3>3. InHand(w) /\ Url(w) = u => Carried(u)'
      BY <2>13, <3>1 DEF DeleteRejected, Deletes, InHand, Carried, Url, Goto,
         StageTypeOK
    <3>4. Settled(u) => Settled(u)'
      BY <3>1 DEF Settled, ends
    <3>. QED  BY <3>1, <3>2, <3>3, <3>4, CarriersStay
  <2>14. CASE ToDlq(w)
    BY <1>2, <2>14, QueueStays DEF ToDlq, AllCarried, Carried, InHand, Settled, Goto,
       Url
  <2>15. CASE Enrich(w)
    BY <1>2, <2>15, QueueStays DEF Enrich, AllCarried, Carried, InHand, Settled,
       Goto, Url
  <2>16. CASE Commit(w)
    BY <1>2, <2>16, QueueStays, EndsGrow DEF Commit, LeaveGate, AllCarried, Carried,
           InHand, Settled, Forget, Goto, Url
  <2>17. CASE ProcessFails(w)
    BY <1>2, <2>17, FailureDropsNothing DEF ProcessFails, InHand
  <2>18. CASE DlqFails(w)
    <3>1. pc[w] = "dlq" /\ msg[w].stage = "normalized" /\ Fails(w, Unrecoverable(w))
      BY <2>18 DEF DlqFails, StepsFit
    <3>2. LeadsOn(msg[w], raw, contents) \/ Url(w) \in Unrecoverable(w)
      BY <3>1 DEF LeadsOn, Unrecoverable
    <3>. QED  BY <3>1, <3>2, FailureDropsNothing
  <2>19. CASE CommitFails(w)
    <3>1. /\ Put(msg[w]) /\ excused' = excused \cup {} /\ Forget(w)
          /\ UNCHANGED <<raw, contents, ends>>
      BY <2>19 DEF CommitFails, LeaveGate
    <3>2. ~InHand(w) /\ pc[w] # "idle"
      BY <2>19 DEF CommitFails, InHand
    <3>. QED  BY <3>1, <3>2, FailureDropsNothing
  <2>20. CASE Crash(w)
    <3>1. /\ \/ excused' = excused \cup {Url(w)} /\ UNCHANGED queue
             \/ Put(msg[w]) /\ excused' = excused \cup Unrecoverable(w)
          /\ Forget(w) /\ UNCHANGED <<raw, contents, ends>> /\ pc[w] # "idle"
      BY <2>20 DEF Crash
    <3>2. InHand(w) => LeadsOn(msg[w], raw, contents) \/ Url(w) \in Unrecoverable(w)
      BY DEF InHand, LeadsOn, Unrecoverable, StepsFit
    <3>. QED  BY <3>1, <3>2, FailureDropsNothing
  <2>21. ASSUME NEW m \in Topics, Enter(w, m)
        PROVE  AllCarried'
    BY <1>2, <2>21, TakeRemoves DEF Enter, Takes, ends, AllCarried, Carried, InHand,
           Settled, Goto, Url, StageTypeOK
  <2>22. ASSUME NEW m \in Topics, EnterUngated(w, m)
        PROVE  AllCarried'
    BY <1>2, <2>22, TakeRemoves, EndsGrow DEF EnterUngated, Takes, AllCarried, Carried,
           InHand, Settled, Goto, Url, StageTypeOK
  <2>23. ASSUME NEW m \in Topics, Skip(w, m)
        PROVE  AllCarried'
    BY <1>2, <2>23, SwapReplaces, PassedOnIsMessage, PassedOnIsMessage, PassedOnFields
       DEF Skip, Skipped, worker, AllCarried, Carried, InHand, LeadsOn, Settled, Url
  <2>24. ASSUME NEW m \in Topics, SkipToDlq(w, m)
        PROVE  AllCarried'
    BY <1>2, <2>24, TakeRemoves DEF SkipToDlq, Skipped, worker, AllCarried, Carried,
           InHand, Settled, Url
  <2>25. ASSUME NEW m \in Topics, SkipLost(w, m)
        PROVE  AllCarried'
    BY <1>2, <2>25, TakeRemoves DEF SkipLost, Skipped, worker, AllCarried, Carried,
           InHand, Settled, Url
  <2>. QED  BY <1>2, <2>1, <2>2, <2>3, <2>4, <2>5, <2>6, <2>7, <2>8, <2>9, <2>10, <2>11,
               <2>12, <2>13, <2>14, <2>15, <2>16, <2>17, <2>18, <2>19, <2>20, <2>21,
               <2>22, <2>23, <2>24, <2>25
               DEF Handles
<1>3. ASSUME NEW m \in Topics, Fetch(m)
      PROVE  AllCarried'
  <2>. SUFFICES ASSUME NEW u \in Seeds  PROVE Carried(u)'
    BY DEF AllCarried
  <2>1. /\ excused' = excused /\ contents' = contents /\ UNCHANGED ends /\ msg' = msg
        /\ pc' = pc
        /\ raw' = [raw EXCEPT ![m.url] = RawToStore(m.url)]
        /\ FetchedRef(m) \in Topics' /\ Topics \ {m} \subseteq Topics'
        /\ m.url \in Urls
    BY <1>3, SwapReplaces, PassedOnIsMessage DEF Fetch, worker
  <2>2. CASE m.url = u
    <3>1. LeadsOn(FetchedRef(m), raw', contents') /\ FetchedRef(m).url = u
      BY <2>1, <2>2, PassedOnFields DEF LeadsOn, StageTypeOK
    <3>. QED  BY <2>1, <3>1 DEF Carried
  <2>3. CASE m.url # u
    <3>1. \A n : n.url = u /\ LeadsOn(n, raw, contents) => LeadsOn(n, raw', contents')
      BY <2>1, <2>3 DEF LeadsOn
    <3>2. \A v \in Consumers : InHand(v) /\ Url(v) = u => InHand(v)' /\ Url(v)' = u
      BY <2>1, <3>1 DEF InHand, Url
    <3>3. Settled(u) => Settled(u)'
      BY <2>1 DEF Settled, ends
    <3>. QED  BY <2>1, <2>3, <3>1, <3>2, <3>3 DEF Carried, AllCarried
  <2>. QED  BY <2>2, <2>3
<1>4. ASSUME NEW u \in Urls, Purge(u)
      PROVE  AllCarried'
  BY <1>4, QueueStays, EndsGrow, StageWorkersAssumption DEF Purge, DeleteRaw, worker,
         AllCarried, Carried, InHand, LeadsOn, Settled, Busy, Url, StepsFit, RawUsers
<1>5. ASSUME NEW k \in Stages \X Urls, Expire(k)
      PROVE  AllCarried'
  BY <1>5, QueueStays, EndsGrow DEF Expire, worker, AllCarried, Carried, InHand,
         Settled, Url
<1>. QED  BY <1>1, <1>2, <1>3, <1>4, <1>5 DEF StageNext

---------------------------------------------------------------------------
(* Without failures                                                        *)

(* How many copies a queue has when a message is put, taken or replaced.   *)
LEMMA PutCounts ==
  ASSUME StageTypeOK, NEW m, Put(m)
  PROVE  /\ \A n \in Topics \ {m} : queue'[n] = queue[n]
         /\ m \notin Topics => queue'[m] = 1
BY BagGrows DEF StageTypeOK, Put, Topics

LEMMA TakeCounts ==
  ASSUME StageTypeOK, NEW m \in Topics, Take(m)
  PROVE  /\ \A n \in Topics \ {m} : queue'[n] = queue[n]
         /\ queue[m] = 1 => m \notin Topics'
BY BagShrinks DEF StageTypeOK, Take, Topics

LEMMA SwapCounts ==
  ASSUME StageTypeOK, NEW m \in Topics, NEW n, Swap(m, n), m # n
  PROVE  /\ \A x \in Topics \ {m, n} : queue'[x] = queue[x]
         /\ n \notin Topics => queue'[n] = 1
         /\ queue[m] = 1 => m \notin Topics'
<1> DEFINE rest == queue (-) SetToBag({m})
<1>1. /\ IsABag(rest) /\ BagToSet(rest) \subseteq Topics
      /\ Topics \ {m} \subseteq BagToSet(rest)
      /\ \A x \in Topics \ {m} : rest[x] = queue[x]
      /\ queue[m] = 1 => m \notin BagToSet(rest)
  BY BagShrinks DEF StageTypeOK, Topics
<1> HIDE DEF rest
<1>2. /\ BagToSet(rest (+) SetToBag({n})) = BagToSet(rest) \cup {n}
      /\ \A x \in BagToSet(rest) \ {n} : (rest (+) SetToBag({n}))[x] = rest[x]
      /\ n \notin BagToSet(rest) => (rest (+) SetToBag({n}))[n] = 1
  BY <1>1, BagGrows
<1>3. queue' = rest (+) SetToBag({n})
  BY DEF Swap, rest
<1>. QED  BY <1>1, <1>2, <1>3 DEF Topics

(* One message or one worker has an article, and it is the only copy.      *)
OneCopy ==
  faults = 0 =>
    \A u \in Urls \ doubled :
      /\ \A m \in Waiting(u) : queue[m] = 1 /\ \A n \in Waiting(u) : m = n
      /\ \A v, w \in Unpublished(u) : v = w
      /\ Waiting(u) = {} \/ Unpublished(u) = {}

(* The gate of the parsers excludes, and what a parser has read of a raw   *)
(* row is still the row.                                                   *)
GateKept ==
  faults = 0 =>
    /\ \A s \in Stages, u \in Urls :
         /\ lock[<<s, u>>] # Orphan
         /\ lock[<<s, u>>] # Unheld =>
              /\ lock[<<s, u>>] \in Busy
              /\ msg[lock[<<s, u>>]].stage = s /\ Url(lock[<<s, u>>]) = u
              /\ s = "fetched" => pc[lock[<<s, u>>]] \in {"read", "forward", "cleanup"}
    /\ \A w \in Busy :
         msg[w].stage = "fetched" /\ pc[w] # "commit" => lock[<<"fetched", Url(w)>>] = w
    /\ \A w \in Busy : pc[w] \in {"forward", "cleanup"} => raw[Url(w)] = msg[w].raw

(* A raw row has a job or a reference, in a topic or with a parser.        *)
Parsing(w) == msg[w].stage = "fetched" /\ pc[w] \in {"read", "forward", "cleanup"}

RowHasReader ==
  faults = 0 =>
    \A u \in Urls \ doubled :
      \/ raw[u] = 0 \/ u \in abandoned
      \/ \E m \in Waiting(u) : m.stage = "crawl" \/ (m.stage = "fetched" /\ m.raw = raw[u])
      \/ \E w \in Consumers : Parsing(w) /\ Url(w) = u /\ msg[w].raw = raw[u]

LEMMA PublishingKeepsOne ==
  ASSUME StageTypeOK, OneCopy, NEW w \in Consumers, NEW m \in Message, Put(m),
         m.url = Url(w) \/ m.url \in doubled', w \in Unpublished(Url(w)),
         NEW p, p \in {"cleanup", "delete", "commit"},
         pc' = [pc EXCEPT ![w] = p], msg' = msg, doubled \subseteq doubled', faults' = faults
  PROVE  OneCopy'
<1>. SUFFICES ASSUME faults = 0, NEW u \in Urls \ doubled, u \notin doubled'
     PROVE  /\ \A n \in Waiting(u)' : queue'[n] = 1 /\ \A x \in Waiting(u)' : n = x
            /\ \A x, y \in Unpublished(u)' : x = y
            /\ Waiting(u)' = {} \/ Unpublished(u)' = {}
  BY DEF OneCopy
<1>1. Topics' = Topics \cup {m} /\ \A n \in Topics \ {m} : queue'[n] = queue[n]
  BY PutAdds, PutCounts
<1>2. Unpublished(u)' = Unpublished(u) \ {w}
  BY DEF Unpublished, Url, StageTypeOK
<1>3. CASE u = m.url
  <2>1. Waiting(u) = {} /\ Unpublished(u) = {w}
    BY <1>3 DEF OneCopy
  <2>2. Waiting(u)' = {m} /\ queue'[m] = 1
    BY <1>1, <1>3, <2>1, PutCounts DEF Waiting
  <2>. QED  BY <1>2, <2>1, <2>2
<1>4. CASE u # m.url
  <2>1. Waiting(u)' = Waiting(u) /\ \A n \in Waiting(u) : queue'[n] = queue[n]
    BY <1>1, <1>4 DEF Waiting
  <2>. QED  BY <1>2, <2>1 DEF OneCopy
<1>. QED  BY <1>3, <1>4

LEMMA ReplacingKeepsOne ==
  ASSUME StageTypeOK, OneCopy, NEW m \in Topics, NEW n \in Message, Swap(m, n), n # m,
         n.url = m.url, pc' = pc, msg' = msg, doubled' = doubled, faults' = faults
  PROVE  OneCopy'
<1>. SUFFICES ASSUME faults = 0, NEW u \in Urls \ doubled
     PROVE  /\ \A x \in Waiting(u)' : queue'[x] = 1 /\ \A y \in Waiting(u)' : x = y
            /\ \A x, y \in Unpublished(u)' : x = y
            /\ Waiting(u)' = {} \/ Unpublished(u)' = {}
  BY DEF OneCopy
<1>1. /\ Topics' \subseteq Topics \cup {n} /\ (Topics \ {m}) \cup {n} \subseteq Topics'
      /\ \A x \in Topics \ {m, n} : queue'[x] = queue[x]
      /\ queue[m] = 1 => m \notin Topics'
      /\ n \notin Topics => queue'[n] = 1
  BY SwapReplaces, SwapCounts
<1>2. Unpublished(u)' = Unpublished(u)
  BY DEF Unpublished, Url
<1>3. CASE u = m.url
  <2>1. Waiting(u) = {m} /\ queue[m] = 1 /\ Unpublished(u) = {}
    BY <1>3 DEF OneCopy, Waiting
  <2>2. Waiting(u)' = {n} /\ queue'[n] = 1
    BY <1>1, <1>3, <2>1 DEF Waiting
  <2>. QED  BY <1>2, <2>1, <2>2
<1>4. CASE u # m.url
  <2>1. Waiting(u)' = Waiting(u) /\ \A x \in Waiting(u) : queue'[x] = queue[x]
    BY <1>1, <1>4 DEF Waiting
  <2>. QED  BY <1>2, <2>1 DEF OneCopy
<1>. QED  BY <1>3, <1>4

LEMMA TakingKeepsOne ==
  ASSUME StageTypeOK, OneCopy, NEW w \in Consumers, NEW m \in Topics, Takes(w, m)
  PROVE  faults' = faults => OneCopy'
<1>. SUFFICES ASSUME faults' = faults, faults = 0, NEW u \in Urls \ doubled
     PROVE  /\ \A x \in Waiting(u)' : queue'[x] = 1 /\ \A y \in Waiting(u)' : x = y
            /\ \A x, y \in Unpublished(u)' : x = y
            /\ Waiting(u)' = {} \/ Unpublished(u)' = {}
  BY DEF OneCopy, Takes, still
<1>1. /\ Topics' \subseteq Topics /\ Topics \ {m} \subseteq Topics'
      /\ \A x \in Topics \ {m} : queue'[x] = queue[x]
      /\ queue[m] = 1 => m \notin Topics'
  BY TakeRemoves, TakeCounts DEF Takes
<1>2. Unpublished(u)' = IF u = m.url THEN Unpublished(u) \cup {w} ELSE Unpublished(u)
  BY DEF Takes, Goto, Unpublished, Url, StageTypeOK
<1>3. CASE u = m.url
  <2>1. Waiting(u) = {m} /\ queue[m] = 1 /\ Unpublished(u) = {}
    BY <1>3 DEF OneCopy, Waiting
  <2>2. Waiting(u)' = {}
    BY <1>1, <1>3, <2>1 DEF Waiting
  <2>. QED  BY <1>2, <1>3, <2>1, <2>2
<1>4. CASE u # m.url
  <2>1. Waiting(u)' = Waiting(u) /\ \A x \in Waiting(u) : queue'[x] = queue[x]
    BY <1>1, <1>4 DEF Waiting
  <2>. QED  BY <1>2, <1>4, <2>1 DEF OneCopy
<1>. QED  BY <1>3, <1>4

(* A stage that publishes once the message is taken, and gives its own up  *)
(* with that, leaves one copy; any other order of the two is a fault's.    *)
LEMMA OneCopyStays ==
  ASSUME StageTypeOK, StepsFit, MessagesFit, OneCopy, [StageNext]_stageVars
  PROVE  OneCopy'
<1>1. CASE UNCHANGED stageVars
  BY <1>1, QueueStays, EndsGrow DEF stageVars, worker, OneCopy, Waiting, Unpublished,
     Url
<1>2. ASSUME NEW w \in Consumers, Handles(w)
      PROVE  OneCopy'
  <2>1. CASE RawMissing(w)
    BY <1>2, <2>1, QueueStays, EndsGrow DEF RawMissing, LeaveGate, OneCopy, Waiting,
           Unpublished, Forget, Goto, Url, StageTypeOK
  <2>2. CASE RowMissing(w)
    BY <1>2, <2>2, QueueStays, EndsGrow DEF RowMissing, LeaveGate, OneCopy, Waiting,
           Unpublished, Forget, Goto, Url, StageTypeOK
  <2>3. CASE ReadFails(w)
    BY <1>2, <2>3, FaultCounts DEF ReadFails, OneCopy
  <2>4. CASE Refuse(w)
    BY <1>2, <2>4, QueueStays, EndsGrow DEF Refuse, LeaveGate, OneCopy, Waiting,
           Unpublished, Forget, Goto, Url, StageTypeOK
  <2>5. CASE Store(w)
    BY <1>2, <2>5, QueueStays, EndsGrow DEF Store, At, OneCopy, Waiting, Unpublished,
           Goto, Url
  <2>6. CASE Forward(w)
    BY <1>2, <2>6, PutAdds, SentIsMessage, SentFields, PutCounts, StageWorkersAssumption
       DEF Forward, still, ends, OneCopy, Waiting, Unpublished, Goto, Url, StageTypeOK,
           StepsFit
  <2>7. CASE Cleanup(w)
    BY <1>2, <2>7, QueueStays, EndsGrow, FaultCounts DEF Cleanup, DeleteRaw, still,
           worker, ends, OneCopy, Waiting, Unpublished, Goto, Url
  <2>8. CASE Judge(w)
    BY <1>2, <2>8, QueueStays, EndsGrow DEF Judge, At, OneCopy, Waiting, Unpublished,
           Goto, Url
  <2>9. CASE Publish(w)
    BY <1>2, <2>9, PutAdds, SentIsMessage, EndsGrow, SentFields, PutCounts,
       StageWorkersAssumption
       DEF Publish, Publishes, still, worker, ends, OneCopy, Waiting, Unpublished,
           Forget, Goto, Busy, Url, StageTypeOK, StepsFit
  <2>10. CASE Requeue(w)
    <3>1. /\ Requeued(w) \in Message /\ Requeued(w).url = Url(w)
          /\ w \in Unpublished(Url(w))
      BY <2>10, SentIsMessage, SentFields DEF Requeue, Publishes, Unpublished
    <3>. QED  BY <2>10, <3>1, PublishingKeepsOne DEF Requeue, Publishes, Goto
  <2>11. CASE Republish(w)
    <3>1. /\ ReparseJob(w) \in Message /\ ReparseJob(w).url = msg[w].row
          /\ w \in Unpublished(Url(w))
      BY <2>11, SentIsMessage, SentFields DEF Republish, Publishes, Unpublished
    <3>2. doubled \subseteq doubled' /\ (msg[w].row = Url(w) \/ msg[w].row \in doubled')
      BY <2>11 DEF Republish
    <3>. QED  BY <2>11, <3>1, <3>2, PublishingKeepsOne DEF Republish, Publishes, Goto
  <2>12. CASE DeleteReparsed(w)
    BY <1>2, <2>12, QueueStays, EndsGrow DEF DeleteReparsed, Deletes, OneCopy, Waiting,
           Unpublished, Goto, Url
  <2>13. CASE DeleteRejected(w)
    BY <1>2, <2>13, QueueStays, EndsGrow DEF DeleteRejected, Deletes, OneCopy, Waiting,
           Unpublished, Goto, Url
  <2>14. CASE ToDlq(w)
    BY <1>2, <2>14, QueueStays, EndsGrow DEF ToDlq, OneCopy, Waiting, Unpublished,
       Goto, Url
  <2>15. CASE Enrich(w)
    BY <1>2, <2>15, QueueStays, EndsGrow DEF Enrich, OneCopy, Waiting, Unpublished,
           Goto, Url
  <2>16. CASE Commit(w)
    BY <1>2, <2>16, QueueStays, EndsGrow DEF Commit, LeaveGate, OneCopy, Waiting,
           Unpublished, Forget, Goto, Url
  <2>17. CASE ProcessFails(w)
    BY <1>2, <2>17, FaultCounts DEF ProcessFails, OneCopy
  <2>18. CASE DlqFails(w)
    BY <1>2, <2>18, FaultCounts DEF DlqFails, OneCopy
  <2>19. CASE CommitFails(w)
    BY <1>2, <2>19, FaultCounts DEF CommitFails, OneCopy
  <2>20. CASE Crash(w)
    BY <1>2, <2>20, FaultCounts DEF Crash, OneCopy
  <2>21. ASSUME NEW m \in Topics, Enter(w, m)
        PROVE  OneCopy'
    BY <2>21, TakingKeepsOne DEF Enter
  <2>22. ASSUME NEW m \in Topics, EnterUngated(w, m)
        PROVE  OneCopy'
    BY <1>2, <2>22, FaultCounts DEF EnterUngated, OneCopy
  <2>23. ASSUME NEW m \in Topics, Skip(w, m)
        PROVE  OneCopy'
    <3>1. SkippedJob(m) \in Message /\ SkippedJob(m) # m /\ SkippedJob(m).url = m.url
      BY <2>23, PassedOnIsMessage, PassedOnFields DEF Skip, Skipped, Held
    <3>. QED  BY <2>23, <3>1, ReplacingKeepsOne DEF Skip, Skipped, worker, still
  <2>24. ASSUME NEW m \in Topics, SkipToDlq(w, m)
        PROVE  OneCopy'
    BY <1>2, <2>24, TakeRemoves, EndsGrow, TakeCounts DEF SkipToDlq, Skipped, worker,
           OneCopy, Waiting, Unpublished, Url
  <2>25. ASSUME NEW m \in Topics, SkipLost(w, m)
        PROVE  OneCopy'
    BY <1>2, <2>25, FaultCounts DEF SkipLost, OneCopy
  <2>. QED  BY <1>2, <2>1, <2>2, <2>3, <2>4, <2>5, <2>6, <2>7, <2>8, <2>9, <2>10, <2>11,
               <2>12, <2>13, <2>14, <2>15, <2>16, <2>17, <2>18, <2>19, <2>20, <2>21,
               <2>22, <2>23, <2>24, <2>25
               DEF Handles
<1>3. ASSUME NEW m \in Topics, Fetch(m)
      PROVE  OneCopy'
  <2>1. FetchedRef(m) \in Message /\ FetchedRef(m) # m /\ FetchedRef(m).url = m.url
    BY <1>3, PassedOnIsMessage, PassedOnFields DEF Fetch
  <2>. QED  BY <1>3, <2>1, ReplacingKeepsOne DEF Fetch, worker, still
<1>4. ASSUME NEW u \in Urls, Purge(u)
      PROVE  OneCopy'
  BY <1>4, FaultCounts DEF Purge, OneCopy
<1>5. ASSUME NEW k \in Stages \X Urls, Expire(k)
      PROVE  OneCopy'
  BY <1>5, QueueStays, EndsGrow DEF Expire, worker, OneCopy, Waiting, Unpublished, Url
<1>. QED  BY <1>1, <1>2, <1>3, <1>4, <1>5 DEF StageNext

(* A parser that gives the gate back may delete the row that it has read:  *)
(* no other parser has the row's URL in hand.                              *)
LEMMA ParserLeaves ==
  ASSUME StageTypeOK, StepsFit, MessagesFit, GateKept, NEW w \in Consumers,
         msg[w].stage = "fetched", pc[w] \in {"read", "cleanup"}, faults' = faults,
         raw' = raw \/ raw' = [raw EXCEPT ![Url(w)] = 0], Release(w),
         Forget(w) \/ (Goto(w, "commit") /\ msg' = msg)
  PROVE  GateKept'
<1>. SUFFICES ASSUME faults = 0  PROVE GateKept'
  BY DEF GateKept
<1>1. Url(w) \in Urls /\ w \in Busy /\ lock[<<"fetched", Url(w)>>] = w
  BY WorkersTyped DEF GateKept, Busy
<1>2. lock' = [lock EXCEPT ![<<"fetched", Url(w)>>] = Unheld]
  BY <1>1 DEF Release
<1>3. /\ \A v \in Consumers \ {w} : pc'[v] = pc[v] /\ msg'[v] = msg[v]
      /\ pc'[w] \in {"idle", "commit"} /\ Busy \ {w} \subseteq Busy'
      /\ Busy' \subseteq Busy
  BY <1>1 DEF Forget, Goto, StageTypeOK, Busy
<1>4. /\ lock'[<<"fetched", Url(w)>>] = Unheld
      /\ \A s \in Stages, u \in Urls :
           <<s, u>> # <<"fetched", Url(w)>> => lock'[<<s, u>>] = lock[<<s, u>>]
  BY <1>1, <1>2 DEF StageTypeOK, Stages
<1>5. ASSUME NEW s \in Stages, NEW u \in Urls, <<s, u>> # <<"fetched", Url(w)>>,
             lock[<<s, u>>] # Unheld
      PROVE  lock[<<s, u>>] \in Busy \ {w}
  BY <1>5 DEF GateKept
<1>6. ASSUME NEW s \in Stages, NEW u \in Urls
      PROVE  /\ lock'[<<s, u>>] # Orphan
             /\ lock'[<<s, u>>] # Unheld =>
                  /\ lock'[<<s, u>>] \in Busy'
                  /\ msg'[lock'[<<s, u>>]].stage = s /\ msg'[lock'[<<s, u>>]].url = u
                  /\ s = "fetched" => pc'[lock'[<<s, u>>]] \in {"read", "forward", "cleanup"}
  <2>1. CASE <<s, u>> = <<"fetched", Url(w)>>
    BY <1>4, <2>1, StageWorkersAssumption
  <2>2. CASE <<s, u>> # <<"fetched", Url(w)>>
    BY <1>3, <1>4, <1>5, <2>2 DEF GateKept, Url, Busy
  <2>. QED  BY <2>1, <2>2
<1>7. ASSUME NEW v \in Busy'
      PROVE  /\ msg'[v].stage = "fetched" /\ pc'[v] # "commit" =>
                  lock'[<<"fetched", msg'[v].url>>] = v
             /\ pc'[v] \in {"forward", "cleanup"} => raw'[msg'[v].url] = msg'[v].raw
  <2>1. CASE v = w
    BY <1>3, <2>1 DEF Busy
  <2>2. CASE v # w
    <3>1. v \in Busy /\ pc'[v] = pc[v] /\ msg'[v] = msg[v] /\ Url(v) \in Urls
      BY <1>3, <2>2, WorkersTyped DEF Busy
    <3>2. msg[v].stage = "fetched" /\ pc[v] # "commit" =>
            lock[<<"fetched", Url(v)>>] = v /\ Url(v) # Url(w)
      BY <1>1, <2>2, <3>1 DEF GateKept
    <3>3. pc[v] \in {"forward", "cleanup"} => msg[v].stage = "fetched" /\ raw[Url(v)] = msg[v].raw
      BY <3>1 DEF GateKept, StepsFit, Busy
    <3>4. Url(v) # Url(w) => raw'[Url(v)] = raw[Url(v)]
      BY <1>1, <3>1 DEF StageTypeOK
    <3>. QED  BY <1>4, <3>1, <3>2, <3>3, <3>4 DEF Url, Stages
  <2>. QED  BY <2>1, <2>2
<1>. QED  BY <1>6, <1>7 DEF GateKept, Url

(* A lock is taken with a message and given back by the worker that took   *)
(* it; only a fault leaves it behind or lets it expire.                    *)
LEMMA GateStaysKept ==
  ASSUME StageTypeOK, StepsFit, MessagesFit, GateKept, [StageNext]_stageVars
  PROVE  GateKept'
<1>1. CASE UNCHANGED stageVars
  BY <1>1 DEF stageVars, worker, GateKept, Busy, Url
<1>2. ASSUME NEW w \in Consumers, Handles(w)
      PROVE  GateKept'
  <2>1. CASE RawMissing(w)
    BY <1>2, <2>1, StageWorkersAssumption DEF RawMissing, LeaveGate, GateKept, Forget,
           Goto, Release, Busy, Url, StageTypeOK
  <2>2. CASE RowMissing(w)
    BY <1>2, <2>2, QueueStays, EndsGrow, StageWorkersAssumption
       DEF RowMissing, At, LeaveGate, still, worker, ends, GateKept, Forget, Goto,
           Release, Busy, Url, StageTypeOK
  <2>3. CASE ReadFails(w)
    BY <1>2, <2>3, FaultCounts DEF ReadFails, GateKept
  <2>4. CASE Refuse(w)
    <3>1. /\ msg[w].stage = "fetched" /\ pc[w] = "read" /\ faults' = faults
          /\ raw' = raw \/ raw' = [raw EXCEPT ![Url(w)] = 0]
          /\ Release(w) /\ Forget(w)
      BY <2>4 DEF Refuse, At, LeaveGate, DeleteRaw
    <3>. QED  BY <3>1, ParserLeaves
  <2>5. CASE Store(w)
    BY <1>2, <2>5 DEF Store, At, GateKept, Goto, Busy, Url, HasRaw
  <2>6. CASE Forward(w)
    BY <1>2, <2>6 DEF Forward, GateKept, Goto, Busy, Url
  <2>7. CASE Cleanup(w)
    <3>1. CASE faults' = faults
      <4>1. /\ msg[w].stage = "fetched" /\ pc[w] = "cleanup"
            /\ raw' = raw \/ raw' = [raw EXCEPT ![Url(w)] = 0]
            /\ Release(w) /\ Goto(w, "commit") /\ msg' = msg
        BY <2>7, <3>1 DEF Cleanup, DeleteRaw, StepsFit
      <4>. QED  BY <3>1, <4>1, ParserLeaves
    <3>2. CASE StageFault
      BY <3>2, FaultCounts DEF GateKept
    <3>. QED  BY <2>7, <3>1, <3>2 DEF Cleanup
  <2>8. CASE Judge(w)
    BY <1>2, <2>8 DEF Judge, At, GateKept, Goto, Busy, Url, Course
  <2>9. CASE Publish(w)
    BY <1>2, <2>9 DEF Publish, Publishes, GateKept, Goto, Busy, Url
  <2>10. CASE Requeue(w)
    BY <1>2, <2>10 DEF Requeue, Publishes, GateKept, Goto, Busy, Url
  <2>11. CASE Republish(w)
    BY <1>2, <2>11 DEF Republish, Publishes, GateKept, Goto, Busy, Url
  <2>12. CASE DeleteReparsed(w)
    BY <1>2, <2>12, FaultCounts DEF DeleteReparsed, Deletes, GateKept, Goto, Busy, Url
  <2>13. CASE DeleteRejected(w)
    BY <1>2, <2>13, FaultCounts DEF DeleteRejected, Deletes, GateKept, Goto, Busy, Url
  <2>14. CASE ToDlq(w)
    BY <1>2, <2>14 DEF ToDlq, GateKept, Goto, Busy, Url
  <2>15. CASE Enrich(w)
    BY <1>2, <2>15 DEF Enrich, At, GateKept, Goto, Busy, Url
  <2>16. CASE Commit(w)
    BY <1>2, <2>16, QueueStays, EndsGrow, StageWorkersAssumption
       DEF Commit, LeaveGate, still, worker, ends, GateKept, Forget, Goto, Release,
           Busy, Url, StageTypeOK
  <2>17. CASE ProcessFails(w)
    BY <1>2, <2>17, FaultCounts DEF ProcessFails, GateKept
  <2>18. CASE DlqFails(w)
    BY <1>2, <2>18, FaultCounts DEF DlqFails, GateKept
  <2>19. CASE CommitFails(w)
    BY <1>2, <2>19, FaultCounts DEF CommitFails, GateKept
  <2>20. CASE Crash(w)
    BY <1>2, <2>20, FaultCounts DEF Crash, GateKept
  <2>21. ASSUME NEW m \in Topics, Enter(w, m)
        PROVE  GateKept'
    <3>. SUFFICES ASSUME faults = 0  PROVE GateKept'
      BY <2>21 DEF Enter, GateKept
    <3>1. /\ pc[w] = "idle" /\ pc' = [pc EXCEPT ![w] = "read"] /\ msg' = [msg EXCEPT ![w] = m]
          /\ lock[<<m.stage, m.url>>] = Unheld
          /\ lock' = [lock EXCEPT ![<<m.stage, m.url>>] = w]
          /\ raw' = raw /\ m.stage \in Stages /\ m.url \in Urls
      BY <2>21, PassedOnIsMessage DEF Enter, Takes, Goto, Message
    <3>2. /\ pc'[w] = "read" /\ msg'[w] = m /\ Busy' = Busy \cup {w} /\ w \notin Busy
          /\ \A v \in Consumers \ {w} : pc'[v] = pc[v] /\ msg'[v] = msg[v]
          /\ lock'[<<m.stage, m.url>>] = w /\ w # Orphan /\ w # Unheld
          /\ \A s \in Stages, u \in Urls :
               <<s, u>> # <<m.stage, m.url>> => lock'[<<s, u>>] = lock[<<s, u>>]
      BY <3>1, StageWorkersAssumption DEF StageTypeOK, Busy
    <3>3. ASSUME NEW s \in Stages, NEW u \in Urls
          PROVE  /\ lock'[<<s, u>>] # Orphan
                 /\ lock'[<<s, u>>] # Unheld =>
                      /\ lock'[<<s, u>>] \in Busy'
                      /\ msg'[lock'[<<s, u>>]].stage = s /\ msg'[lock'[<<s, u>>]].url = u
                      /\ s = "fetched" =>
                           pc'[lock'[<<s, u>>]] \in {"read", "forward", "cleanup"}
      <4>1. CASE s = m.stage /\ u = m.url
        BY <3>2, <4>1
      <4>2. CASE ~(s = m.stage /\ u = m.url)
        BY <3>2, <4>2 DEF GateKept, Url, Busy
      <4>. QED  BY <4>1, <4>2
    <3>4. ASSUME NEW v \in Busy'
          PROVE  /\ msg'[v].stage = "fetched" /\ pc'[v] # "commit" =>
                      lock'[<<"fetched", msg'[v].url>>] = v
                 /\ pc'[v] \in {"forward", "cleanup"} => raw'[msg'[v].url] = msg'[v].raw
      <4>1. CASE v = w
        BY <3>2, <4>1
      <4>2. CASE v # w
        <5>1. v \in Busy /\ pc'[v] = pc[v] /\ msg'[v] = msg[v] /\ Url(v) \in Urls
          BY <3>2, <4>2, WorkersTyped DEF Busy
        <5>2. msg[v].stage = "fetched" /\ pc[v] # "commit" => lock[<<"fetched", Url(v)>>] = v
          BY <5>1 DEF GateKept
        <5>3. lock[<<"fetched", Url(v)>>] = v => lock'[<<"fetched", Url(v)>>] = v
          BY <3>1, <3>2, <5>1, StageWorkersAssumption DEF Busy
        <5>. QED  BY <3>1, <5>1, <5>2, <5>3 DEF GateKept, Url
      <4>. QED  BY <4>1, <4>2
    <3>. QED  BY <3>3, <3>4 DEF GateKept, Url
  <2>22. ASSUME NEW m \in Topics, EnterUngated(w, m)
        PROVE  GateKept'
    BY <1>2, <2>22, FaultCounts DEF EnterUngated, GateKept
  <2>23. ASSUME NEW m \in Topics, Skip(w, m)
        PROVE  GateKept'
    BY <1>2, <2>23 DEF Skip, Skipped, worker, GateKept, Busy, Url
  <2>24. ASSUME NEW m \in Topics, SkipToDlq(w, m)
        PROVE  GateKept'
    BY <1>2, <2>24, FaultCounts DEF SkipToDlq, Skipped, worker, GateKept, Busy, Url
  <2>25. ASSUME NEW m \in Topics, SkipLost(w, m)
        PROVE  GateKept'
    BY <1>2, <2>25, FaultCounts DEF SkipLost, GateKept
  <2>. QED  BY <1>2, <2>1, <2>2, <2>3, <2>4, <2>5, <2>6, <2>7, <2>8, <2>9, <2>10, <2>11,
               <2>12, <2>13, <2>14, <2>15, <2>16, <2>17, <2>18, <2>19, <2>20, <2>21,
               <2>22, <2>23, <2>24, <2>25
               DEF Handles
<1>3. ASSUME NEW m \in Topics, Fetch(m)
      PROVE  GateKept'
  BY <1>3 DEF Fetch, worker, GateKept, Busy, Url, StepsFit, RawToStore, MessagesFit,
         MessageFits
<1>4. ASSUME NEW u \in Urls, Purge(u)
      PROVE  GateKept'
  BY <1>4, FaultCounts DEF Purge, GateKept
<1>5. ASSUME NEW k \in Stages \X Urls, Expire(k)
      PROVE  GateKept'
  BY <1>5, FaultCounts DEF Expire, GateKept
<1>. QED  BY <1>1, <1>2, <1>3, <1>4, <1>5 DEF StageNext

(* The parser deletes its raw row only when it has read the row's latest   *)
(* version; a fetch that stores a newer one publishes a reference to it.   *)
LEMMA RowKeepsReader ==
  ASSUME StageTypeOK, StepsFit, MessagesFit, OneCopy, GateKept, RowHasReader, [StageNext]_stageVars
  PROVE  RowHasReader'
<1>1. CASE UNCHANGED stageVars
  BY <1>1, QueueStays, EndsGrow DEF stageVars, worker, RowHasReader, Parsing,
     Waiting, Url
<1>2. ASSUME NEW w \in Consumers, Handles(w)
      PROVE  RowHasReader'
  <2>1. CASE RawMissing(w)
    BY <1>2, <2>1, QueueStays, EndsGrow DEF RawMissing, LeaveGate, RowHasReader,
           Parsing, Waiting, Forget, Goto, Url, HasRaw
  <2>2. CASE RowMissing(w)
    BY <1>2, <2>2, QueueStays, EndsGrow DEF RowMissing, At, LeaveGate, RowHasReader,
           Parsing, Waiting, Forget, Goto, Url
  <2>3. CASE ReadFails(w)
    BY <1>2, <2>3, FaultCounts DEF ReadFails, RowHasReader
  <2>4. CASE Refuse(w)
    BY <1>2, <2>4, QueueStays, EndsGrow, StageWorkersAssumption
       DEF Refuse, LeaveGate, DeleteRaw, RowHasReader, Parsing, Waiting, Forget, Goto,
           Url, StageTypeOK
  <2>5. CASE Store(w)
    BY <1>2, <2>5, QueueStays, EndsGrow DEF Store, RowHasReader, Parsing, Waiting,
       Goto, Url
  <2>6. CASE Forward(w)
    BY <1>2, <2>6, PutAdds, SentIsMessage, EndsGrow DEF Forward, RowHasReader, Parsing,
           Waiting, Goto, Url
  <2>7. CASE Cleanup(w)
    <3>. SUFFICES ASSUME faults' = 0  PROVE RowHasReader'
      BY DEF RowHasReader
    <3>1. /\ faults = 0 /\ msg' = msg /\ queue' = queue /\ abandoned' = abandoned
          /\ doubled' = doubled /\ pc' = [pc EXCEPT ![w] = "commit"]
          /\ \/ HasRaw(w) /\ raw' = [raw EXCEPT ![Url(w)] = 0]
             \/ ~HasRaw(w) /\ raw' = raw
      BY <2>7, FaultCounts DEF Cleanup, DeleteRaw, Goto, ends, still
    <3>2. Topics' = Topics /\ \A v \in Consumers \ {w} : pc'[v] = pc[v]
      BY <3>1, QueueStays
    <3>3. ASSUME NEW u \in Urls \ doubled, raw'[u] # 0, u \notin abandoned
          PROVE  \/ \E m \in Waiting(u)' :
                      m.stage = "crawl" \/ (m.stage = "fetched" /\ m.raw = raw'[u])
                 \/ \E v \in Consumers : Parsing(v)' /\ Url(v)' = u /\ msg'[v].raw = raw'[u]
      <4>1. raw'[u] = raw[u] /\ (u = Url(w) => ~HasRaw(w))
        BY <3>1, <3>3 DEF StageTypeOK
      <4>2. \A v \in Consumers : Parsing(v) /\ Url(v) = u /\ msg[v].raw = raw[u] => v # w
        BY <4>1 DEF HasRaw
      <4>. QED  BY <3>1, <3>2, <3>3, <4>1, <4>2 DEF RowHasReader, Waiting, Parsing, Url
    <3>. QED  BY <3>1, <3>3 DEF RowHasReader
  <2>8. CASE Judge(w)
    BY <1>2, <2>8, QueueStays, EndsGrow DEF Judge, At, RowHasReader, Parsing, Waiting,
           Goto, Url
  <2>9. CASE Publish(w)
    BY <1>2, <2>9, PutAdds, SentIsMessage, EndsGrow DEF Publish, Publishes,
           RowHasReader, Parsing, Waiting, Goto, Url, StepsFit
  <2>10. CASE Requeue(w)
    BY <1>2, <2>10, PutAdds, SentIsMessage, EndsGrow DEF Requeue, Publishes,
           RowHasReader, Parsing, Waiting, Goto, Url
  <2>11. CASE Republish(w)
    BY <1>2, <2>11, PutAdds, SentIsMessage, EndsGrow DEF Republish, Publishes,
           RowHasReader, Parsing, Waiting, Goto, Url
  <2>12. CASE DeleteReparsed(w)
    BY <1>2, <2>12, QueueStays, EndsGrow DEF DeleteReparsed, Deletes, RowHasReader,
           Parsing, Waiting, Goto, Url
  <2>13. CASE DeleteRejected(w)
    BY <1>2, <2>13, QueueStays, EndsGrow DEF DeleteRejected, Deletes, RowHasReader,
           Parsing, Waiting, Goto, Url
  <2>14. CASE ToDlq(w)
    BY <1>2, <2>14, QueueStays, EndsGrow DEF ToDlq, RowHasReader, Parsing, Waiting,
           Goto, Url
  <2>15. CASE Enrich(w)
    BY <1>2, <2>15, QueueStays, EndsGrow DEF Enrich, At, RowHasReader, Parsing, Waiting,
           Goto, Url
  <2>16. CASE Commit(w)
    BY <1>2, <2>16, QueueStays, EndsGrow DEF Commit, LeaveGate, RowHasReader, Parsing,
           Waiting, Forget, Goto, Url
  <2>17. CASE ProcessFails(w)
    BY <1>2, <2>17, FaultCounts DEF ProcessFails, RowHasReader
  <2>18. CASE DlqFails(w)
    BY <1>2, <2>18, FaultCounts DEF DlqFails, RowHasReader
  <2>19. CASE CommitFails(w)
    BY <1>2, <2>19, FaultCounts DEF CommitFails, RowHasReader
  <2>20. CASE Crash(w)
    BY <1>2, <2>20, FaultCounts DEF Crash, RowHasReader
  <2>21. ASSUME NEW m \in Topics, Enter(w, m)
        PROVE  RowHasReader'
    BY <1>2, <2>21, TakeRemoves, EndsGrow DEF Enter, Takes, RowHasReader, Parsing,
           Waiting, Goto, Url, StageTypeOK
  <2>22. ASSUME NEW m \in Topics, EnterUngated(w, m)
        PROVE  RowHasReader'
    BY <1>2, <2>22, FaultCounts DEF EnterUngated, RowHasReader
  <2>23. ASSUME NEW m \in Topics, Skip(w, m)
        PROVE  RowHasReader'
    BY <1>2, <2>23, SwapReplaces, PassedOnIsMessage, EndsGrow, PassedOnFields
       DEF Skip, Skipped, worker, RowHasReader, Parsing, Waiting, Url
  <2>24. ASSUME NEW m \in Topics, SkipToDlq(w, m)
        PROVE  RowHasReader'
    <3>. SUFFICES ASSUME faults' = 0  PROVE RowHasReader'
      BY DEF RowHasReader
    <3>1. /\ faults = 0 /\ msg' = msg /\ pc' = pc /\ raw' = raw /\ abandoned' = abandoned
          /\ doubled' = doubled /\ Topics \ {m} \subseteq Topics' /\ Held(m)
      BY <2>24, EndsGrow, TakeRemoves DEF SkipToDlq, Skipped, still, worker
    <3>2. ASSUME NEW u \in Urls \ doubled, m.url = u, m.stage = "fetched", m.raw = raw[u]
          PROVE  \E v \in Consumers : Parsing(v) /\ Url(v) = u /\ msg[v].raw = raw[u]
      <4> DEFINE v == lock[<<"fetched", u>>]
      <4>1. v # Unheld /\ "fetched" \in Stages
        BY <3>1, <3>2 DEF Held, Stages
      <4>2. v \in Busy /\ Parsing(v) /\ Url(v) = u
        BY <3>1, <4>1 DEF GateKept, Parsing
      <4>3. v \notin Unpublished(u)
        BY <3>1, <3>2 DEF OneCopy, Waiting
      <4>4. pc[v] = "cleanup"
        BY <4>2, <4>3 DEF Unpublished, Parsing, Busy
      <4>5. msg[v].raw = raw[u]
        BY <3>1, <4>2, <4>4 DEF GateKept
      <4>. QED  BY <4>2, <4>5 DEF Busy
    <3>3. m.url \in Urls /\ m.stage # "crawl"
      BY <3>1, PassedOnIsMessage DEF Held
    <3>. QED  BY <3>1, <3>2, <3>3 DEF RowHasReader, Waiting, Parsing, Url
  <2>25. ASSUME NEW m \in Topics, SkipLost(w, m)
        PROVE  RowHasReader'
    BY <1>2, <2>25, FaultCounts DEF SkipLost, RowHasReader
  <2>. QED  BY <1>2, <2>1, <2>2, <2>3, <2>4, <2>5, <2>6, <2>7, <2>8, <2>9, <2>10, <2>11,
               <2>12, <2>13, <2>14, <2>15, <2>16, <2>17, <2>18, <2>19, <2>20, <2>21,
               <2>22, <2>23, <2>24, <2>25
               DEF Handles
<1>3. ASSUME NEW m \in Topics, Fetch(m)
      PROVE  RowHasReader'
  <2>. SUFFICES ASSUME faults' = 0  PROVE RowHasReader'
    BY DEF RowHasReader
  <2>1. /\ faults = 0 /\ msg' = msg /\ pc' = pc /\ abandoned' = abandoned /\ doubled' = doubled
        /\ raw' = [raw EXCEPT ![m.url] = RawToStore(m.url)]
        /\ FetchedRef(m) \in Topics' /\ Topics \ {m} \subseteq Topics' /\ m.url \in Urls
    BY <1>3, SwapReplaces, PassedOnIsMessage DEF Fetch, worker, still, ends
  <2>2. /\ FetchedRef(m).stage = "fetched" /\ FetchedRef(m).url = m.url
        /\ FetchedRef(m).raw = raw'[m.url]
    BY <2>1, PassedOnFields DEF StageTypeOK
  <2>3. \A u \in Urls \ {m.url} : raw'[u] = raw[u]
    BY <2>1
  <2>. QED  BY <2>1, <2>2, <2>3 DEF RowHasReader, Waiting, Parsing, Url
<1>4. ASSUME NEW u \in Urls, Purge(u)
      PROVE  RowHasReader'
  BY <1>4, FaultCounts DEF Purge, RowHasReader
<1>5. ASSUME NEW k \in Stages \X Urls, Expire(k)
      PROVE  RowHasReader'
  BY <1>5, QueueStays, EndsGrow DEF Expire, worker, RowHasReader, Parsing, Waiting, Url
<1>. QED  BY <1>1, <1>2, <1>3, <1>4, <1>5 DEF StageNext

(* The counts of reparses that the messages of a URL have, a worker's own  *)
(* among them while it may still pass it on.  The URL's reparses since one *)
(* of its messages has lost the count are in each of them.                 *)
Counts(u) ==
  {m.reparse : m \in {n \in Waiting(u) : n.stage # "validated"}}
    \cup {msg[w].reparse : w \in {v \in Unpublished(u) : msg[v].stage # "validated"}}

CountCarried ==
  faults = 0 =>
    \A u \in Urls \ doubled : streak[u] <= MaxReparse /\ \A n \in Counts(u) : n >= streak[u]

LEMMA CountStays ==
  ASSUME StageTypeOK, StageTypeOK', CountCarried, doubled \subseteq doubled',
         faults' = 0 => faults = 0,
         \A u \in Urls \ doubled' :
           streak'[u] = 0 \/ (streak'[u] = streak[u] /\ Counts(u)' \subseteq Counts(u))
  PROVE  CountCarried'
<1>. SUFFICES ASSUME faults' = 0, NEW u \in Urls \ doubled'
     PROVE  streak'[u] <= MaxReparse /\ \A n \in Counts(u)' : n >= streak'[u]
  BY DEF CountCarried
<1>1. faults = 0 /\ u \in Urls \ doubled
  OBVIOUS
<1>2. CASE streak'[u] = 0
  <2>1. \A n \in Counts(u)' : n \in Nat
    <3>1. \A m \in Message : m.reparse \in Nat
      BY StageWorkersAssumption DEF Message
    <3>2. Topics' \subseteq Message /\ \A w \in Consumers : msg'[w] \in Message
      BY DEF StageTypeOK
    <3>. QED  BY <3>1, <3>2 DEF Counts, Waiting, Unpublished
  <2>. QED  BY <1>2, <2>1, StageWorkersAssumption
<1>3. CASE streak'[u] = streak[u] /\ Counts(u)' \subseteq Counts(u)
  BY <1>1, <1>3 DEF CountCarried
<1>. QED  BY <1>2, <1>3

(* A message or a worker that goes on keeps its count.                     *)
LEMMA CountsFollow ==
  ASSUME NEW u \in Urls, NEW S,
         \A m \in Topics' : m.url = u /\ m.stage # "validated" =>
           m \in Topics \/ m.reparse \in S,
         \A w \in Unpublished(u)' : msg'[w].stage # "validated" =>
           (w \in Unpublished(u) /\ msg'[w] = msg[w]) \/ msg'[w].reparse \in S
  PROVE  Counts(u)' \subseteq Counts(u) \cup S
BY DEF Counts, Waiting

(* Only a reparse adds to a URL's count; what publishes keeps it, loses it *)
(* or is past the validator.                                               *)
LEMMA CountStaysCarried ==
  ASSUME StageTypeOK, StageTypeOK', StepsFit, OneCopy, CountCarried, [StageNext]_stageVars
  PROVE  CountCarried'
<1>1. doubled \subseteq doubled' /\ (faults' = 0 => faults = 0)
  BY EndsGrow
<1>. SUFFICES ASSUME faults' = 0, faults = 0  PROVE CountCarried'
  BY <1>1 DEF CountCarried
<1>2. ASSUME streak' = streak, Topics' \subseteq Topics,
             \A u \in Urls : \A v \in Unpublished(u)' : v \in Unpublished(u) /\ msg'[v] = msg[v]
      PROVE  CountCarried'
  BY <1>1, <1>2, CountStays DEF Counts, Waiting
<1>3. CASE UNCHANGED stageVars
  BY <1>2, <1>3, QueueStays DEF stageVars, still, worker, Unpublished, Url
<1>4. ASSUME NEW w \in Consumers, Handles(w)
      PROVE  CountCarried'
  <2>1. CASE RawMissing(w) \/ RowMissing(w) \/ Refuse(w) \/ Commit(w)
    <3>1. streak' = streak /\ queue' = queue /\ Forget(w)
      BY <2>1 DEF RawMissing, RowMissing, Refuse, Commit, LeaveGate, still
    <3>2. \A v \in Consumers : pc'[v] # "idle" => pc'[v] = pc[v] /\ msg'[v] = msg[v]
      BY <3>1 DEF Forget, Goto, StageTypeOK
    <3>. QED  BY <1>2, <3>1, <3>2, QueueStays DEF Unpublished, Url
  <2>2. CASE \/ Store(w) \/ Cleanup(w) \/ Judge(w) \/ DeleteReparsed(w) \/ DeleteRejected(w)
             \/ ToDlq(w) \/ Enrich(w)
    <3>1. streak' = streak /\ queue' = queue /\ msg' = msg
      BY <2>2 DEF Store, Cleanup, Judge, DeleteReparsed, DeleteRejected, Deletes, ToDlq,
             Enrich, still
    <3>2. /\ \A v \in Consumers \ {w} : pc'[v] = pc[v]
          /\ \/ pc[w] \in {"read", "reject", "dlq"}
             \/ pc'[w] = "commit"
      BY <2>2 DEF Store, Cleanup, Judge, DeleteReparsed, DeleteRejected, Deletes, ToDlq,
             Enrich, Goto, At, StageTypeOK
    <3>. QED  BY <1>2, <3>1, <3>2, QueueStays DEF Unpublished, Url
  <2>3. CASE Forward(w) \/ Publish(w)
    <3>1. PICK m \in Message :
            /\ Put(m) /\ m.url = Url(w)
            /\ m.stage = "validated" \/ (m.stage # "validated" /\ m.reparse = msg[w].reparse)
      BY <2>3, SentIsMessage, SentFields DEF Forward, Publish, Publishes
    <3>2. /\ streak' = streak /\ msg' = msg /\ w \in Unpublished(Url(w))
          /\ msg[w].stage # "validated"
          /\ \A v \in Consumers \ {w} : pc'[v] = pc[v]
          /\ pc'[w] \in {"cleanup", "commit"}
      BY <2>3 DEF Forward, Publish, Publishes, Goto, still, StepsFit, Unpublished, StageTypeOK
    <3>3. Topics' = Topics \cup {m}
      BY <3>1, PutAdds
    <3>4. ASSUME NEW u \in Urls  PROVE Counts(u)' \subseteq Counts(u)
      <4>1. \A v \in Unpublished(u)' : v \in Unpublished(u) /\ msg'[v] = msg[v]
        BY <3>2 DEF Unpublished, Url
      <4>2. u = Url(w) => msg[w].reparse \in Counts(u)
        BY <3>2 DEF Counts
      <4>. QED  BY <3>1, <3>3, <4>1, <4>2, CountsFollow
    <3>. QED  BY <1>1, <3>2, <3>4, CountStays
  <2>4. CASE Requeue(w)
    <3>1. /\ Put(Requeued(w)) /\ Requeued(w) \in Message /\ Requeued(w).url = Url(w)
          /\ streak' = [streak EXCEPT ![Url(w)] = 0] /\ msg' = msg
          /\ \A v \in Consumers \ {w} : pc'[v] = pc[v]
          /\ pc'[w] = "commit"
      BY <2>4, SentIsMessage, SentFields DEF Requeue, Publishes, Goto, Loses, StageTypeOK
    <3>2. Topics' = Topics \cup {Requeued(w)} /\ Url(w) \in Urls
      BY <3>1, PutAdds, WorkersTyped
    <3>3. ASSUME NEW u \in Urls, u # Url(w)  PROVE Counts(u)' \subseteq Counts(u)
      <4>1. \A v \in Unpublished(u)' : v \in Unpublished(u) /\ msg'[v] = msg[v]
        BY <3>1 DEF Unpublished, Url
      <4>. QED  BY <3>1, <3>2, <3>3, <4>1, CountsFollow
    <3>4. \A u \in Urls : streak'[u] = IF u = Url(w) THEN 0 ELSE streak[u]
      BY <3>1, <3>2 DEF StageTypeOK
    <3>. QED  BY <1>1, <3>3, <3>4, CountStays
  <2>5. CASE Republish(w)
    <3> DEFINE j == ReparseJob(w)
               r == msg[w].row
    <3>1. /\ Put(j) /\ j \in Message /\ j.url = r /\ j.reparse = msg[w].reparse + 1
          /\ msg' = msg /\ r \in Urls /\ w \in Unpublished(Url(w))
          /\ msg[w].stage = "normalized" /\ msg[w].reparse < MaxReparse
          /\ \A v \in Consumers \ {w} : pc'[v] = pc[v]
          /\ pc'[w] = "delete"
      BY <2>5, SentIsMessage, SentFields, WorkersTyped
         DEF Republish, Publishes, Goto, StepsFit, Unpublished, StageTypeOK
    <3>2. /\ r # Url(w) => r \in doubled'
          /\ \A u \in Urls \ {r} : streak'[u] = streak[u]
          /\ streak'[r] = IF streak[r] > MaxReparse THEN streak[r] ELSE streak[r] + 1
      BY <2>5, <3>1 DEF Republish, StageTypeOK
    <3>3. Topics' = Topics \cup {j}
      BY <3>1, PutAdds
    <3>4. ASSUME NEW u \in Urls  PROVE Unpublished(u)' = Unpublished(u) \ {w}
      BY <3>1 DEF Unpublished, Url
    <3>5. ASSUME NEW u \in Urls \ doubled', u # r
          PROVE  streak'[u] <= MaxReparse /\ \A n \in Counts(u)' : n >= streak'[u]
      <4>1. Counts(u)' \subseteq Counts(u)
        BY <3>1, <3>3, <3>4, <3>5, CountsFollow
      <4>. QED  BY <1>1, <3>2, <3>5, <4>1 DEF CountCarried
    <3>6. ASSUME NEW u \in Urls \ doubled', u = r
          PROVE  streak'[u] <= MaxReparse /\ \A n \in Counts(u)' : n >= streak'[u]
      <4>1. u = Url(w) /\ u \in Urls \ doubled
        BY <1>1, <3>2, <3>6
      <4>2. Waiting(u) = {} /\ Unpublished(u) = {w}
        BY <3>1, <4>1 DEF OneCopy
      <4>3. Waiting(u)' \subseteq {j} /\ Unpublished(u)' = {}
        BY <3>1, <3>3, <3>4, <4>1, <4>2 DEF Waiting
      <4>4. \A n \in Counts(u)' : n = msg[w].reparse + 1
        BY <3>1, <4>3 DEF Counts
      <4>5. streak[r] <= msg[w].reparse
        <5>1. msg[w].reparse \in Counts(u)
          BY <3>1, <4>1 DEF Counts
        <5>. QED  BY <3>6, <4>1, <5>1 DEF CountCarried
      <4>6. streak[r] \in Nat /\ msg[w].reparse \in Nat /\ MaxReparse \in Nat
        BY <3>1, WorkersTyped, StageWorkersAssumption DEF StageTypeOK, Message
      <4>. QED  BY <3>1, <3>2, <3>6, <4>4, <4>5, <4>6
    <3>. QED  BY <3>5, <3>6 DEF CountCarried
  <2>6. CASE ReadFails(w) \/ ProcessFails(w) \/ DlqFails(w) \/ CommitFails(w) \/ Crash(w)
    BY <2>6, FaultCounts DEF ReadFails, ProcessFails, DlqFails, CommitFails, Crash
  <2>7. ASSUME NEW m \in Topics, Enter(w, m) \/ EnterUngated(w, m)  PROVE CountCarried'
    <3>1. Takes(w, m) /\ streak' = streak /\ Topics' \subseteq Topics
      BY <2>7, TakeRemoves DEF Enter, EnterUngated, Takes, still
    <3>2. /\ \A v \in Consumers \ {w} : pc'[v] = pc[v] /\ msg'[v] = msg[v]
          /\ msg'[w] = m
      BY <3>1 DEF Takes, Goto, StageTypeOK
    <3>3. ASSUME NEW u \in Urls  PROVE Counts(u)' \subseteq Counts(u)
      <4>1. m.url = u /\ m.stage # "validated" => m.reparse \in Counts(u)
        BY DEF Counts, Waiting
      <4>2. \A v \in Unpublished(u)' : msg'[v].stage # "validated" =>
               (v \in Unpublished(u) /\ msg'[v] = msg[v]) \/ msg'[v].reparse \in Counts(u)
        BY <3>2, <4>1 DEF Unpublished, Url
      <4>. QED  BY <3>1, <4>2, CountsFollow
    <3>. QED  BY <1>1, <3>1, <3>3, CountStays
  <2>8. ASSUME NEW m \in Topics, Skip(w, m)  PROVE CountCarried'
    <3>1. /\ Topics' \subseteq Topics \cup {SkippedJob(m)} /\ SkippedJob(m).url = m.url
          /\ streak' = [streak EXCEPT ![m.url] = 0] /\ pc' = pc /\ msg' = msg
      BY <2>8, SwapReplaces, PassedOnIsMessage, PassedOnFields
         DEF Skip, Skipped, Loses, worker
    <3>2. ASSUME NEW u \in Urls, u # m.url  PROVE Counts(u)' \subseteq Counts(u)
      <4>1. \A v \in Unpublished(u)' : v \in Unpublished(u) /\ msg'[v] = msg[v]
        BY <3>1 DEF Unpublished, Url
      <4>. QED  BY <3>1, <3>2, <4>1, CountsFollow
    <3>3. \A u \in Urls : streak'[u] = IF u = m.url THEN 0 ELSE streak[u]
      BY <3>1 DEF StageTypeOK
    <3>. QED  BY <1>1, <3>2, <3>3, CountStays
  <2>9. ASSUME NEW m \in Topics, SkipToDlq(w, m)  PROVE CountCarried'
    BY <1>2, <2>9, TakeRemoves DEF SkipToDlq, Skipped, worker, Unpublished, Url
  <2>10. ASSUME NEW m \in Topics, SkipLost(w, m)  PROVE CountCarried'
    BY <2>10, FaultCounts DEF SkipLost
  <2>. QED  BY <1>4, <2>1, <2>2, <2>3, <2>4, <2>5, <2>6, <2>7, <2>8, <2>9, <2>10 DEF Handles
<1>5. ASSUME NEW m \in Topics, Fetch(m)  PROVE CountCarried'
  <2>1. /\ Topics' \subseteq Topics \cup {FetchedRef(m)} /\ pc' = pc /\ msg' = msg
        /\ FetchedRef(m).url = m.url /\ m.url \in Urls /\ m.stage # "validated"
        /\ m.url \notin BrowserUrls => FetchedRef(m).reparse = m.reparse
    BY <1>5, SwapReplaces, PassedOnIsMessage, PassedOnFields DEF Fetch, worker
  <2>2. ASSUME NEW u \in Urls, u # m.url \/ m.url \notin BrowserUrls
        PROVE  Counts(u)' \subseteq Counts(u)
    <3>1. \A v \in Unpublished(u)' : v \in Unpublished(u) /\ msg'[v] = msg[v]
      BY <2>1 DEF Unpublished, Url
    <3>2. u = m.url => m.reparse \in Counts(u)
      BY <2>1 DEF Counts, Waiting
    <3>. QED  BY <2>1, <2>2, <3>1, <3>2, CountsFollow
  <2>3. \A u \in Urls : IF u = m.url /\ m.url \in BrowserUrls THEN streak'[u] = 0
                        ELSE streak'[u] = streak[u]
    BY <1>5, <2>1 DEF Fetch, Loses, StageTypeOK
  <2>. QED  BY <1>1, <2>2, <2>3, CountStays
<1>6. ASSUME NEW u \in Urls, Purge(u)  PROVE CountCarried'
  BY <1>6, FaultCounts DEF Purge
<1>7. ASSUME NEW k \in Stages \X Urls, Expire(k)  PROVE CountCarried'
  BY <1>2, <1>7, QueueStays DEF Expire, still, worker, Unpublished, Url
<1>. QED  BY <1>3, <1>4, <1>5, <1>6, <1>7 DEF StageNext

---------------------------------------------------------------------------
(* The stages' invariant                                                   *)

StageIInv ==
  /\ StageTypeOK /\ StepsFit /\ MessagesFit
  /\ RowStored /\ AllCarried
  /\ OneCopy /\ GateKept /\ RowHasReader /\ CountCarried

LEMMA StageInvInit == StageInit => StageIInv
<1>. SUFFICES ASSUME StageInit  PROVE StageIInv
  OBVIOUS
<1>1. /\ queue = SetToBag({Job(u) : u \in Seeds}) /\ Seeds \subseteq Urls
      /\ \A S : IsABag(SetToBag(S)) /\ BagToSet(SetToBag(S)) = S
           /\ \A e \in S : SetToBag(S)[e] = 1
  BY StageWorkersAssumption DEF StageInit, SetToBag, IsABag, BagToSet
<1>2. /\ Topics = {Job(u) : u \in Seeds} /\ IsABag(queue) /\ \A m \in Topics : queue[m] = 1
  BY <1>1 DEF Topics
<1>3. \A u \in Urls : /\ Job(u) \in Message /\ Job(u).stage = "crawl" /\ Job(u).url = u
  BY JobTypes DEF Job
<1>4. StageTypeOK
  BY <1>1, <1>2, <1>3, JobTypes, StageWorkersAssumption DEF StageInit, StageTypeOK, PCs
<1>5. \A w \in Consumers : pc[w] = "idle" /\ w \notin Busy
  BY DEF StageInit, Busy
<1>6. StepsFit /\ RowStored
  BY <1>5 DEF StepsFit, RowStored
<1>7. MessagesFit
  BY <1>1, <1>2, <1>3, <1>5 DEF MessagesFit, MessageFits, Busy
<1>8. AllCarried
  BY <1>1, <1>2, <1>3 DEF AllCarried, Carried, LeadsOn
<1>9. OneCopy
  BY <1>1, <1>2, <1>3, <1>5 DEF OneCopy, Waiting, Unpublished
<1>10. GateKept
  BY <1>5, StageWorkersAssumption DEF GateKept, StageInit, Busy
<1>11. RowHasReader
  BY DEF RowHasReader, StageInit
<1>12. CountCarried
  <2>1. \A u \in Urls : \A n \in Counts(u) : n = 0
    BY <1>2, <1>5 DEF Counts, Waiting, Unpublished, Job
  <2>. QED  BY <2>1, StageWorkersAssumption DEF CountCarried, StageInit
<1>. QED  BY <1>4, <1>6, <1>7, <1>8, <1>9, <1>10, <1>11, <1>12 DEF StageIInv

LEMMA StageInvNext == StageIInv /\ [StageNext]_stageVars => StageIInv'
BY TypesStay, StepsStayFit, MessagesStayFit, RowsStayStored, NothingIsDropped,
   OneCopyStays, GateStaysKept, RowKeepsReader, CountStaysCarried
   DEF StageIInv

LEMMA StageInvariant == StageSpec => []StageIInv
BY StageInvInit, StageInvNext, PTL DEF StageSpec

(* The types of the stages' messages, rows, gates and workers.             *)
THEOREM StageTypes == StageSpec => []StageTypeOK
<1>1. StageIInv => StageTypeOK
  BY DEF StageIInv
<1>. QED  BY <1>1, StageInvariant, PTL

(* Every article is in a message, with a worker or at an end, or has been  *)
(* given up in a way that excused names: each stage publishes before it    *)
(* deletes and deletes before it commits.                                  *)
THEOREM NoArticleDisappears == StageSpec => []ArticleAccounted
<1>1. StageIInv => ArticleAccounted
  BY DEF StageIInv, AllCarried, Carried, ArticleAccounted, Live, InHand, Busy
<1>. QED  BY <1>1, StageInvariant, PTL

(* Without a failure the limit on reparses holds from the validator round  *)
(* to itself, while no step comes between that does not pass the count on. *)
THEOREM ReparsesKeepToLimit == StageSpec => []ReparseLimitKept
<1>1. StageIInv => ReparseLimitKept
  BY DEF StageIInv, CountCarried, ReparseLimitKept
<1>. QED  BY <1>1, StageInvariant, PTL

(* Without a failure an article has one message or one worker, unless a    *)
(* duplicate's reparse has sent it out.                                    *)
THEOREM StagesReplaceMessages == StageSpec => []SingleCopy
<1>1. StageIInv => SingleCopy
  <2>. SUFFICES ASSUME StageIInv, faults = 0, NEW u \in Urls \ doubled
       PROVE  /\ Cardinality(Waiting(u)) + Cardinality(Unpublished(u)) <= 1
              /\ \A m \in Waiting(u) : queue[m] = 1
    BY DEF SingleCopy
  <2>1. /\ \A m \in Waiting(u) : queue[m] = 1 /\ \A n \in Waiting(u) : m = n
        /\ \A v, w \in Unpublished(u) : v = w
        /\ Waiting(u) = {} \/ Unpublished(u) = {}
    BY DEF StageIInv, OneCopy
  <2>2. ASSUME NEW S, \A x, y \in S : x = y  PROVE Cardinality(S) \in {0, 1}
    <3>1. CASE S = {}
      BY <3>1, FS_EmptySet
    <3>2. ASSUME NEW x \in S  PROVE Cardinality(S) = 1
      <4>1. S = {x}
        BY <2>2, <3>2
      <4>. QED  BY <4>1, FS_Singleton
    <3>. QED  BY <3>1, <3>2
  <2>3. Cardinality(Waiting(u)) \in {0, 1} /\ Cardinality(Unpublished(u)) \in {0, 1}
    BY <2>1, <2>2
  <2>4. Cardinality(Waiting(u)) = 0 \/ Cardinality(Unpublished(u)) = 0
    BY <2>1, FS_EmptySet
  <2>. QED  BY <2>1, <2>3, <2>4
<1>. QED  BY <1>1, StageInvariant, PTL

(* Without a failure a raw row goes with its article, unless the article   *)
(* waits for a rule.                                                       *)
THEOREM PagesAreCleared == StageSpec => []RawCleared
<1>1. StageIInv => RawCleared
  BY DEF StageIInv, RowHasReader, RawCleared, Live, Waiting, Parsing, Busy
<1>. QED  BY <1>1, StageInvariant, PTL

---------------------------------------------------------------------------
(* The agents: what is counted, and what belongs to what                   *)

Counted == {"counted", "admitted", "running"}
On(w) == {c \in Callers : call[c].at \in Counted /\ call[c].on = w}

GhostOK ==
  ghost \in [forced : SUBSET Workers, refused : SUBSET Workers, vanished : SUBSET Workers,
            orphaned : SUBSET Workers, burst : SUBSET Workers,
            opened : Nat, starts : Nat, carried : Nat]

(* A WaitGroup counts the calls that are on its worker.                    *)
CallsAreCounted ==
  /\ \A w \in Workers : wg[w] = Cardinality(On(w))
  /\ \A c \in Callers : call[c].at \in Counted <=> call[c].on # Nobody

(* How far the workers of a pool are, by what the pool is doing.           *)
PoolOfWorker(w) == IF w \in Codex THEN "codex" ELSE "claude"

StepFits(w, state) ==
  /\ state = "new" => step[w] = "off"
  /\ state = "starting" => step[w] \in {"mkdir", "owner", "run", "up", "broken"}
  /\ state = "ready" => step[w] = "up"
  /\ state \in {"stopping", "cleaning"} =>
       step[w] \in {"wait", "remove", "stopped", "stuck", "broken"}
  /\ state \in {"failed", "stopped"} => step[w] \in {"stopped", "stuck", "broken"}

StepsFitPool ==
  \A w \in Workers : IF Alive THEN StepFits(w, pool[PoolOfWorker(w)]) ELSE step[w] = "off"

(* Of a process that has ended nothing but containers and directories is left. *)
DeadHasNothing ==
  ~Alive => /\ \A c \in Callers : call[c] = Idle
            /\ \A w \in Workers : waiter[w] = "none" /\ ~held[w]

(* A worker has its container from docker run to docker rm, unless one of  *)
(* the two has failed and taken effect; and its ID is set while it is      *)
(* neither starting nor stopping.                                          *)
BoxesFitSteps ==
  \A w \in Workers :
    /\ step[w] \in {"up", "wait", "remove"} => box[w]
    /\ step[w] = "stuck" => /\ box[w] \/ w \in ghost.vanished
                            /\ w \in ghost.refused \cup (ghost.forced \ Codex)
    /\ Alive /\ box[w] => \/ step[w] \in {"up", "wait", "remove", "stuck"}
                          \/ step[w] = "broken" /\ w \in ghost.orphaned
    /\ held[w] <=> step[w] \in {"up", "stuck"}
    /\ waiter[w] # "none" => step[w] \in {"wait", "remove", "stopped", "stuck"}

(* A session has its container from its admission on; a worker whose wait  *)
(* has ended, uncut, has no session past its admission.                    *)
SessionsHaveBox ==
  \A c \in Callers : call[c].at \in {"admitted", "running"} =>
    box[call[c].on] \/ call[c].on \in ghost.forced \cup ghost.vanished
RemovedIsDrained ==
  \A w \in Workers : step[w] = "remove" /\ w \notin ghost.forced =>
    \A c \in Callers : call[c].on = w => call[c].at = "counted"

(* Nothing is counted for a codex worker between its Wait's waking and return. *)
WokenIsDrained ==
  \A w \in Codex \ ghost.refused : waiter[w] = "woken" => wg[w] = 0

IInv == /\ TypeOK /\ GhostOK /\ CallsAreCounted /\ StepsFitPool /\ DeadHasNothing
        /\ BoxesFitSteps /\ SessionsHaveBox /\ RemovedIsDrained /\ WokenIsDrained
        /\ NoContainerLeft /\ AdmissionGuardsWait

-----------------------------------------------------------------------------
(* The calls on a worker, and their number. *)
Places == [at : {"idle", "asking", "next", "counted", "admitted", "running"},
           on : Workers \cup {Nobody}, of : Sessions]
Free == {x \in Places : x.on = Nobody /\ x.at \notin Counted}

LEMMA FreeRecords == Idle \in Free /\ \A s \in Sessions : NextIs(s) \in Free
BY DEF Idle, NextIs, Free, Places, Counted, Sessions

LEMMA OnIsFinite ==
  \A w \in Workers : /\ IsFiniteSet(On(w)) /\ Cardinality(On(w)) \in Nat
                     /\ Cardinality(On(w)) <= Cardinality(Callers)
<1>1. IsFiniteSet(Callers)
  BY AgentAssumption, FS_Union DEF Callers
<1>2. \A w \in Workers : On(w) \subseteq Callers
  BY DEF On
<1> QED BY <1>1, <1>2, FS_Subset, FS_CardinalityType

LEMMA OnIsFiniteNext ==
  (\A w \in Workers : /\ IsFiniteSet(On(w)) /\ Cardinality(On(w)) \in Nat
                      /\ Cardinality(On(w)) <= Cardinality(Callers))'
BY OnIsFinite, PTL

(* A WaitGroup that counts calls is no larger than their number. *)
LEMMA WgType ==
  ASSUME CallsAreCounted', NEW W, wg' \in [Workers -> W]
  PROVE  wg' \in [Workers -> 0..Cardinality(Callers)]
<1>1. \A w \in Workers : wg'[w] = Cardinality(On(w))'
  BY DEF CallsAreCounted
<1>2. Cardinality(Callers) \in Nat
  BY AgentAssumption, FS_Union, FS_CardinalityType DEF Callers
<1>3. \A w \in Workers : wg'[w] \in 0..Cardinality(Callers)
  BY <1>1, <1>2, OnIsFiniteNext
<1> QED BY <1>3

LEMMA OnStays ==
  ASSUME TypeOK, CallsAreCounted, NEW c \in Callers, NEW x \in Places,
         call' = [call EXCEPT ![c] = x], x.at \in Counted <=> x.on # Nobody,
         x.on = call[c].on, wg' = wg
  PROVE  CallsAreCounted'
<1>1. \A w \in Workers : On(w)' = On(w)
  BY DEF On, TypeOK, CallsAreCounted, Places
<1>2. \A w \in Workers : wg'[w] = Cardinality(On(w))'
  BY <1>1 DEF CallsAreCounted
<1>3. \A d \in Callers : call'[d].at \in Counted <=> call'[d].on # Nobody
  BY DEF TypeOK, CallsAreCounted
<1> QED BY <1>2, <1>3 DEF CallsAreCounted

LEMMA OnGrows ==
  ASSUME TypeOK, CallsAreCounted, NEW c \in Callers, NEW x \in Places, NEW w \in Workers,
         call' = [call EXCEPT ![c] = x], x.at \in Counted, x.on = w,
         call[c].on = Nobody, wg' = [wg EXCEPT ![w] = @ + 1]
  PROVE  CallsAreCounted'
<1>1. \A v \in Workers \ {w} : On(v)' = On(v)
  BY AgentAssumption DEF On, TypeOK, Places
<1>2. On(w)' = On(w) \cup {c} /\ c \notin On(w)
  BY AgentAssumption DEF On, TypeOK, Places
<1>3. Cardinality(On(w))' = Cardinality(On(w)) + 1
  BY <1>2, OnIsFinite, FS_AddElement
<1>4. \A v \in Workers : wg'[v] = Cardinality(On(v))'
  BY <1>1, <1>3 DEF CallsAreCounted, TypeOK
<1>5. \A d \in Callers : call'[d].at \in Counted <=> call'[d].on # Nobody
  BY AgentAssumption DEF TypeOK, CallsAreCounted
<1> QED BY <1>4, <1>5 DEF CallsAreCounted

LEMMA OnShrinks ==
  ASSUME TypeOK, CallsAreCounted, NEW c \in Callers, NEW x \in Free, NEW w \in Workers,
         call' = [call EXCEPT ![c] = x], call[c].on = w,
         wg' = [wg EXCEPT ![w] = @ - 1]
  PROVE  CallsAreCounted'
<1>1. \A v \in Workers \ {w} : On(v)' = On(v)
  BY AgentAssumption DEF On, TypeOK, Free
<1>2. On(w)' = On(w) \ {c} /\ c \in On(w)
  BY AgentAssumption DEF On, TypeOK, Free, CallsAreCounted
<1>3. Cardinality(On(w))' = Cardinality(On(w)) - 1
  <2>1. Cardinality(On(w) \ {c}) = Cardinality(On(w)) - 1
    BY <1>2, OnIsFinite, FS_RemoveElement
  <2> QED BY <1>2, <2>1
<1>4. \A v \in Workers : wg'[v] = Cardinality(On(v))'
  BY <1>1, <1>3 DEF CallsAreCounted, TypeOK
<1>5. \A d \in Callers : call'[d].at \in Counted <=> call'[d].on # Nobody
  BY DEF TypeOK, CallsAreCounted, Free
<1> QED BY <1>4, <1>5 DEF CallsAreCounted

(* What follows a session is a place on no worker. *)
LEMMA FollowType ==
  ASSUME NEW s \in Sessions, NEW ok \in BOOLEAN
  PROVE  Follow[s][ok] \subseteq Sessions \cup {"done"}
<1>1. \A r : NextIn(s, r) \subseteq Sessions \cup {"done"}
  <2>1. \A r : Called(r) \subseteq Sessions
    BY EnrichFactsAssumption DEF Called
  <2> QED BY <2>1 DEF NextIn
<1>2. Follow[s][ok] = UNION {NextIn(s, r) : r \in
                             {r \in Courses : s \in Called(r) /\ (Answered(s, r) <=> ok)}}
  BY DEF Follow
<1> QED BY <1>1, <1>2

LEMMA AfterFrees ==
  ASSUME TypeOK, NEW c \in Callers, NEW ok \in BOOLEAN, After(c, ok)
  PROVE  \E x \in Free : call' = [call EXCEPT ![c] = x]
<1>1. call[c].of \in Sessions
  BY DEF TypeOK
<1>2. Follow[call[c].of][ok] \subseteq Sessions \cup {"done"}
  BY <1>1, FollowType
<1> QED BY <1>2, FreeRecords DEF After

-----------------------------------------------------------------------------
LEMMA InitIInv == Init => IInv
<1> SUFFICES ASSUME Init PROVE IInv
  OBVIOUS
<1>1. CallsAreCounted
  <2>1. \A w \in Workers : On(w) = {}
    BY AgentAssumption DEF Init, On, Idle, Counted
  <2>2. \A c \in Callers : call[c].at \notin Counted /\ call[c].on = Nobody
    BY DEF Init, Idle, Counted
  <2> QED BY <2>1, <2>2, FS_EmptySet DEF CallsAreCounted, Init
<1>2. TypeOK
  <2>1. Cardinality(Callers) \in Nat
    BY AgentAssumption, FS_Union, FS_CardinalityType DEF Callers
  <2>2. Idle \in Places
    BY FreeRecords DEF Free
  <2> QED BY <2>1, <2>2, AgentAssumption DEF Init, TypeOK, Pools, NewGuard, Places
<1>3. GhostOK
  BY DEF Init, NoGhost, GhostOK
<1>4. StepsFitPool /\ DeadHasNothing /\ BoxesFitSteps
  BY DEF Init, StepsFitPool, StepFits, PoolOfWorker, Pools, DeadHasNothing,
     BoxesFitSteps, Alive
<1>5. SessionsHaveBox /\ RemovedIsDrained /\ WokenIsDrained
  BY AgentAssumption DEF Init, SessionsHaveBox, RemovedIsDrained, WokenIsDrained, Idle
<1>6. NoContainerLeft /\ AdmissionGuardsWait
  BY DEF Init, NoContainerLeft, AdmissionGuardsWait, NoGhost, Pools
<1> QED BY <1>1, <1>2, <1>3, <1>4, <1>5, <1>6 DEF IInv

-----------------------------------------------------------------------------
(* The steps of callers.  None changes a worker but its WaitGroup and the  *)
(* goroutine that waits for it.                                            *)
WorkersStay ==
  /\ UNCHANGED <<life, pool, step, held, box>>
  /\ ghost'.forced = ghost.forced /\ ghost'.refused = ghost.refused
  /\ ghost'.vanished = ghost.vanished /\ ghost'.orphaned = ghost.orphaned
  /\ ghost'.burst = ghost.burst

LEMMA WorkersStayFit ==
  ASSUME IInv, WorkersStay, waiter' = waiter
         \/ \E w \in Workers : waiter' = [waiter EXCEPT ![w] = IF @ = "asleep" THEN "woken" ELSE @]
  PROVE  StepsFitPool' /\ BoxesFitSteps' /\ NoContainerLeft' /\ AdmissionGuardsWait'
<1>1. StepsFitPool' /\ NoContainerLeft' /\ AdmissionGuardsWait'
  BY DEF IInv, WorkersStay, StepsFitPool, StepFits, NoContainerLeft,
     AdmissionGuardsWait, Alive
<1>2. \A v \in Workers : waiter'[v] # "none" => waiter[v] # "none"
  BY DEF IInv, TypeOK
<1>3. BoxesFitSteps'
  BY <1>2 DEF IInv, WorkersStay, BoxesFitSteps, Alive
<1> QED BY <1>1, <1>3

(* A caller that comes from no worker and goes to none. *)
LEMMA FreeMoves ==
  ASSUME IInv, TypeOK', GhostOK', WorkersStay, Alive, UNCHANGED <<wg, waiter>>,
         NEW c \in Callers, NEW x \in Free, call[c].on = Nobody, call' = [call EXCEPT ![c] = x]
  PROVE  IInv'
<1>1. CallsAreCounted'
  BY OnStays DEF IInv, Free
<1>2. DeadHasNothing'
  BY DEF WorkersStay, DeadHasNothing, Alive
<1>3. x.at \notin {"counted", "admitted", "running"} /\ x.on = Nobody
  BY DEF Free, Counted
<1>4. \A d \in Callers : call'[d] = call[d] \/ call'[d] = x
  BY DEF IInv, TypeOK
<1>5. SessionsHaveBox'
  BY <1>3, <1>4 DEF IInv, SessionsHaveBox, WorkersStay
<1>6. RemovedIsDrained' /\ WokenIsDrained'
  BY <1>3, <1>4, AgentAssumption DEF IInv, RemovedIsDrained, WokenIsDrained, WorkersStay
<1> QED BY <1>1, <1>2, <1>5, <1>6, WorkersStayFit DEF IInv

(* A caller that leaves a worker. *)
LEMMA LeaveKeeps ==
  ASSUME IInv, GhostOK', WorkersStay, UNCHANGED <<stopping, dir, guard, bounds>>,
         NEW c \in Callers, NEW w \in Workers, call[c].on = w, Leave(w),
         NEW x \in Free, call' = [call EXCEPT ![c] = x]
  PROVE  IInv'
<1>1. CallsAreCounted'
  BY OnShrinks DEF IInv, Leave
<1>2. x.at \notin {"counted", "admitted", "running"} /\ x.on = Nobody /\ x \in Places
  BY DEF Free, Counted
<1>3. TypeOK'
  <2>1. wg' \in [Workers -> Int]
    BY DEF Leave, IInv, TypeOK
  <2>2. wg' \in [Workers -> 0..Cardinality(Callers)]
    BY <1>1, <2>1, WgType
  <2>3. waiter' \in [Workers -> {"none", "asleep", "woken"}]
    BY DEF Leave, IInv, TypeOK
  <2>4. call' \in [Callers -> Places]
    BY <1>2 DEF IInv, TypeOK, Places
  <2> QED BY <2>2, <2>3, <2>4 DEF IInv, TypeOK, WorkersStay, bounds, Places
<1>4. Alive /\ DeadHasNothing'
  <2>1. Alive
    BY AgentAssumption DEF IInv, DeadHasNothing, Idle
  <2> QED BY <2>1 DEF WorkersStay, DeadHasNothing, Alive
<1>5. \A d \in Callers : call'[d] = call[d] \/ call'[d] = x
  BY DEF IInv, TypeOK
<1>6. SessionsHaveBox' /\ RemovedIsDrained'
  BY <1>2, <1>5, AgentAssumption
     DEF IInv, SessionsHaveBox, RemovedIsDrained, WorkersStay
<1>7. WokenIsDrained'
  <2>1. wg[w] # 0
    <3>1. c \in On(w)
      BY AgentAssumption DEF On, IInv, CallsAreCounted
    <3>2. Cardinality(On(w)) # 0
      BY <3>1, OnIsFinite, FS_EmptySet
    <3> QED BY <3>2 DEF IInv, CallsAreCounted
  <2>2. ASSUME NEW v \in Codex \ ghost.refused, waiter'[v] = "woken"
        PROVE  wg'[v] = 0
    <3>1. v \in Workers
      BY AgentAssumption
    <3>2. CASE v = w
      <4>1. waiter[w] # "woken"
        BY <2>1, <2>2, <3>2 DEF IInv, WokenIsDrained
      <4>2. wg[w] = 1
        BY <4>1, <2>2, <3>1, <3>2 DEF Leave, IInv, TypeOK
      <4> QED BY <4>2, <3>1, <3>2 DEF Leave, IInv, TypeOK
    <3>3. CASE v # w
      BY <3>1, <3>3, <2>2 DEF Leave, IInv, TypeOK, WokenIsDrained
    <3> QED BY <3>2, <3>3
  <2> QED BY <2>2 DEF WokenIsDrained, WorkersStay
<1>8. waiter' = [waiter EXCEPT ![w] = IF @ = "asleep" THEN "woken" ELSE @] \/ waiter' = waiter
  BY DEF Leave, IInv, TypeOK
<1> QED BY <1>1, <1>3, <1>4, <1>6, <1>7, <1>8, WorkersStayFit DEF IInv

(* A caller that stays on its worker, further on. *)
LEMMA AdmissionKeeps ==
  ASSUME IInv, TypeOK', GhostOK', WorkersStay, UNCHANGED <<wg, waiter>>,
         NEW c \in Callers, NEW w \in Workers, call[c].on = w,
         NEW l \in {"admitted", "running"}, call' = [call EXCEPT ![c].at = l],
         held[w] \/ call[c].at = "admitted"
  PROVE  IInv'
<1> DEFINE x == [call[c] EXCEPT !.at = l]
<1>1. x \in Places /\ x.on = w /\ x.at = l /\ call' = [call EXCEPT ![c] = x]
  BY DEF IInv, TypeOK, Places
<1> HIDE DEF x
<1>2. CallsAreCounted'
  <2>1. x.at \in Counted /\ x.on # Nobody
    BY <1>1, AgentAssumption DEF Counted
  <2> QED BY <1>1, <2>1, OnStays DEF IInv
<1>3. DeadHasNothing'
  <2>1. Alive
    BY AgentAssumption DEF IInv, DeadHasNothing, Idle
  <2> QED BY <2>1 DEF WorkersStay, DeadHasNothing, Alive
<1>4. \A d \in Callers : call'[d] = IF d = c THEN x ELSE call[d]
  BY <1>1 DEF IInv, TypeOK
<1>5. SessionsHaveBox'
  <2>1. box[w] \/ w \in ghost.forced \cup ghost.vanished
    BY DEF IInv, BoxesFitSteps, SessionsHaveBox
  <2> QED BY <1>1, <1>4, <2>1 DEF IInv, SessionsHaveBox, WorkersStay
<1>6. RemovedIsDrained'
  <2>1. step[w] # "remove" \/ w \in ghost.forced
    BY DEF IInv, BoxesFitSteps, RemovedIsDrained
  <2> QED BY <1>1, <1>4, <2>1 DEF IInv, RemovedIsDrained, WorkersStay
<1>7. WokenIsDrained'
  BY DEF IInv, WokenIsDrained, WorkersStay
<1> QED BY <1>2, <1>3, <1>5, <1>6, <1>7, WorkersStayFit DEF IInv

LEMMA PickKeeps ==
  ASSUME IInv, NEW c \in Callers, NEW w \in Workers, Pick(c, w)
  PROVE  IInv'
<1>1. WorkersStay /\ GhostOK' /\ UNCHANGED <<waiter, stopping, dir, guard, bounds>>
  BY DEF Pick, WorkersStay, docker, bounds, Calm, IInv, GhostOK
<1>2. Alive /\ call[c].on = Nobody /\ call[c].at = "next"
  BY DEF Pick, IInv, DeadHasNothing, Idle, CallsAreCounted, Counted
<1>3. CASE w \in Codex /\ ~Admits(w) /\ After(c, FALSE) /\ UNCHANGED wg
  <2>1. PICK x \in Free : call' = [call EXCEPT ![c] = x]
    BY <1>3, AfterFrees DEF IInv
  <2>2. TypeOK'
    BY <1>1, <1>3, <2>1 DEF IInv, TypeOK, WorkersStay, bounds, Free, Places
  <2> QED BY <1>1, <1>2, <1>3, <2>1, <2>2, FreeMoves
<1>4. CASE /\ w \notin Codex \/ Admits(w)
           /\ wg' = [wg EXCEPT ![w] = @ + 1]
           /\ call' = [call EXCEPT ![c].on = w,
                                   ![c].at = IF w \in Codex THEN "admitted" ELSE "counted"]
  <2> DEFINE x == [call[c] EXCEPT !.on = w, !.at = IF w \in Codex THEN "admitted" ELSE "counted"]
  <2>1. /\ x \in Places /\ x.on = w /\ call' = [call EXCEPT ![c] = x]
        /\ x.at = IF w \in Codex THEN "admitted" ELSE "counted"
    <3>1. call[c] \in Places
      BY DEF IInv, TypeOK, Places
    <3>2. /\ x \in Places /\ x.on = w
          /\ x.at = IF w \in Codex THEN "admitted" ELSE "counted"
      BY <3>1 DEF Places
    <3>3. call' = [call EXCEPT ![c] = x]
      BY <1>4 DEF IInv, TypeOK
    <3> QED BY <3>2, <3>3
  <2> HIDE DEF x
  <2>2. CallsAreCounted'
    <3>1. x.at \in Counted
      BY <2>1 DEF Counted
    <3> QED BY <1>2, <1>4, <2>1, <3>1, OnGrows DEF IInv
  <2>3. TypeOK'
    <3>1. wg' \in [Workers -> Int]
      BY <1>4 DEF IInv, TypeOK
    <3>2. wg' \in [Workers -> 0..Cardinality(Callers)]
      BY <2>2, <3>1, WgType
    <3> QED BY <1>1, <2>1, <3>2 DEF IInv, TypeOK, WorkersStay, bounds, Places
  <2>4. \A d \in Callers : call'[d] = IF d = c THEN x ELSE call[d]
    BY <2>1 DEF IInv, TypeOK
  <2>5. w \in Codex => held[w] /\ (waiter[w] = "none" \/ w \in ghost.refused)
    BY <1>4 DEF Admits, IInv, BoxesFitSteps, TypeOK
  <2>6. SessionsHaveBox'
    BY <1>1, <2>1, <2>4, <2>5 DEF IInv, SessionsHaveBox, BoxesFitSteps, WorkersStay
  <2>7. RemovedIsDrained'
    BY <1>1, <2>1, <2>4, <2>5 DEF IInv, RemovedIsDrained, BoxesFitSteps, WorkersStay
  <2>8. WokenIsDrained'
    BY <1>1, <1>4, <2>5, AgentAssumption DEF IInv, TypeOK, WokenIsDrained, WorkersStay
  <2>9. DeadHasNothing'
    BY <1>1, <1>2 DEF DeadHasNothing, Alive, WorkersStay
  <2> QED BY <1>1, <2>2, <2>3, <2>6, <2>7, <2>8, <2>9, WorkersStayFit DEF IInv
<1> QED BY <1>3, <1>4 DEF Pick

LEMMA ReadIDKeeps ==
  ASSUME IInv, NEW c \in Callers, NEW w \in Workers, ReadID(c, w)
  PROVE  IInv'
<1>1. WorkersStay /\ GhostOK' /\ UNCHANGED <<stopping, dir, guard, bounds>>
  BY DEF ReadID, WorkersStay, bounds, Calm, IInv, GhostOK
<1>2. CASE held[w] /\ call' = [call EXCEPT ![c].at = "admitted"] /\ UNCHANGED <<wg, waiter>>
  <2>1. TypeOK'
    BY <1>1, <1>2 DEF IInv, TypeOK, WorkersStay, bounds
  <2> QED BY <1>1, <1>2, <2>1, AdmissionKeeps DEF ReadID
<1>3. CASE ~held[w] /\ Leave(w) /\ After(c, FALSE)
  <2>1. PICK x \in Free : call' = [call EXCEPT ![c] = x]
    BY <1>3, AfterFrees DEF IInv
  <2> QED BY <1>1, <1>3, <2>1, LeaveKeeps DEF ReadID
<1> QED BY <1>2, <1>3 DEF ReadID

LEMMA EnterSessionKeeps ==
  ASSUME IInv, NEW c \in Callers, NEW w \in Workers, EnterSession(c, w)
  PROVE  IInv'
<1>1. GhostOK' /\ WorkersStay
  BY DEF EnterSession, WorkersStay, IInv, GhostOK
<1>2. TypeOK'
  <2>1. dir' \in [Workers -> {"none", "bare", "owned"}]
    BY DEF EnterSession, IInv, TypeOK
  <2> QED BY <2>1 DEF EnterSession, IInv, TypeOK, bounds, Calm
<1> QED BY <1>1, <1>2, AdmissionKeeps DEF EnterSession

LEMMA EndSessionKeeps ==
  ASSUME IInv, NEW c \in Callers, NEW w \in Workers, EndSession(c, w)
  PROVE  IInv'
<1>1. WorkersStay /\ GhostOK' /\ UNCHANGED <<stopping, dir, guard, bounds>>
  BY DEF EndSession, WorkersStay, bounds, Calm, IInv, GhostOK
<1>2. PICK x \in Free : call' = [call EXCEPT ![c] = x]
  BY AfterFrees DEF EndSession, IInv
<1> QED BY <1>1, <1>2, LeaveKeeps DEF EndSession

-----------------------------------------------------------------------------
(* The cost guard, the rule generator and the clock. *)
LEMMA ConsumeFrees ==
  ASSUME TypeOK, NEW c \in Callers, NEW lag \in {"stale", "low", "high"}, Consume(c, lag)
  PROVE  /\ guard' \in [day : {"today", "past"}, count : 0..DailyLimit,
                        lag : {"stale", "low", "high"}]
         /\ \E x \in Free : call' = [call EXCEPT ![c] = x]
<1>1. Idle \in Free /\ NextIs("extract") \in Free
  BY FreeRecords DEF Sessions
<1>2. CountToday \in 0..DailyLimit /\ (Allows => CountToday + 1 \in 0..DailyLimit)
  BY AgentAssumption DEF CountToday, Allows, TypeOK
<1>3. CASE Allows
  BY <1>1, <1>2, <1>3 DEF Consume
<1>4. CASE ~Allows
  BY <1>1, <1>2, <1>4 DEF Consume
<1> QED BY <1>3, <1>4

(* A step of an idle caller, or of one that asks for the lag. *)
LEMMA FreeStepKeeps ==
  ASSUME IInv, GhostOK', WorkersStay, Alive, UNCHANGED <<docker, wg, bounds>>,
         NEW c \in Callers, call[c].at \in {"idle", "asking"},
         NEW x \in Free, call' = [call EXCEPT ![c] = x],
         guard' \in [day : {"today", "past"}, count : 0..DailyLimit,
                     lag : {"stale", "low", "high"}]
  PROVE  IInv'
<1>1. TypeOK'
  BY DEF IInv, TypeOK, WorkersStay, docker, bounds, Free, Places
<1>2. call[c].on = Nobody
  BY DEF IInv, CallsAreCounted, Counted
<1> QED BY <1>1, <1>2, FreeMoves DEF docker

LEMMA AllowKeeps ==
  ASSUME IInv, NEW c \in Pages, Allow(c)
  PROVE  IInv'
<1>1. /\ WorkersStay /\ GhostOK' /\ Alive /\ c \in Callers
      /\ call[c].at = "idle" /\ UNCHANGED <<docker, wg, bounds>>
  BY DEF Allow, WorkersStay, docker, bounds, Calm, IInv, GhostOK, Alive, Callers, Idle
<1>2. CASE Consume(c, "low")
  BY <1>1, <1>2, ConsumeFrees, FreeStepKeeps DEF IInv
<1>3. CASE UNCHANGED guard /\ call' = [call EXCEPT ![c].at = "asking"]
  <2>1. [Idle EXCEPT !.at = "asking"] \in Free
    BY DEF Idle, Free, Places, Counted, Sessions
  <2>2. call' = [call EXCEPT ![c] = [Idle EXCEPT !.at = "asking"]]
    BY <1>3 DEF Allow
  <2>3. guard' \in [day : {"today", "past"}, count : 0..DailyLimit,
                    lag : {"stale", "low", "high"}]
    BY <1>3 DEF IInv, TypeOK
  <2> QED BY <1>1, <2>1, <2>2, <2>3, FreeStepKeeps
<1> QED BY <1>2, <1>3 DEF Allow

LEMMA AnswerKeeps ==
  ASSUME IInv, NEW c \in Pages, Answer(c)
  PROVE  IInv'
<1>1. /\ WorkersStay /\ GhostOK' /\ Alive /\ c \in Callers
      /\ call[c].at = "asking" /\ UNCHANGED <<docker, wg, bounds>>
  BY DEF Answer, WorkersStay, docker, bounds, Calm, IInv, GhostOK, DeadHasNothing,
     Callers, Idle
<1>2. CASE Consume(c, "low")
  BY <1>1, <1>2, ConsumeFrees, FreeStepKeeps DEF IInv
<1>3. CASE guard' = [guard EXCEPT !.lag = "high"] /\ call' = [call EXCEPT ![c] = Idle]
  <2>1. guard' \in [day : {"today", "past"}, count : 0..DailyLimit,
                    lag : {"stale", "low", "high"}]
    BY <1>3 DEF IInv, TypeOK
  <2> QED BY <1>1, <1>3, <2>1, FreeRecords, FreeStepKeeps
<1> QED BY <1>2, <1>3 DEF Answer

LEMMA GenerateKeeps ==
  ASSUME IInv, NEW c \in Generations, Generate(c)
  PROVE  IInv'
<1>1. /\ WorkersStay /\ GhostOK' /\ Alive /\ c \in Callers
      /\ call[c].at = "idle" /\ UNCHANGED <<docker, wg, bounds, guard>>
  BY DEF Generate, WorkersStay, docker, bounds, Calm, IInv, GhostOK, Alive, Callers,
     Idle
<1>2. NextIs("extract") \in Free
  BY FreeRecords DEF Sessions
<1> QED BY <1>1, <1>2, FreeStepKeeps DEF Generate, IInv, TypeOK

(* Steps that leave callers and workers alone. *)
LEMMA GuardAlone ==
  ASSUME IInv, GhostOK', TypeOK', WorkersStay, UNCHANGED <<wg, call, waiter>>
  PROVE  IInv'
<1>1. CallsAreCounted'
  BY DEF IInv, CallsAreCounted, On
<1>2. DeadHasNothing' /\ SessionsHaveBox' /\ RemovedIsDrained' /\ WokenIsDrained'
  BY DEF IInv, WorkersStay, DeadHasNothing, SessionsHaveBox, RemovedIsDrained,
         WokenIsDrained, Alive
<1> QED BY <1>1, <1>2, WorkersStayFit DEF IInv

LEMMA ClockKeeps ==
  ASSUME IInv, LagExpires \/ Midnight
  PROVE  IInv'
<1>1. WorkersStay /\ UNCHANGED <<docker, wg, call>>
  BY DEF LagExpires, Midnight, WorkersStay, docker, IInv, GhostOK
<1>2. GhostOK'
  <2> DEFINE n == Cardinality({c \in Pages : UnderWay(c)})
  <2>1. n \in Nat
    <3>1. {c \in Pages : UnderWay(c)} \subseteq Pages
      OBVIOUS
    <3> QED BY <3>1, AgentAssumption, FS_Subset, FS_CardinalityType
  <2>2. \/ ghost' = ghost
        \/ ghost' = [ghost EXCEPT !.opened = 0, !.starts = 1, !.carried = n]
    BY DEF LagExpires, Midnight
  <2> HIDE DEF n
  <2>3. GhostOK
    BY DEF IInv
  <2>4. CASE ghost' = ghost
    BY <2>3, <2>4 DEF GhostOK
  <2>5. CASE ghost' = [ghost EXCEPT !.opened = 0, !.starts = 1, !.carried = n]
    BY <2>1, <2>3, <2>5 DEF GhostOK
  <2> QED BY <2>2, <2>4, <2>5
<1>3. TypeOK'
  BY <1>1, AgentAssumption DEF LagExpires, Midnight, WorkersStay, docker, bounds,
     Calm, IInv, TypeOK
<1> QED BY <1>1, <1>2, <1>3, GuardAlone DEF docker

-----------------------------------------------------------------------------
(* The process ends. *)
LEMMA PerishKeeps ==
  ASSUME IInv, NEW how \in {"exit", "dead"}, Perish(how), GhostOK', UNCHANGED <<days, boots>>,
         trouble' \in 0..MaxTrouble, ghost'.forced = ghost.forced,
         ghost'.refused = ghost.refused, ghost'.orphaned = ghost.orphaned,
         ghost'.burst \cap Codex \subseteq ghost.refused
  PROVE  IInv'
<1>1. ~Alive'
  BY DEF Perish, Alive
<1>2. CallsAreCounted'
  <2>1. \A w \in Workers : On(w)' = {}
    BY AgentAssumption DEF Perish, On, Idle, Counted
  <2>2. \A c \in Callers : call'[c].at \notin Counted /\ call'[c].on = Nobody
    BY DEF Perish, Idle, Counted
  <2> QED BY <2>1, <2>2, FS_EmptySet DEF CallsAreCounted, Perish
<1>3. TypeOK'
  <2>1. wg' \in [Workers -> 0..Cardinality(Callers)]
    BY <1>2, WgType DEF Perish
  <2>2. call' \in [Callers -> Places]
    BY FreeRecords DEF Perish, Free
  <2> QED BY <2>1, <2>2 DEF Perish, IInv, TypeOK, Places
<1>4. StepsFitPool' /\ DeadHasNothing' /\ BoxesFitSteps'
  BY <1>1 DEF Perish, StepsFitPool, DeadHasNothing, BoxesFitSteps
<1>5. SessionsHaveBox' /\ RemovedIsDrained' /\ WokenIsDrained'
  BY AgentAssumption DEF Perish, SessionsHaveBox, RemovedIsDrained, WokenIsDrained, Idle
<1>6. NoContainerLeft' /\ AdmissionGuardsWait'
  BY DEF Perish, IInv, NoContainerLeft, AdmissionGuardsWait
<1> QED BY <1>2, <1>3, <1>4, <1>5, <1>6 DEF IInv

LEMMA EndKeeps ==
  ASSUME IInv, Exit \/ Kill
  PROVE  IInv'
<1>1. GhostOK' /\ UNCHANGED <<ghost, days, boots>> /\ trouble' \in 0..MaxTrouble
  BY AgentAssumption DEF Exit, Kill, Fault, Calm, bounds, IInv, TypeOK, GhostOK
<1>2. \E how \in {"exit", "dead"} : Perish(how)
  BY DEF Exit, Kill
<1> QED BY <1>1, <1>2, PerishKeeps DEF IInv, AdmissionGuardsWait

LEMMA BootKeeps ==
  ASSUME IInv, Boot
  PROVE  IInv'
<1>1. CallsAreCounted'
  BY DEF Boot, IInv, CallsAreCounted, On
<1>2. TypeOK' /\ GhostOK'
  <2>1. GhostOK'
    <3>1. GhostOK /\ ghost.starts + 1 \in Nat
      BY DEF IInv, GhostOK
    <3> QED BY <3>1 DEF Boot, GhostOK, NoGhost
  <2>2. NewGuard \in [day : {"today", "past"}, count : 0..DailyLimit,
                      lag : {"stale", "low", "high"}]
    BY AgentAssumption DEF NewGuard
  <2>3. boots' \in 1..MaxBoots /\ trouble' \in 0..MaxTrouble /\ days' \in 0..MaxDays
    BY AgentAssumption DEF Boot, IInv, TypeOK
  <2>4. pool' \in [Pools -> {"new", "starting", "cleaning", "ready", "failed", "stopping",
                            "stopped"}]
    BY DEF Boot
  <2>5. box' \in [Workers -> BOOLEAN] /\ dir' \in [Workers -> {"none", "bare", "owned"}]
    BY DEF Boot
  <2> QED BY <2>1, <2>2, <2>3, <2>4, <2>5 DEF Boot, IInv, TypeOK
<1>3. /\ \A c \in Callers : call'[c] = Idle
      /\ \A w \in Workers : step'[w] = "off" /\ waiter'[w] = "none" /\ ~held'[w] /\ ~box'[w]
  BY DEF Boot, IInv, DeadHasNothing, StepsFitPool
<1>4. StepsFitPool' /\ DeadHasNothing' /\ BoxesFitSteps'
  <2>1. \A q \in Pools : pool'[q] = "new"
    BY DEF Boot
  <2>2. Alive'
    BY DEF Boot, Alive
  <2> QED BY <1>3, <2>1, <2>2
          DEF StepsFitPool, StepFits, PoolOfWorker, Pools, DeadHasNothing, BoxesFitSteps
<1>5. SessionsHaveBox' /\ RemovedIsDrained' /\ WokenIsDrained'
  BY <1>3, AgentAssumption DEF SessionsHaveBox, RemovedIsDrained, WokenIsDrained, Idle
<1>6. NoContainerLeft' /\ AdmissionGuardsWait'
  BY DEF Boot, IInv, GhostOK, NoGhost, NoContainerLeft, AdmissionGuardsWait
<1> QED BY <1>1, <1>2, <1>4, <1>5, <1>6 DEF IInv

-----------------------------------------------------------------------------
(* The steps of workers and pools: no caller moves, no WaitGroup changes.  *)
CallsStay == UNCHANGED <<call, wg>>

LEMMA MembersOf ==
  /\ \A q \in Pools : Members(q) \subseteq Workers
  /\ \A w \in Workers, q \in Pools : w \in Members(q) <=> PoolOfWorker(w) = q
BY AgentAssumption DEF Members, PoolOfWorker, Pools

LEMMA CountsStay ==
  ASSUME IInv, CallsStay
  PROVE  CallsAreCounted'
BY DEF IInv, CallsAreCounted, On, CallsStay

LEMMA MakeDirKeeps ==
  ASSUME IInv, NEW w \in Workers, MakeDir(w)
  PROVE  IInv'
<1>0. CallsStay
  BY DEF MakeDir, CallsStay
<1>1. TypeOK'
  BY <1>0, AgentAssumption, MembersOf DEF MakeDir, Breaks, Fault, Calm, TypeOK, IInv,
     bounds
<1>2. GhostOK'
  BY <1>0, AgentAssumption, MembersOf DEF MakeDir, GhostOK, IInv
<1>3. StepsFitPool'
  BY <1>0, AgentAssumption, MembersOf DEF MakeDir, Breaks, StepsFitPool, IInv, TypeOK,
         StepFits, Alive
<1>4. DeadHasNothing'
  BY <1>0, AgentAssumption, MembersOf DEF MakeDir, Breaks, DeadHasNothing, IInv, Alive
<1>5. BoxesFitSteps'
  BY <1>0, AgentAssumption, MembersOf DEF MakeDir, Breaks, BoxesFitSteps, IInv, TypeOK,
         StepsFitPool
<1>6. SessionsHaveBox'
  BY <1>0, AgentAssumption, MembersOf DEF MakeDir, Breaks, SessionsHaveBox, IInv
<1>7. RemovedIsDrained'
  BY <1>0, AgentAssumption, MembersOf DEF MakeDir, Breaks, RemovedIsDrained, IInv,
     TypeOK
<1>8. WokenIsDrained'
  BY <1>0, AgentAssumption, MembersOf DEF MakeDir, WokenIsDrained, IInv
<1>9. NoContainerLeft'
  BY <1>0, AgentAssumption, MembersOf DEF MakeDir, Breaks, NoContainerLeft, IInv
<1>10. AdmissionGuardsWait'
  BY <1>0, AgentAssumption, MembersOf DEF MakeDir, AdmissionGuardsWait, IInv
<1> QED
  BY <1>0, CountsStay, <1>1, <1>2, <1>3, <1>4, <1>5, <1>6, <1>7, <1>8, <1>9, <1>10
     DEF IInv

LEMMA WriteOwnerKeeps ==
  ASSUME IInv, NEW w \in Workers, WriteOwner(w)
  PROVE  IInv'
<1>0. CallsStay
  BY DEF WriteOwner, CallsStay
<1>1. TypeOK'
  BY <1>0, AgentAssumption, MembersOf DEF WriteOwner, Breaks, Fault, Calm, TypeOK, IInv,
         bounds
<1>2. GhostOK'
  BY <1>0, AgentAssumption, MembersOf DEF WriteOwner, GhostOK, IInv
<1>3. StepsFitPool'
  BY <1>0, AgentAssumption, MembersOf DEF WriteOwner, Breaks, StepsFitPool, IInv,
         TypeOK, StepFits, Alive
<1>4. DeadHasNothing'
  BY <1>0, AgentAssumption, MembersOf DEF WriteOwner, Breaks, DeadHasNothing, IInv,
     Alive
<1>5. BoxesFitSteps'
  BY <1>0, AgentAssumption, MembersOf DEF WriteOwner, Breaks, BoxesFitSteps, IInv,
         TypeOK, StepsFitPool
<1>6. SessionsHaveBox'
  BY <1>0, AgentAssumption, MembersOf DEF WriteOwner, Breaks, SessionsHaveBox, IInv
<1>7. RemovedIsDrained'
  BY <1>0, AgentAssumption, MembersOf DEF WriteOwner, Breaks, RemovedIsDrained, IInv,
     TypeOK
<1>8. WokenIsDrained'
  BY <1>0, AgentAssumption, MembersOf DEF WriteOwner, WokenIsDrained, IInv
<1>9. NoContainerLeft'
  BY <1>0, AgentAssumption, MembersOf DEF WriteOwner, Breaks, NoContainerLeft, IInv
<1>10. AdmissionGuardsWait'
  BY <1>0, AgentAssumption, MembersOf DEF WriteOwner, AdmissionGuardsWait, IInv
<1> QED
  BY <1>0, CountsStay, <1>1, <1>2, <1>3, <1>4, <1>5, <1>6, <1>7, <1>8, <1>9, <1>10
     DEF IInv

LEMMA RunContainerKeeps ==
  ASSUME IInv, NEW w \in Workers, RunContainer(w)
  PROVE  IInv'
<1>0. CallsStay
  BY DEF RunContainer, CallsStay
<1>a. /\ step[w] = "run" /\ Alive /\ pool[PoolOfWorker(w)] = "starting"
      /\ UNCHANGED <<life, pool, stopping, waiter, guard>>
  <2>1. PoolOfWorker(w) \in Pools
    BY DEF PoolOfWorker, Pools
  <2> QED BY <2>1 DEF RunContainer, IInv, TypeOK, StepsFitPool, StepFits
<1>b. \E l \in {"broken", "up"} :
        /\ step' = [step EXCEPT ![w] = l]
        /\ \A v \in Workers \ {w} : held'[v] = held[v] /\ box'[v] = box[v]
        /\ l = "broken" => held'[w] = held[w] /\ (box'[w] => box[w] \/ w \in ghost'.orphaned)
        /\ l = "up" => held'[w] /\ box'[w]
  BY DEF RunContainer, Breaks, IInv, TypeOK, GhostOK
<1>c. \A v \in Workers : box[v] => box'[v]
  BY DEF RunContainer, Breaks, IInv, TypeOK
<1>d. /\ ghost'.forced = ghost.forced /\ ghost'.refused = ghost.refused
      /\ ghost'.vanished = ghost.vanished /\ ghost'.burst = ghost.burst
      /\ ghost.orphaned \subseteq ghost'.orphaned /\ ghost'.orphaned \subseteq Workers
      /\ ghost'.opened = ghost.opened /\ ghost'.starts = ghost.starts
      /\ ghost'.carried = ghost.carried
  BY DEF RunContainer, IInv, GhostOK
<1>e. ~box[w] /\ ~held[w] /\ waiter[w] = "none"
  BY <1>a DEF IInv, BoxesFitSteps, TypeOK
<1>1. TypeOK'
  <2>1. UNCHANGED <<days, boots>> /\ trouble' \in 0..MaxTrouble
    BY AgentAssumption DEF RunContainer, Breaks, Fault, Calm, bounds, IInv, TypeOK
  <2>2. /\ held' \in [Workers -> BOOLEAN] /\ box' \in [Workers -> BOOLEAN]
        /\ dir' \in [Workers -> {"none", "bare", "owned"}]
    BY DEF RunContainer, Breaks, IInv, TypeOK
  <2>3. step' \in [Workers -> {"off", "mkdir", "owner", "run", "up", "broken",
                               "wait", "remove", "stopped", "stuck"}]
    BY <1>b DEF IInv, TypeOK
  <2> QED BY <1>0, <1>a, <2>1, <2>2, <2>3 DEF IInv, TypeOK, CallsStay
<1>2. GhostOK'
  BY DEF RunContainer, GhostOK, IInv
<1>3. StepsFitPool'
  BY <1>0, AgentAssumption, MembersOf DEF RunContainer, Breaks, StepsFitPool, IInv,
         TypeOK, StepFits, Alive
<1>4. DeadHasNothing'
  BY <1>0, AgentAssumption, MembersOf DEF RunContainer, DeadHasNothing, IInv,
         StepsFitPool, Alive
<1>5. BoxesFitSteps'
  BY <1>a, <1>b, <1>d, <1>e DEF BoxesFitSteps, IInv, TypeOK, Alive
<1>6. SessionsHaveBox'
  BY <1>0, <1>a, <1>c, <1>d, AgentAssumption DEF SessionsHaveBox, IInv, TypeOK, CallsStay,
         CallsAreCounted, Counted
<1>7. RemovedIsDrained'
  BY <1>0, <1>b, <1>d DEF RemovedIsDrained, IInv, TypeOK, CallsStay
<1>8. WokenIsDrained'
  BY <1>0, <1>a, <1>d DEF WokenIsDrained, IInv, CallsStay
<1>9. NoContainerLeft'
  BY <1>a, <1>b, <1>d, MembersOf DEF NoContainerLeft, IInv
<1>10. AdmissionGuardsWait'
  BY <1>d DEF AdmissionGuardsWait, IInv
<1> QED
  BY <1>0, CountsStay, <1>1, <1>2, <1>3, <1>4, <1>5, <1>6, <1>7, <1>8, <1>9, <1>10
     DEF IInv

LEMMA EnterWaitKeeps ==
  ASSUME IInv, NEW w \in Workers, EnterWait(w)
  PROVE  IInv'
<1>0. CallsStay
  BY DEF EnterWait, CallsStay
<1>1. TypeOK'
  BY <1>0, AgentAssumption, MembersOf DEF EnterWait, Calm, TypeOK, IInv, bounds
<1>2. GhostOK'
  BY <1>0, AgentAssumption, MembersOf DEF EnterWait, GhostOK, IInv
<1>3. StepsFitPool'
  BY <1>0, AgentAssumption, MembersOf DEF EnterWait, StepsFitPool, IInv, TypeOK,
         StepFits, Alive
<1>4. DeadHasNothing'
  BY <1>0, AgentAssumption, MembersOf DEF EnterWait, DeadHasNothing, IInv, StepsFitPool,
         Alive
<1>5. BoxesFitSteps'
  BY <1>0, AgentAssumption, MembersOf DEF EnterWait, BoxesFitSteps, IInv, TypeOK,
         StepsFitPool
<1>6. SessionsHaveBox'
  BY <1>0, AgentAssumption, MembersOf DEF EnterWait, SessionsHaveBox, IInv
<1>7. RemovedIsDrained'
  <2>1. CASE Drained(w)
    <3>1. On(w) = {}
      BY <2>1, OnIsFinite, FS_EmptySet DEF Drained, IInv, CallsAreCounted
    <3>2. \A c \in Callers : call[c].on # w
      BY <3>1, AgentAssumption DEF On, IInv, CallsAreCounted
    <3>3. \A v \in Workers \ {w} : step'[v] = step[v]
      BY <2>1 DEF EnterWait, IInv, TypeOK
    <3> QED BY <1>0, <3>2, <3>3 DEF EnterWait, RemovedIsDrained, IInv
  <2>2. CASE ~Drained(w)
    BY <1>0, <2>2 DEF EnterWait, RemovedIsDrained, IInv
  <2> QED BY <2>1, <2>2
<1>8. WokenIsDrained'
  BY <1>0, AgentAssumption, MembersOf DEF EnterWait, WokenIsDrained, IInv, TypeOK
<1>9. NoContainerLeft'
  BY <1>0, AgentAssumption, MembersOf DEF EnterWait, NoContainerLeft, IInv
<1>10. AdmissionGuardsWait'
  BY <1>0, AgentAssumption, MembersOf DEF EnterWait, AdmissionGuardsWait, IInv
<1> QED
  BY <1>0, CountsStay, <1>1, <1>2, <1>3, <1>4, <1>5, <1>6, <1>7, <1>8, <1>9, <1>10
     DEF IInv

LEMMA WaitExpiresKeeps ==
  ASSUME IInv, NEW w \in Workers, WaitExpires(w)
  PROVE  IInv'
<1>0. CallsStay
  BY DEF WaitExpires, CallsStay
<1>1. TypeOK'
  BY <1>0, AgentAssumption, MembersOf DEF WaitExpires, Fault, TypeOK, IInv
<1>2. GhostOK'
  BY <1>0, AgentAssumption, MembersOf DEF WaitExpires, GhostOK, IInv
<1>3. StepsFitPool'
  BY <1>0, AgentAssumption, MembersOf DEF WaitExpires, StepsFitPool, IInv, StepFits,
     Alive
<1>4. DeadHasNothing'
  BY <1>0, AgentAssumption, MembersOf DEF WaitExpires, DeadHasNothing, IInv, Alive
<1>5. BoxesFitSteps'
  BY <1>0, AgentAssumption, MembersOf DEF WaitExpires, BoxesFitSteps, IInv, StepsFitPool
<1>6. SessionsHaveBox'
  BY <1>0, AgentAssumption, MembersOf DEF WaitExpires, SessionsHaveBox, IInv
<1>7. RemovedIsDrained'
  BY <1>0, AgentAssumption, MembersOf DEF WaitExpires, RemovedIsDrained, IInv
<1>8. WokenIsDrained'
  BY <1>0, AgentAssumption, MembersOf DEF WaitExpires, WokenIsDrained, IInv
<1>9. NoContainerLeft'
  BY <1>0, AgentAssumption, MembersOf DEF WaitExpires, NoContainerLeft, IInv
<1>10. AdmissionGuardsWait'
  BY <1>0, AgentAssumption, MembersOf DEF WaitExpires, AdmissionGuardsWait, IInv
<1> QED
  BY <1>0, CountsStay, <1>1, <1>2, <1>3, <1>4, <1>5, <1>6, <1>7, <1>8, <1>9, <1>10
     DEF IInv

(* What a removal that fails leaves behind.                               *)
LEMMA RefusalNoted ==
  ASSUME GhostOK, NEW w \in Workers,
         \/ ghost' = ghost
         \/ ghost' = [ghost EXCEPT !.refused = @ \cup {w}]
         \/ ghost' = [ghost EXCEPT !.refused = @ \cup {w}, !.vanished = @ \cup {w}]
  PROVE  /\ GhostOK' /\ ghost'.forced = ghost.forced /\ ghost'.burst = ghost.burst
         /\ ghost.refused \subseteq ghost'.refused /\ ghost.vanished \subseteq ghost'.vanished
         /\ ghost'.orphaned = ghost.orphaned
<1>1. CASE ghost' = ghost
  BY <1>1 DEF GhostOK
<1>2. CASE ghost' = [ghost EXCEPT !.refused = @ \cup {w}]
  BY <1>2 DEF GhostOK
<1>3. CASE ghost' = [ghost EXCEPT !.refused = @ \cup {w}, !.vanished = @ \cup {w}]
  <2>1. ghost' = [forced |-> ghost.forced, refused |-> ghost.refused \cup {w},
                  vanished |-> ghost.vanished \cup {w}, orphaned |-> ghost.orphaned,
                  burst |-> ghost.burst, opened |-> ghost.opened, starts |-> ghost.starts,
                  carried |-> ghost.carried]
    BY <1>3 DEF GhostOK
  <2>2. /\ ghost.refused \subseteq Workers /\ ghost.vanished \subseteq Workers
        /\ ghost.forced \subseteq Workers /\ ghost.orphaned \subseteq Workers
        /\ ghost.burst \subseteq Workers
        /\ ghost.opened \in Nat /\ ghost.starts \in Nat /\ ghost.carried \in Nat
    BY DEF GhostOK
  <2>. QED  BY <2>1, <2>2 DEF GhostOK
<1>. QED  BY <1>1, <1>2, <1>3

LEMMA RemoveKeeps ==
  ASSUME IInv, NEW w \in Workers, Remove(w)
  PROVE  IInv'
<1>0. CallsStay
  BY DEF Remove, CallsStay
<1>a. /\ step[w] = "remove" /\ box[w] /\ ~held[w] /\ Alive
      /\ pool[PoolOfWorker(w)] \in {"stopping", "cleaning"}
      /\ UNCHANGED <<life, pool, waiter, guard>>
  <2>1. PoolOfWorker(w) \in Pools
    BY DEF PoolOfWorker, Pools
  <2> QED BY <2>1 DEF Remove, IInv, TypeOK, StepsFitPool, StepFits, BoxesFitSteps
<1>b. /\ ghost'.forced = ghost.forced /\ ghost'.burst = ghost.burst
      /\ ghost.refused \subseteq ghost'.refused /\ ghost.vanished \subseteq ghost'.vanished
      /\ ghost'.orphaned = ghost.orphaned
      /\ UNCHANGED <<days, boots>> /\ trouble' \in 0..MaxTrouble /\ GhostOK'
  <2>1. UNCHANGED <<days, boots>> /\ trouble' \in 0..MaxTrouble
    BY AgentAssumption DEF Remove, Fault, Calm, bounds, IInv, TypeOK
  <2>2. \/ ghost' = ghost
        \/ ghost' = [ghost EXCEPT !.refused = @ \cup {w}]
        \/ ghost' = [ghost EXCEPT !.refused = @ \cup {w}, !.vanished = @ \cup {w}]
    BY DEF Remove
  <2> QED BY <2>1, <2>2, RefusalNoted DEF IInv
<1>c. \E l \in {"stopped", "stuck"} :
        /\ step' = [step EXCEPT ![w] = l]
        /\ \A v \in Workers \ {w} : /\ held'[v] = held[v] /\ box'[v] = box[v]
                                    /\ stopping'[v] = stopping[v]
        /\ l = "stopped" => ~held'[w] /\ ~box'[w]
        /\ l = "stuck" => /\ held'[w] /\ (box'[w] \/ w \in ghost'.vanished)
                          /\ w \in ghost'.refused \cup (ghost.forced \ Codex)
  <2>1. CASE Calm /\ DockerRuns(w) /\ step' = [step EXCEPT ![w] = "stopped"]
             /\ UNCHANGED held /\ UNCHANGED stopping /\ box' = [box EXCEPT ![w] = FALSE]
    BY <1>a, <2>1 DEF IInv, TypeOK
  <2>2. CASE Restore(w) /\ UNCHANGED box /\ ghost' = [ghost EXCEPT !.refused = @ \cup {w}]
    <3>1. w \in ghost'.refused
      BY <2>2 DEF IInv, GhostOK
    <3> QED BY <1>a, <2>2, <3>1 DEF Restore, IInv, TypeOK
  <2>3. CASE /\ Restore(w) /\ box' = [box EXCEPT ![w] = FALSE]
             /\ ghost' = [ghost EXCEPT !.refused = @ \cup {w}, !.vanished = @ \cup {w}]
    <3>1. w \in ghost'.refused /\ w \in ghost'.vanished
      BY <2>3 DEF IInv, GhostOK
    <3> QED BY <1>a, <2>3, <3>1 DEF Restore, IInv, TypeOK
  <2>4. CASE Restore(w) /\ UNCHANGED box /\ ~DockerRuns(w)
    BY <1>a, <2>4 DEF Restore, DockerRuns, IInv, TypeOK
  <2> QED BY <2>1, <2>2, <2>3, <2>4 DEF Remove
<1>d. \A v \in Workers : step'[v] = IF v = w THEN step'[w] ELSE step[v]
  BY <1>c
<1>e. step'[w] \in {"stopped", "stuck"}
  BY <1>c DEF IInv, TypeOK
<1>g. step'[w] = "stuck" => /\ w \in ghost'.refused \cup (ghost.forced \ Codex)
                            /\ box'[w] \/ w \in ghost'.vanished
  BY <1>c DEF IInv, TypeOK
<1>h. (held'[w] <=> step'[w] = "stuck") /\ (box'[w] => step'[w] = "stuck")
  BY <1>c DEF IInv, TypeOK
<1>i. \A v \in Workers \ {w} : held'[v] = held[v] /\ box'[v] = box[v]
  BY <1>c
<1>1. TypeOK'
  <2>1. /\ held' \in [Workers -> BOOLEAN] /\ box' \in [Workers -> BOOLEAN]
        /\ dir' \in [Workers -> {"none", "bare", "owned"}] /\ stopping' \in [Workers -> BOOLEAN]
    BY DEF Remove, Restore, IInv, TypeOK
  <2>2. step' \in [Workers -> {"off", "mkdir", "owner", "run", "up", "broken",
                               "wait", "remove", "stopped", "stuck"}]
    BY <1>c DEF IInv, TypeOK
  <2> QED BY <1>0, <1>a, <1>b, <2>1, <2>2 DEF IInv, TypeOK, CallsStay
<1>2. GhostOK'
  BY <1>b
<1>3. StepsFitPool'
  BY <1>0, AgentAssumption, MembersOf DEF Remove, Restore, StepsFitPool, IInv, TypeOK,
         StepFits, Alive
<1>4. DeadHasNothing'
  BY <1>0, AgentAssumption, MembersOf DEF Remove, DeadHasNothing, IInv, StepsFitPool,
     Alive
<1>5. BoxesFitSteps'
  <2> SUFFICES ASSUME NEW v \in Workers
               PROVE  /\ step'[v] \in {"up", "wait", "remove"} => box'[v]
                      /\ step'[v] = "stuck" =>
                           /\ box'[v] \/ v \in ghost'.vanished
                           /\ v \in ghost'.refused \cup (ghost'.forced \ Codex)
                      /\ Alive' /\ box'[v] =>
                           \/ step'[v] \in {"up", "wait", "remove", "stuck"}
                           \/ step'[v] = "broken" /\ v \in ghost'.orphaned
                      /\ held'[v] <=> step'[v] \in {"up", "stuck"}
                      /\ waiter'[v] # "none" => step'[v] \in {"wait", "remove", "stopped", "stuck"}
    BY DEF BoxesFitSteps
  <2>1. CASE v = w
    BY <2>1, <1>b, <1>e, <1>g, <1>h
  <2>2. CASE v # w
    BY <2>2, <1>a, <1>b, <1>d, <1>i DEF IInv, BoxesFitSteps
  <2> QED BY <2>1, <2>2
<1>6. SessionsHaveBox'
  <2>1. w \notin ghost.forced => \A c \in Callers :
          call[c].on = w => call[c].at \notin {"admitted", "running"}
    BY <1>a DEF IInv, RemovedIsDrained
  <2>2. \A c \in Callers : call[c].at \in {"admitted", "running"} => call[c].on \in Workers
    BY DEF IInv, TypeOK, CallsAreCounted, Counted
  <2> QED BY <1>0, <1>b, <1>i, <2>1, <2>2 DEF IInv, SessionsHaveBox, CallsStay
<1>7. RemovedIsDrained'
  BY <1>0, <1>b, <1>d, <1>e DEF IInv, RemovedIsDrained, CallsStay
<1>8. WokenIsDrained'
  BY <1>0, <1>a, <1>b DEF IInv, WokenIsDrained, CallsStay
<1>9. NoContainerLeft'
  BY <1>a, <1>b, <1>i, MembersOf DEF NoContainerLeft, IInv
<1>10. AdmissionGuardsWait'
  BY <1>0, AgentAssumption, MembersOf DEF Remove, AdmissionGuardsWait, IInv, GhostOK
<1> QED
  BY <1>0, CountsStay, <1>1, <1>2, <1>3, <1>4, <1>5, <1>6, <1>7, <1>8, <1>9, <1>10
     DEF IInv

LEMMA StartPoolKeeps ==
  ASSUME IInv, NEW q \in Pools, StartPool(q)
  PROVE  IInv'
<1>0. CallsStay
  BY DEF StartPool, CallsStay
<1>1. TypeOK'
  BY <1>0, AgentAssumption, MembersOf DEF StartPool, Calm, TypeOK, IInv, bounds
<1>2. GhostOK'
  BY <1>0, AgentAssumption, MembersOf DEF StartPool, GhostOK, IInv
<1>3. StepsFitPool'
  BY <1>0, AgentAssumption, MembersOf DEF StartPool, StepsFitPool, IInv, TypeOK,
         StepFits, Alive
<1>4. DeadHasNothing'
  BY <1>0, AgentAssumption, MembersOf DEF StartPool, DeadHasNothing, Alive
<1>5. BoxesFitSteps'
  BY <1>0, AgentAssumption, MembersOf DEF StartPool, BoxesFitSteps, IInv, StepsFitPool,
         StepFits, Alive
<1>6. SessionsHaveBox'
  BY <1>0, AgentAssumption, MembersOf DEF StartPool, SessionsHaveBox, IInv
<1>7. RemovedIsDrained'
  BY <1>0, AgentAssumption, MembersOf DEF StartPool, RemovedIsDrained, IInv
<1>8. WokenIsDrained'
  BY <1>0, AgentAssumption, MembersOf DEF StartPool, WokenIsDrained, IInv
<1>9. NoContainerLeft'
  BY <1>0, AgentAssumption, MembersOf DEF StartPool, NoContainerLeft, IInv
<1>10. AdmissionGuardsWait'
  BY <1>0, AgentAssumption, MembersOf DEF StartPool, AdmissionGuardsWait, IInv
<1> QED
  BY <1>0, CountsStay, <1>1, <1>2, <1>3, <1>4, <1>5, <1>6, <1>7, <1>8, <1>9, <1>10
     DEF IInv

LEMMA PoolStartedKeeps ==
  ASSUME IInv, NEW q \in Pools, PoolStarted(q)
  PROVE  IInv'
<1>0. CallsStay
  BY DEF PoolStarted, CallsStay
<1>a. /\ pool[q] = "starting" /\ Alive /\ \A w \in Members(q) : step[w] \in {"up", "broken"}
      /\ UNCHANGED <<life, box, waiter, ghost, guard, bounds, dir>>
  BY DEF PoolStarted, Calm
<1>b. \/ /\ \A w \in Members(q) : step[w] = "up"
         /\ pool' = [pool EXCEPT ![q] = "ready"] /\ UNCHANGED <<step, stopping, held>>
      \/ pool' = [pool EXCEPT ![q] = "cleaning"] /\ BeginStop(Survivors(q))
  BY DEF PoolStarted
<1>c. ASSUME BeginStop(Survivors(q)), NEW w \in Workers
      PROVE  /\ w \in Members(q) => /\ step'[w] = IF step[w] = "up" THEN "wait" ELSE step[w]
                                    /\ ~held'[w]
             /\ w \notin Members(q) => step'[w] = step[w] /\ held'[w] = held[w]
  <2>1. held[w] <=> step[w] \in {"up", "stuck"}
    BY DEF IInv, BoxesFitSteps
  <2>2. w \in Survivors(q) <=> w \in Members(q) /\ step[w] = "up"
    BY DEF Survivors
  <2>3. /\ step'[w] = IF w \in Survivors(q) /\ held[w] THEN "wait" ELSE step[w]
        /\ held'[w] = (held[w] /\ w \notin Survivors(q))
    BY <1>c DEF BeginStop
  <2>4. w \in Members(q) => step[w] # "stuck"
    BY <1>a
  <2>5. held[w] \in BOOLEAN
    BY DEF IInv, TypeOK
  <2> QED BY <2>1, <2>2, <2>3, <2>4, <2>5
<1>1. TypeOK'
  <2>1. pool' \in [Pools -> {"new", "starting", "cleaning", "ready", "failed",
                              "stopping", "stopped"}]
    BY <1>b DEF IInv, TypeOK
  <2>2. step' \in [Workers -> {"off", "mkdir", "owner", "run", "up", "broken",
                               "wait", "remove", "stopped", "stuck"}]
    BY <1>b DEF BeginStop, IInv, TypeOK
  <2>3. held' \in [Workers -> BOOLEAN] /\ stopping' \in [Workers -> BOOLEAN]
    <3>1. CASE UNCHANGED <<stopping, held>>
      BY <3>1 DEF IInv, TypeOK
    <3>2. CASE BeginStop(Survivors(q))
      BY <3>2 DEF BeginStop
    <3> QED BY <1>b, <3>1, <3>2
  <2> QED BY <1>0, <1>a, <2>1, <2>2, <2>3 DEF IInv, TypeOK, CallsStay, bounds
<1>2. GhostOK'
  BY <1>0, AgentAssumption, MembersOf DEF PoolStarted, GhostOK, IInv
<1>3. StepsFitPool'
  <2>1. Alive' /\ \A w \in Workers : PoolOfWorker(w) \in Pools
    BY <1>a DEF Alive, PoolOfWorker, Pools
  <2>2. ASSUME NEW w \in Workers, w \notin Members(q)
        PROVE  StepFits(w, pool[PoolOfWorker(w)])'
    <3>1. pool'[PoolOfWorker(w)] = pool[PoolOfWorker(w)] /\ step'[w] = step[w]
      BY <1>b, <1>c, <2>1, <2>2, MembersOf DEF IInv, TypeOK
    <3> QED BY <1>a, <2>1, <3>1 DEF IInv, StepsFitPool, StepFits
  <2>3. ASSUME NEW w \in Workers, w \in Members(q)
        PROVE  StepFits(w, pool[PoolOfWorker(w)])'
    <3>1. PoolOfWorker(w) = q
      BY <2>3, MembersOf
    <3> QED BY <1>a, <1>b, <1>c, <2>3, <3>1 DEF IInv, TypeOK, StepFits
  <2> QED BY <2>1, <2>2, <2>3 DEF StepsFitPool
<1>4. DeadHasNothing'
  BY <1>0, AgentAssumption, MembersOf DEF PoolStarted, DeadHasNothing, Alive
<1>5. BoxesFitSteps'
  BY <1>a, <1>b, <1>c DEF IInv, BoxesFitSteps
<1>6. SessionsHaveBox'
  BY <1>0, AgentAssumption, MembersOf DEF PoolStarted, SessionsHaveBox, IInv
<1>7. RemovedIsDrained'
  BY <1>0, AgentAssumption, MembersOf DEF PoolStarted, BeginStop, RemovedIsDrained, IInv
<1>8. WokenIsDrained'
  BY <1>0, AgentAssumption, MembersOf DEF PoolStarted, WokenIsDrained, IInv
<1>9. NoContainerLeft'
  BY <1>0, AgentAssumption, MembersOf DEF PoolStarted, NoContainerLeft, IInv, TypeOK
<1>10. AdmissionGuardsWait'
  BY <1>0, AgentAssumption, MembersOf DEF PoolStarted, AdmissionGuardsWait, IInv
<1> QED
  BY <1>0, CountsStay, <1>1, <1>2, <1>3, <1>4, <1>5, <1>6, <1>7, <1>8, <1>9, <1>10
     DEF IInv

LEMMA StopPoolKeeps ==
  ASSUME IInv, NEW q \in Pools, StopPool(q)
  PROVE  IInv'
<1>0. CallsStay
  BY DEF StopPool, CallsStay
<1>a. /\ pool[q] = "ready" /\ Alive
      /\ UNCHANGED <<life, box, waiter, ghost, guard, bounds, dir>>
  BY DEF StopPool, Calm, Alive
<1>b. pool' = [pool EXCEPT ![q] = "stopping"] /\ \A w \in Members(q) : step[w] = "up"
  BY <1>a, MembersOf DEF StopPool, IInv, StepsFitPool, StepFits
<1>c. \A w \in Workers : /\ w \in Members(q) => step'[w] = "wait" /\ ~held'[w]
                         /\ w \notin Members(q) => step'[w] = step[w] /\ held'[w] = held[w]
  BY <1>b DEF StopPool, BeginStop, IInv, TypeOK, BoxesFitSteps
<1>1. TypeOK'
  BY <1>0, AgentAssumption, MembersOf DEF StopPool, BeginStop, Calm, TypeOK, IInv,
     bounds
<1>2. GhostOK'
  BY <1>0, AgentAssumption, MembersOf DEF StopPool, GhostOK, IInv
<1>3. StepsFitPool'
  <2>1. Alive' /\ \A w \in Workers : PoolOfWorker(w) \in Pools
    BY <1>a DEF Alive, PoolOfWorker, Pools
  <2>2. ASSUME NEW w \in Workers, w \notin Members(q)
        PROVE  StepFits(w, pool[PoolOfWorker(w)])'
    <3>1. pool'[PoolOfWorker(w)] = pool[PoolOfWorker(w)] /\ step'[w] = step[w]
      BY <1>b, <1>c, <2>1, <2>2, MembersOf
    <3> QED BY <1>a, <2>1, <3>1 DEF IInv, StepsFitPool, StepFits
  <2>3. ASSUME NEW w \in Workers, w \in Members(q)
        PROVE  StepFits(w, pool[PoolOfWorker(w)])'
    <3>1. PoolOfWorker(w) = q
      BY <2>3, MembersOf
    <3> QED BY <1>a, <1>b, <1>c, <2>3, <3>1 DEF IInv, TypeOK, StepFits
  <2> QED BY <2>1, <2>2, <2>3 DEF StepsFitPool
<1>4. DeadHasNothing'
  BY <1>0, AgentAssumption, MembersOf DEF StopPool, DeadHasNothing, Alive
<1>5. BoxesFitSteps'
  BY <1>a, <1>b, <1>c, MembersOf DEF IInv, TypeOK, BoxesFitSteps
<1>6. SessionsHaveBox'
  BY <1>0, AgentAssumption, MembersOf DEF StopPool, SessionsHaveBox, IInv
<1>7. RemovedIsDrained'
  BY <1>0, AgentAssumption, MembersOf DEF StopPool, BeginStop, RemovedIsDrained, IInv
<1>8. WokenIsDrained'
  BY <1>0, AgentAssumption, MembersOf DEF StopPool, WokenIsDrained, IInv
<1>9. NoContainerLeft'
  BY <1>0, AgentAssumption, MembersOf DEF StopPool, NoContainerLeft, IInv
<1>10. AdmissionGuardsWait'
  BY <1>0, AgentAssumption, MembersOf DEF StopPool, AdmissionGuardsWait, IInv
<1> QED
  BY <1>0, CountsStay, <1>1, <1>2, <1>3, <1>4, <1>5, <1>6, <1>7, <1>8, <1>9, <1>10
     DEF IInv

LEMMA PoolStoppedKeeps ==
  ASSUME IInv, NEW q \in Pools, PoolStopped(q)
  PROVE  IInv'
<1>0. CallsStay
  BY DEF PoolStopped, CallsStay
<1>a. \A w \in Members(q) :
        box[w] => w \in ghost.refused \cup (ghost.forced \ Codex) \cup ghost.orphaned
  BY MembersOf DEF PoolStopped, IInv, StepsFitPool, StepFits, BoxesFitSteps
<1>1. TypeOK'
  BY <1>0, AgentAssumption, MembersOf DEF PoolStopped, Calm, TypeOK, IInv, bounds,
     docker
<1>2. GhostOK'
  BY <1>0, AgentAssumption, MembersOf DEF PoolStopped, GhostOK, IInv
<1>3. StepsFitPool'
  BY <1>0, AgentAssumption, MembersOf DEF PoolStopped, StepsFitPool, IInv, StepFits,
         Alive, docker
<1>4. DeadHasNothing'
  BY <1>0, AgentAssumption, MembersOf DEF PoolStopped, DeadHasNothing, Alive
<1>5. BoxesFitSteps'
  BY <1>0, AgentAssumption, MembersOf DEF PoolStopped, BoxesFitSteps, IInv, docker
<1>6. SessionsHaveBox'
  BY <1>0, AgentAssumption, MembersOf DEF PoolStopped, SessionsHaveBox, IInv, docker
<1>7. RemovedIsDrained'
  BY <1>0, AgentAssumption, MembersOf DEF PoolStopped, RemovedIsDrained, IInv, docker
<1>8. WokenIsDrained'
  BY <1>0, AgentAssumption, MembersOf DEF PoolStopped, WokenIsDrained, IInv, docker
<1>9. NoContainerLeft'
  BY <1>a DEF PoolStopped, NoContainerLeft, IInv, docker
<1>10. AdmissionGuardsWait'
  BY <1>0, AgentAssumption, MembersOf DEF PoolStopped, AdmissionGuardsWait, IInv
<1> QED
  BY <1>0, CountsStay, <1>1, <1>2, <1>3, <1>4, <1>5, <1>6, <1>7, <1>8, <1>9, <1>10
     DEF IInv

LEMMA ReturnWaitKeeps ==
  ASSUME IInv, NEW w \in Workers, ReturnWait(w)
  PROVE  IInv'
<1>1. CASE wg[w] > 0
  <2>1. Perish("dead") /\ ghost' = [ghost EXCEPT !.burst = @ \cup {w}] /\ UNCHANGED bounds
    BY <1>1 DEF ReturnWait, Calm
  <2>2. GhostOK'
    BY <2>1 DEF IInv, GhostOK
  <2>3. w \in Codex => w \in ghost.refused
    BY <1>1 DEF ReturnWait, IInv, WokenIsDrained
  <2>4. /\ ghost'.forced = ghost.forced /\ ghost'.refused = ghost.refused
        /\ ghost'.orphaned = ghost.orphaned /\ ghost'.burst = ghost.burst \cup {w}
    BY <2>1 DEF IInv, GhostOK
  <2>5. ghost'.burst \cap Codex \subseteq ghost.refused
    BY <2>3, <2>4 DEF IInv, AdmissionGuardsWait
  <2> QED BY <2>1, <2>2, <2>4, <2>5, PerishKeeps DEF bounds, IInv, TypeOK
<1>2. CASE wg[w] = 0
  <2>0. /\ CallsStay /\ UNCHANGED <<life, pool, held, stopping, box, dir, guard, ghost, bounds>>
        /\ waiter' = [waiter EXCEPT ![w] = "none"]
        /\ step' = [step EXCEPT ![w] = IF @ = "wait" THEN "remove" ELSE @]
    BY <1>2 DEF ReturnWait, CallsStay, Calm
  <2>1. TypeOK' /\ GhostOK'
    BY <2>0 DEF IInv, TypeOK, GhostOK, CallsStay, bounds
  <2>2. \A v \in Workers :
          /\ step'[v] = IF v = w /\ step[w] = "wait" THEN "remove" ELSE step[v]
          /\ waiter'[v] = IF v = w THEN "none" ELSE waiter[v]
    BY <2>0 DEF IInv, TypeOK
  <2>3. StepsFitPool' /\ NoContainerLeft' /\ AdmissionGuardsWait'
    BY <2>0, <2>2 DEF IInv, StepsFitPool, StepFits, Alive, NoContainerLeft,
           AdmissionGuardsWait
  <2>4. DeadHasNothing' /\ BoxesFitSteps' /\ SessionsHaveBox'
    BY <2>0, <2>2 DEF IInv, DeadHasNothing, BoxesFitSteps, SessionsHaveBox, Alive,
       CallsStay
  <2>5. RemovedIsDrained'
    <3>1. On(w) = {}
      BY <1>2, OnIsFinite, FS_EmptySet DEF IInv, CallsAreCounted
    <3>2. \A c \in Callers : call[c].on # w
      BY <3>1, AgentAssumption DEF On, IInv, CallsAreCounted
    <3> QED BY <2>0, <2>2, <3>2 DEF RemovedIsDrained, IInv, CallsStay
  <2>6. WokenIsDrained'
    BY <2>0, <2>2, AgentAssumption DEF IInv, WokenIsDrained, CallsStay
  <2> QED BY <2>0, <2>1, <2>3, <2>4, <2>5, <2>6, CountsStay DEF IInv
<1> QED BY <1>1, <1>2 DEF ReturnWait

(* The process goes on: its workers and callers stay as they are. *)
LEMMA LifeKeeps ==
  ASSUME IInv, GoUp \/ Signal \/ StagesStopped
  PROVE  IInv'
<1>1. /\ Alive /\ life' \in {"up", "drain", "pools"}
      /\ UNCHANGED <<pool, docker, wg, call, guard, ghost, days, boots>>
      /\ trouble' \in 0..MaxTrouble
  BY AgentAssumption DEF GoUp, Signal, StagesStopped, Calm, Fault, bounds, Alive, IInv,
         TypeOK
<1>2. Alive' /\ CallsStay
  BY <1>1 DEF Alive, CallsStay
<1>3. TypeOK' /\ GhostOK'
  BY <1>1 DEF IInv, TypeOK, GhostOK, docker
<1>4. StepsFitPool' /\ DeadHasNothing' /\ BoxesFitSteps' /\ NoContainerLeft'
  BY <1>1, <1>2 DEF IInv, StepsFitPool, StepFits, DeadHasNothing, BoxesFitSteps,
         NoContainerLeft, docker
<1>5. SessionsHaveBox' /\ RemovedIsDrained' /\ WokenIsDrained' /\ AdmissionGuardsWait'
  BY <1>1 DEF IInv, SessionsHaveBox, RemovedIsDrained, WokenIsDrained,
         AdmissionGuardsWait, docker
<1> QED BY <1>2, <1>3, <1>4, <1>5, CountsStay DEF IInv

LEMMA StutterKeeps ==
  ASSUME IInv, UNCHANGED vars
  PROVE  IInv'
<1>1. TypeOK' /\ GhostOK' /\ WorkersStay /\ UNCHANGED <<wg, call, waiter>>
  BY DEF vars, docker, bounds, IInv, TypeOK, GhostOK, WorkersStay
<1> QED BY <1>1, GuardAlone

LEMMA NextKeeps == IInv /\ [Next]_vars => IInv'
<1> SUFFICES ASSUME IInv, [Next]_vars PROVE IInv'
  OBVIOUS
<1>1. CASE Docker
  BY <1>1, MakeDirKeeps, WriteOwnerKeeps, RunContainerKeeps, EnterWaitKeeps,
     ReturnWaitKeeps,
     WaitExpiresKeeps, RemoveKeeps DEF Docker
<1>2. CASE Pooling
  BY <1>2, StartPoolKeeps, PoolStartedKeeps, PoolStoppedKeeps, StopPoolKeeps DEF Pooling
<1>3. CASE Session
  BY <1>3, PickKeeps, ReadIDKeeps, EnterSessionKeeps, EndSessionKeeps DEF Session
<1>4. CASE Work
  BY <1>4, AllowKeeps, AnswerKeeps, GenerateKeeps DEF Work
<1>5. CASE Process
  BY <1>5, LifeKeeps, EndKeeps, BootKeeps DEF Process
<1>6. CASE LagExpires \/ Midnight
  BY <1>6, ClockKeeps
<1> QED BY <1>1, <1>2, <1>3, <1>4, <1>5, <1>6, StutterKeeps DEF Next

LEMMA IInvHolds == Spec => []IInv
BY InitIInv, NextKeeps, PTL DEF Spec

(* The agents' state keeps its types: a WaitGroup counts the sessions on   *)
(* its worker and no others, so it is never negative and Wait never misses *)
(* or outwaits a session; the cost guard never counts past its limit.      *)
THEOREM AgentTypes == Spec => []TypeOK
BY IInvHolds, PTL DEF IInv

(* worker.Stop and Extract: a session that is running has its container,   *)
(* unless the wait for it was cut short by Stop's context, or the worker's *)
(* docker rm has failed with the container gone.                           *)
THEOREM SessionsHaveContainers == Spec => []SessionsKeepContainer
<1>1. IInv => SessionsKeepContainer
  BY DEF IInv, SessionsHaveBox, SessionsKeepContainer
<1> QED BY <1>1, IInvHolds, PTL

(* Pool.Start and Pool.Stop: a pool that has failed to start or is stopped *)
(* has left a container behind only where docker refused to remove it, the *)
(* wait for a claude worker was cut short, or docker run has failed with   *)
(* the container there.                                                    *)
THEOREM PoolsLeaveNoContainer == Spec => []NoContainerLeft
BY IInvHolds, PTL DEF IInv

(* codex.Worker.admit: no Wait of a codex worker panics over a session     *)
(* counted after it was woken, while docker removes what it is told to.    *)
THEOREM CodexWaitIsSafe == Spec => []AdmissionGuardsWait
BY IInvHolds, PTL DEF IInv

-----------------------------------------------------------------------------
(* The sessions of a day and the budget of the cost guard.                 *)
(* The cost guard counts pages and the pool counts sessions: what a page   *)
(* that has passed the guard may still run is one session of each kind     *)
(* that its current session does not come after.                           *)
MayRun(s) ==
  {c \in Pages : /\ UnderWay(c) /\ s \in Enabled
                 /\ Order[s] >= Order[call[c].of]
                 /\ ~(s = call[c].of /\ call[c].at = "running")}
Outstanding == Cardinality(MayRun("extract")) + Cardinality(MayRun("verify"))
                 + Cardinality(MayRun("context")) + Cardinality(MayRun("score"))

(* The sessions that the pages let through today may add up to, by page:   *)
(* the limit of every earlier process of the day, what this one has let    *)
(* through, and the pages that were under way at midnight.                 *)
CoveredToday == DailyLimit * (ghost.starts - 1) + CountToday + ghost.carried

(* What is opened and what may still be opened is covered. *)
OfEnabled == \A c \in Pages : UnderWay(c) => call[c].of \in Enabled
Covered ==
  /\ ghost.starts >= 1
  /\ ghost.opened + Outstanding <= Cardinality(Enabled) * CoveredToday

One(s) == IF s \in Enabled THEN 1 ELSE 0

(* The sessions that are enabled are counted one by one. *)
LEMMA NumberEnabled ==
  Cardinality(Enabled) = One("extract") + One("verify") + One("context") + One("score")
<1>. DEFINE S1 == Enabled \cap {"extract"}
            S2 == Enabled \cap {"extract", "verify"}
            S3 == Enabled \cap {"extract", "verify", "context"}
<1>1. IsFiniteSet(S1) /\ Cardinality(S1) = One("extract")
  <2>1. S1 = {"extract"}
    BY EnrichFactsAssumption
  <2>. QED  BY <2>1, FS_Singleton, EnrichFactsAssumption DEF One
<1>2. ASSUME NEW S, NEW s, IsFiniteSet(S), s \notin S, Cardinality(S) \in Nat,
             NEW T, T = IF s \in Enabled THEN S \cup {s} ELSE S
      PROVE  IsFiniteSet(T) /\ Cardinality(T) = Cardinality(S) + One(s)
  <2>1. CASE s \in Enabled
    BY <1>2, <2>1, FS_AddElement DEF One
  <2>2. CASE s \notin Enabled
    BY <1>2, <2>2 DEF One
  <2>. QED  BY <2>1, <2>2
<1>3. S2 = IF "verify" \in Enabled THEN S1 \cup {"verify"} ELSE S1
  OBVIOUS
<1>4. S3 = IF "context" \in Enabled THEN S2 \cup {"context"} ELSE S2
  OBVIOUS
<1>5. Enabled = IF "score" \in Enabled THEN S3 \cup {"score"} ELSE S3
  BY EnrichFactsAssumption DEF Sessions
<1>6. "verify" \notin S1 /\ "context" \notin S2 /\ "score" \notin S3
  OBVIOUS
<1>7. \A s : One(s) \in Nat
  BY DEF One
<1>. HIDE DEF S1, S2, S3
<1>8. IsFiniteSet(S2) /\ Cardinality(S2) = Cardinality(S1) + One("verify")
  BY <1>1, <1>2, <1>3, <1>6, <1>7
<1>9. IsFiniteSet(S3) /\ Cardinality(S3) = Cardinality(S2) + One("context")
  BY <1>1, <1>2, <1>4, <1>6, <1>7, <1>8
<1>10. Cardinality(Enabled) = Cardinality(S3) + One("score")
  BY <1>1, <1>2, <1>5, <1>6, <1>7, <1>8, <1>9
<1>. QED  BY <1>1, <1>8, <1>9, <1>10

(* The enrich worker never turns back: what follows a session is enabled   *)
(* and comes later in the order of extract, verify, context and score.     *)
LEMMA FollowLater ==
  ASSUME NEW s \in Sessions, NEW ok \in BOOLEAN, NEW t \in Follow[s][ok], t # "done"
  PROVE  t \in Enabled /\ Order[t] > Order[s]
<1>1. PICK r \in Courses : t \in NextIn(s, r)
  BY DEF Follow
<1>2. t \in Called(r) /\ Order[t] > Order[s]
  BY <1>1 DEF NextIn
<1>. QED  BY <1>2 DEF Called

(* Every session has its number in that order. *)
LEMMA Orders == \A s \in Sessions : Order[s] \in Nat
BY DEF Order, Sessions

(* The pages that may run a session are finitely many, and none is there   *)
(* for a session that has no implementation.                               *)
LEMMA MayRunFinite ==
  \A s : /\ IsFiniteSet(MayRun(s)) /\ Cardinality(MayRun(s)) \in Nat
         /\ s \notin Enabled => Cardinality(MayRun(s)) = 0
<1>. SUFFICES ASSUME NEW s
              PROVE  /\ IsFiniteSet(MayRun(s)) /\ Cardinality(MayRun(s)) \in Nat
                     /\ s \notin Enabled => Cardinality(MayRun(s)) = 0
  OBVIOUS
<1>1. MayRun(s) \subseteq Pages /\ (s \notin Enabled => MayRun(s) = {})
  BY DEF MayRun
<1>. QED  BY <1>1, AgentAssumption, FS_Subset, FS_CardinalityType, FS_EmptySet

(* And so they are after a step. *)
LEMMA MayRunFiniteNext ==
  (\A s : /\ IsFiniteSet(MayRun(s)) /\ Cardinality(MayRun(s)) \in Nat
          /\ s \notin Enabled => Cardinality(MayRun(s)) = 0)'
BY MayRunFinite, PTL

(* A page keeps its session, goes on to a later one or is done with them.  *)
Later(c) ==
  UnderWay(c)' =>
    /\ call'[c].of \in Enabled /\ UnderWay(c)
    /\ \/ call'[c].of = call[c].of /\ (call[c].at = "running" => call'[c].at = "running")
       \/ Order[call'[c].of] > Order[call[c].of]
SameDay == /\ ghost'.starts = ghost.starts /\ ghost'.carried = ghost.carried

(* What a step does to the count of sessions: nothing, let a page past the *)
(* guard, open a session, begin a day, or begin a process.                 *)
Quietly == /\ SameDay /\ ghost'.opened = ghost.opened /\ CountToday' = CountToday
           /\ \A c \in Pages : Later(c)
Passes(c) == /\ SameDay /\ ghost'.opened = ghost.opened /\ CountToday' = CountToday + 1
             /\ ~UnderWay(c) /\ (UnderWay(c)' => call'[c].of \in Enabled)
             /\ \A d \in Pages \ {c} : call'[d] = call[d]
Opens(c) == /\ SameDay /\ ghost'.opened = ghost.opened + 1 /\ CountToday' = CountToday
            /\ call[c].at = "admitted" /\ call'[c].at = "running"
            /\ call'[c].of = call[c].of
            /\ \A d \in Pages \ {c} : call'[d] = call[d]
NewDay == /\ ghost'.opened = 0 /\ ghost'.starts = 1 /\ CountToday' = 0 /\ UNCHANGED call
          /\ ghost'.carried = Cardinality({c \in Pages : UnderWay(c)})
NewProcess == /\ ghost'.opened = ghost.opened /\ ghost'.starts = ghost.starts + 1
              /\ ghost'.carried = ghost.carried /\ CountToday' = 0 /\ UNCHANGED call
SpendsOrNot == \/ Quietly \/ NewDay \/ NewProcess
           \/ \E c \in Pages : Passes(c) \/ Opens(c)

(* Multiplying by a number of sessions keeps an order. *)
LEMMA Multiplied ==
  ASSUME NEW a \in Nat, NEW x \in Int, NEW y \in Int, x <= y
  PROVE  a * x <= a * y
<1>1. y - x \in Nat /\ a * y = a * x + a * (y - x)
  OBVIOUS
<1>2. a * (y - x) \in Nat
  BY <1>1
<1>. QED  BY <1>1, <1>2

(* Each of the five leaves what is opened, and what may still be, covered: *)
(* a page let through is covered by one more of the count, and a session   *)
(* moves from what may be opened to what is.                               *)
LEMMA CoveredStays ==
  ASSUME TypeOK, TypeOK', GhostOK, GhostOK', OfEnabled, Covered, SpendsOrNot
  PROVE  OfEnabled' /\ Covered'
<1>. DEFINE n == Cardinality(Enabled)
            m(s) == Cardinality(MayRun(s))
<1>0. /\ n \in Nat /\ n = One("extract") + One("verify") + One("context") + One("score")
      /\ \A s : One(s) \in {0, 1} /\ m(s) \in Nat /\ m(s)' \in Nat
               /\ (s \notin Enabled => m(s) = 0 /\ m(s)' = 0)
      /\ ghost.opened \in Nat /\ ghost.starts \in Nat /\ ghost.carried \in Nat
      /\ ghost'.opened \in Nat /\ ghost'.starts \in Nat /\ ghost'.carried \in Nat
      /\ CountToday \in 0..DailyLimit /\ CountToday' \in 0..DailyLimit /\ DailyLimit \in Nat
  <2>1. \A s : One(s) \in {0, 1}
    BY DEF One
  <2>2. n = One("extract") + One("verify") + One("context") + One("score")
    BY NumberEnabled
  <2>3. \A s : m(s) \in Nat /\ (s \notin Enabled => m(s) = 0)
    BY MayRunFinite
  <2>4. \A s : m(s)' \in Nat /\ (s \notin Enabled => m(s)' = 0)
    BY MayRunFiniteNext
  <2>5. CountToday \in 0..DailyLimit /\ CountToday' \in 0..DailyLimit
    BY AgentAssumption DEF CountToday, TypeOK
  <2>6. n \in Nat
    BY <2>1, <2>2
  <2>. QED  BY <2>1, <2>2, <2>3, <2>4, <2>5, <2>6, AgentAssumption DEF GhostOK
<1>1. ghost.starts >= 1 /\ ghost.opened + Outstanding <= n * CoveredToday
  BY DEF Covered
<1>2. /\ Outstanding = m("extract") + m("verify") + m("context") + m("score")
      /\ Outstanding' = m("extract")' + m("verify")' + m("context")' + m("score")'
  BY DEF Outstanding
<1>. HIDE DEF n, m
<1>3. CASE Quietly
  <2>1. OfEnabled'
    BY <1>3 DEF Quietly, Later, OfEnabled
  <2>2. ASSUME NEW s \in Sessions  PROVE m(s)' <= m(s)
    <3>1. MayRun(s)' \subseteq MayRun(s)
      <4>. SUFFICES ASSUME NEW c \in Pages, c \in MayRun(s)'  PROVE c \in MayRun(s)
        BY DEF MayRun
      <4>1. /\ UnderWay(c)' /\ s \in Enabled /\ Order[s] >= Order[call'[c].of]
            /\ ~(s = call'[c].of /\ call'[c].at = "running")
        BY DEF MayRun
      <4>2. call[c].of \in Sessions /\ call'[c].of \in Sessions
        BY DEF TypeOK, Callers
      <4>. QED  BY <1>3, <4>1, <4>2, Orders DEF Quietly, Later, MayRun
    <3>. QED  BY <3>1, MayRunFinite, FS_Subset DEF m
  <2>3. Outstanding' <= Outstanding
    BY <1>0, <1>2, <2>2 DEF Sessions
  <2>4. CoveredToday' = CoveredToday
    BY <1>3 DEF Quietly, SameDay, CoveredToday
  <2>5. Outstanding \in Nat /\ Outstanding' \in Nat /\ n * CoveredToday \in Int
    BY <1>0, <1>2 DEF CoveredToday
  <2>6. ghost'.opened = ghost.opened /\ ghost'.starts = ghost.starts
    BY <1>3 DEF Quietly, SameDay
  <2>7. ghost'.opened + Outstanding' <= n * CoveredToday'
    BY <1>0, <1>1, <2>3, <2>4, <2>5, <2>6
  <2>. QED  BY <1>1, <2>1, <2>6, <2>7 DEF Covered, n
<1>4. ASSUME NEW p \in Pages, Passes(p)
      PROVE  OfEnabled' /\ Covered'
  <2>1. OfEnabled'
    BY <1>4 DEF Passes, OfEnabled, UnderWay
  <2>2. ASSUME NEW s \in Sessions  PROVE m(s)' <= m(s) + One(s)
    <3>1. MayRun(s)' \subseteq MayRun(s) \cup {p}
      BY <1>4 DEF Passes, MayRun, UnderWay
    <3>2. IsFiniteSet(MayRun(s)) /\ p \notin MayRun(s)
      BY <1>4, MayRunFinite DEF Passes, MayRun
    <3>3. /\ IsFiniteSet(MayRun(s) \cup {p})
          /\ Cardinality(MayRun(s) \cup {p}) = Cardinality(MayRun(s)) + 1
      BY <3>2, FS_AddElement
    <3>4. Cardinality(MayRun(s)') <= Cardinality(MayRun(s) \cup {p})
      BY <3>1, <3>3, FS_Subset
    <3>5. s \notin Enabled => m(s)' = 0
      BY <1>0
    <3>6. m(s) = Cardinality(MayRun(s)) /\ m(s)' = Cardinality(MayRun(s)')
      BY DEF m
    <3>7. m(s)' <= m(s) + 1 /\ m(s) \in Nat
      BY <1>0, <3>3, <3>4, <3>6
    <3>. QED  BY <3>5, <3>7 DEF One
  <2>3. Outstanding' <= Outstanding + n
    BY <1>0, <1>2, <2>2 DEF Sessions
  <2>4. CoveredToday' = CoveredToday + 1 /\ CoveredToday \in Int
    BY <1>0, <1>4 DEF Passes, SameDay, CoveredToday
  <2>5. n * (CoveredToday + 1) = n * CoveredToday + n
    BY <1>0, <2>4
  <2>6. ghost'.opened = ghost.opened /\ ghost'.starts = ghost.starts
    BY <1>4 DEF Passes, SameDay
  <2>7. Outstanding \in Nat /\ Outstanding' \in Nat /\ n * CoveredToday \in Int
    BY <1>0, <1>2, <2>4
  <2>8. ghost'.opened + Outstanding' <= n * CoveredToday'
    BY <1>0, <1>1, <2>3, <2>4, <2>5, <2>6, <2>7
  <2>. QED  BY <1>1, <2>1, <2>6, <2>8 DEF Covered, n
<1>5. ASSUME NEW p \in Pages, Opens(p)
      PROVE  OfEnabled' /\ Covered'
  <2>1. OfEnabled' /\ call[p].of \in Enabled
    BY <1>5 DEF Opens, OfEnabled, UnderWay
  <2>2. ASSUME NEW s \in Sessions
        PROVE  m(s)' <= m(s) /\ (s = call[p].of => m(s)' = m(s) - 1)
    <3>1. CASE s = call[p].of
      <4>1. p \in MayRun(s) /\ MayRun(s)' = MayRun(s) \ {p}
        BY <1>5, <2>1, <3>1, Orders DEF Opens, MayRun, UnderWay
      <4>2. Cardinality(MayRun(s) \ {p}) = Cardinality(MayRun(s)) - 1
        BY <4>1, MayRunFinite, FS_RemoveElement
      <4>. QED  BY <1>0, <4>1, <4>2 DEF m
    <3>2. CASE s # call[p].of
      <4>1. MayRun(s)' = MayRun(s)
        BY <1>5, <3>2 DEF Opens, MayRun, UnderWay
      <4>. QED  BY <1>0, <3>2, <4>1 DEF m
    <3>. QED  BY <3>1, <3>2
  <2>3. call[p].of \in Sessions
    BY DEF TypeOK, Callers
  <2>4. Outstanding' <= Outstanding - 1
    BY <1>0, <1>2, <2>2, <2>3 DEF Sessions
  <2>5. CoveredToday' = CoveredToday /\ CoveredToday \in Int
    BY <1>0, <1>5 DEF Opens, SameDay, CoveredToday
  <2>6. ghost'.opened = ghost.opened + 1 /\ ghost'.starts = ghost.starts
    BY <1>5 DEF Opens, SameDay
  <2>7. Outstanding \in Nat /\ Outstanding' \in Nat /\ n * CoveredToday \in Int
    BY <1>0, <1>2, <2>5
  <2>8. ghost'.opened + Outstanding' <= n * CoveredToday'
    BY <1>0, <1>1, <2>4, <2>5, <2>6, <2>7
  <2>. QED  BY <1>1, <2>1, <2>6, <2>8 DEF Covered, n
<1>6. CASE NewDay
  <2>. DEFINE w == Cardinality({c \in Pages : UnderWay(c)})
  <2>1. IsFiniteSet({c \in Pages : UnderWay(c)}) /\ w \in Nat
    <3>1. {c \in Pages : UnderWay(c)} \subseteq Pages
      OBVIOUS
    <3>. QED  BY <3>1, AgentAssumption, FS_Subset, FS_CardinalityType
  <2>2. OfEnabled'
    BY <1>6 DEF NewDay, OfEnabled, UnderWay
  <2>3. ASSUME NEW s \in Sessions  PROVE m(s)' <= One(s) * w
    <3>1. MayRun(s)' = MayRun(s) /\ MayRun(s) \subseteq {c \in Pages : UnderWay(c)}
      BY <1>6 DEF NewDay, MayRun, UnderWay
    <3>2. m(s)' = m(s) /\ m(s) <= w
      BY <2>1, <3>1, FS_Subset DEF m
    <3>. HIDE DEF w
    <3>. QED  BY <1>0, <2>1, <3>2 DEF One
  <2>4. ghost'.opened = 0 /\ ghost'.starts = 1 /\ CoveredToday' = w
    BY <1>0, <1>6, <2>1 DEF NewDay, CoveredToday
  <2>. HIDE DEF w
  <2>5. n * w = One("extract") * w + One("verify") * w
                  + One("context") * w + One("score") * w
    BY <1>0, <2>1
  <2>6. Outstanding' <= n * w
    <3>1. \A s : One(s) * w \in Nat
      BY <1>0, <2>1
    <3>. QED  BY <1>0, <1>2, <2>3, <2>5, <3>1 DEF Sessions
  <2>. QED  BY <1>0, <1>2, <2>2, <2>4, <2>6 DEF Covered, n
<1>7. CASE NewProcess
  <2>1. OfEnabled' /\ Outstanding' = Outstanding
    BY <1>7 DEF NewProcess, OfEnabled, UnderWay, Outstanding, MayRun
  <2>2. DailyLimit * ghost.starts = DailyLimit * (ghost.starts - 1) + DailyLimit
    BY <1>0
  <2>3. /\ CoveredToday = DailyLimit * (ghost.starts - 1) + CountToday + ghost.carried
        /\ CoveredToday' = DailyLimit * ghost.starts + ghost.carried
    BY <1>0, <1>7 DEF NewProcess, CoveredToday
  <2>4. DailyLimit * (ghost.starts - 1) \in Int
    BY <1>0
  <2>5. CoveredToday \in Int /\ CoveredToday' \in Int /\ CoveredToday <= CoveredToday'
    BY <1>0, <2>2, <2>3, <2>4
  <2>6. n * CoveredToday <= n * CoveredToday'
    BY <1>0, <2>5, Multiplied
  <2>7. n * CoveredToday \in Int /\ n * CoveredToday' \in Int /\ Outstanding \in Nat
    BY <1>0, <1>2, <2>5
  <2>8. ghost'.opened = ghost.opened /\ ghost'.starts = ghost.starts + 1
    BY <1>7 DEF NewProcess
  <2>9. ghost'.opened + Outstanding' <= n * CoveredToday'
    BY <1>0, <1>1, <2>1, <2>6, <2>7, <2>8
  <2>. QED  BY <1>0, <1>1, <2>1, <2>8, <2>9 DEF Covered, n
<1>. QED  BY <1>3, <1>4, <1>5, <1>6, <1>7 DEF SpendsOrNot

(* The steps of callers: consumeDailyBudget lets a page through, ReadID,   *)
(* EndSession and the like take it on, EnterSession opens a session.       *)
SameCounts == /\ UNCHANGED guard /\ ghost'.opened = ghost.opened
              /\ ghost'.starts = ghost.starts /\ ghost'.carried = ghost.carried

(* A step that keeps the counts and moves no page but to its end is quiet. *)
LEMMA StaysQuiet ==
  ASSUME TypeOK, OfEnabled, SameCounts,
         \A c \in Pages : call'[c] = call[c] \/ call'[c] = Idle
  PROVE  Quietly
<1>1. \A c \in Pages : Later(c)
  BY DEF OfEnabled, Later, UnderWay, Idle
<1>. QED  BY <1>1 DEF SameCounts, Quietly, SameDay, CountToday

(* After a session a page goes on to a later one, or is done. *)
LEMMA AfterIsLater ==
  ASSUME TypeOK, OfEnabled, SameCounts,
         NEW c \in Callers, NEW ok \in BOOLEAN, UnderWay(c), After(c, ok)
  PROVE  Quietly
<1>1. CASE c \in Generations
  <2>1. \A d \in Pages : call'[d] = call[d]
    BY <1>1, AgentAssumption DEF After, TypeOK, Callers
  <2>. QED  BY <2>1, StaysQuiet
<1>2. CASE c \notin Generations
  <2>1. PICK s \in Follow[call[c].of][ok] :
          call' = [call EXCEPT ![c] = IF s = "done" THEN Idle ELSE NextIs(s)]
    BY <1>2 DEF After
  <2>2. CASE s = "done"
    BY <2>1, <2>2, StaysQuiet DEF TypeOK
  <2>3. CASE s # "done"
    <3>1. call[c].of \in Sessions
      BY DEF TypeOK
    <3>2. s \in Enabled /\ Order[s] > Order[call[c].of]
      BY <2>1, <2>3, <3>1, FollowLater
    <3>3. call'[c].of = s
      BY <2>1, <2>3 DEF TypeOK, NextIs, Idle
    <3>4. Later(c)
      BY <3>2, <3>3 DEF Later
    <3>5. \A d \in Pages \ {c} : Later(d)
      BY <2>1 DEF Later, TypeOK, OfEnabled, UnderWay
    <3>. QED  BY <3>4, <3>5 DEF SameCounts, Quietly, SameDay, CountToday
  <2>. QED  BY <2>2, <2>3
<1>. QED  BY <1>1, <1>2

(* consumeDailyBudget: a page that is let through is one more of the day's count. *)
LEMMA ConsumePasses ==
  ASSUME TypeOK, OfEnabled, NEW c \in Pages, NEW lag, Consume(c, lag), UNCHANGED ghost,
         call[c].at \in {"idle", "asking"}
  PROVE  SpendsOrNot
<1>1. SameDay /\ ghost'.opened = ghost.opened /\ ~UnderWay(c)
  BY DEF SameDay, UnderWay
<1>2. CASE Allows
  <2>1. CountToday' = CountToday + 1
    BY <1>2 DEF Consume, CountToday
  <2>2. PICK x \in {NextIs("extract"), Idle} : call' = [call EXCEPT ![c] = x]
    BY <1>2 DEF Consume
  <2>3. call'[c] = x /\ \A d \in Pages \ {c} : call'[d] = call[d]
    BY <2>2 DEF TypeOK, Callers
  <2>4. NextIs("extract").of = "extract" /\ Idle.of = "extract"
    BY DEF NextIs, Idle
  <2>5. call'[c].of \in Enabled
    BY <2>2, <2>3, <2>4, EnrichFactsAssumption
  <2>. QED  BY <1>1, <2>1, <2>3, <2>5 DEF Passes, SpendsOrNot
<1>3. CASE ~Allows
  <2>1. /\ guard' = [day |-> "today", count |-> CountToday, lag |-> lag]
        /\ call' = [call EXCEPT ![c] = Idle]
    BY <1>3 DEF Consume
  <2>2. CountToday' = CountToday
    BY <2>1 DEF CountToday
  <2>3. \A d \in Pages : call'[d] = call[d] \/ call'[d] = Idle
    BY <2>1 DEF TypeOK
  <2>4. \A d \in Pages : Later(d)
    BY <2>3 DEF OfEnabled, Later, UnderWay, Idle
  <2>. QED  BY <1>1, <2>2, <2>4 DEF Quietly, SpendsOrNot
<1>. QED  BY <1>2, <1>3

(* A session that is admitted, entered, ended or refused. *)
LEMMA SessionSpends ==
  ASSUME TypeOK, GhostOK, OfEnabled, Session
  PROVE  SpendsOrNot
<1>1. PICK c \in Callers, w \in Workers :
        Pick(c, w) \/ ReadID(c, w) \/ EnterSession(c, w) \/ EndSession(c, w)
  BY DEF Session
<1>2. CASE Pick(c, w) \/ ReadID(c, w) \/ EndSession(c, w)
  <2>1. SameCounts /\ UnderWay(c)
    BY <1>2 DEF Pick, ReadID, EndSession, SameCounts, UnderWay
  <2>2. CASE \E ok \in BOOLEAN : After(c, ok)
    BY <2>1, <2>2, AfterIsLater DEF SpendsOrNot
  <2>3. CASE ~\E ok \in BOOLEAN : After(c, ok)
    <3>1. \/ call' = [call EXCEPT ![c].on = w,
                                  ![c].at = IF w \in Codex THEN "admitted" ELSE "counted"]
          \/ call' = [call EXCEPT ![c].at = "admitted"] /\ call[c].at = "counted"
      BY <1>2, <2>3 DEF Pick, ReadID, EndSession
    <3>2. call[c].at \in {"next", "counted"}
      BY <1>2, <2>3 DEF Pick, ReadID, EndSession
    <3>3. /\ call'[c].of = call[c].of /\ \A d \in Callers \ {c} : call'[d] = call[d]
      BY <3>1 DEF TypeOK
    <3>4. \A d \in Pages : Later(d)
      BY <2>1, <3>2, <3>3 DEF Later, OfEnabled, UnderWay, Callers
    <3>. QED  BY <2>1, <3>4 DEF SameCounts, Quietly, SameDay, CountToday, SpendsOrNot
  <2>. QED  BY <2>2, <2>3
<1>3. CASE EnterSession(c, w)
  <2>1. /\ call[c].at = "admitted" /\ call'[c].at = "running" /\ call'[c].of = call[c].of
        /\ \A d \in Callers \ {c} : call'[d] = call[d]
    BY <1>3 DEF EnterSession, TypeOK
  <2>2. SameDay /\ CountToday' = CountToday
        /\ ghost'.opened = IF c \in Pages THEN ghost.opened + 1 ELSE ghost.opened
    BY <1>3 DEF EnterSession, GhostOK, SameDay, CountToday
  <2>3. CASE c \in Pages
    BY <2>1, <2>2, <2>3 DEF Opens, SpendsOrNot, Callers
  <2>4. CASE c \notin Pages
    <3>1. \A d \in Pages : Later(d)
      BY <2>1, <2>4 DEF Later, OfEnabled, UnderWay, Callers
    <3>. QED  BY <2>2, <2>4, <3>1 DEF Quietly, SpendsOrNot
  <2>. QED  BY <2>3, <2>4
<1>. QED  BY <1>1, <1>2, <1>3

(* Allow and its answer: the budget is asked for by a page that has no     *)
(* session under way.                                                      *)
LEMMA WorkSpends ==
  ASSUME TypeOK, OfEnabled, Work
  PROVE  SpendsOrNot
<1>1. CASE \E c \in Pages : Allow(c) \/ Answer(c)
  <2>1. PICK c \in Pages : Allow(c) \/ Answer(c)
    BY <1>1
  <2>2. UNCHANGED ghost /\ call[c].at \in {"idle", "asking"}
    BY <2>1 DEF Allow, Answer, Idle
  <2>3. CASE Consume(c, "low")
    BY <2>2, <2>3, ConsumePasses
  <2>4. CASE ~Consume(c, "low")
    <3>1. CountToday' = CountToday
      BY <2>1, <2>4 DEF Allow, Answer, CountToday, TypeOK
    <3>2. \/ call' = [call EXCEPT ![c].at = "asking"]
          \/ call' = [call EXCEPT ![c] = Idle]
      BY <2>1, <2>4 DEF Allow, Answer
    <3>3. ~UnderWay(c)' /\ \A d \in Pages \ {c} : call'[d] = call[d]
      BY <3>2 DEF TypeOK, Callers, UnderWay, Idle
    <3>4. \A d \in Pages : Later(d)
      BY <3>3 DEF Later, OfEnabled, UnderWay
    <3>. QED  BY <2>2, <3>1, <3>4 DEF Quietly, SameDay, SpendsOrNot
  <2>. QED  BY <2>3, <2>4
<1>2. CASE \E c \in Generations : Generate(c)
  <2>1. PICK c \in Generations : Generate(c)
    BY <1>2
  <2>2. SameCounts /\ \A d \in Pages : call'[d] = call[d]
    BY <2>1, AgentAssumption DEF Generate, SameCounts, TypeOK, Callers
  <2>. QED  BY <2>2, StaysQuiet DEF SpendsOrNot
<1>. QED  BY <1>1, <1>2 DEF Work

(* Docker, the pools and the end of a process open no session; of a        *)
(* process that ends every page is dropped.                                *)
LEMMA OthersSpendNothing ==
  ASSUME TypeOK, GhostOK, OfEnabled,
         \/ Docker \/ Pooling \/ GoUp \/ Signal \/ StagesStopped \/ Exit \/ Kill
         \/ UNCHANGED vars
  PROVE  SpendsOrNot
<1>1. SameCounts /\ (call' = call \/ call' = [c \in Callers |-> Idle])
  <2>1. CASE Docker
    BY <2>1, Zenon DEF Docker, MakeDir, WriteOwner, RunContainer, EnterWait, ReturnWait,
                WaitExpires, Remove, Perish, SameCounts, GhostOK
  <2>2. CASE Pooling
    BY <2>2 DEF Pooling, StartPool, PoolStarted, PoolStopped, StopPool, SameCounts
  <2>3. CASE GoUp \/ Signal \/ StagesStopped
    BY <2>3 DEF GoUp, Signal, StagesStopped, SameCounts
  <2>4. CASE Exit \/ Kill
    BY <2>4 DEF Exit, Kill, Perish, SameCounts
  <2>5. CASE UNCHANGED vars
    BY <2>5 DEF vars, SameCounts
  <2>. QED  BY <2>1, <2>2, <2>3, <2>4, <2>5
<1>2. \A c \in Pages : call'[c] = call[c] \/ call'[c] = Idle
  BY <1>1 DEF Callers
<1>. QED  BY <1>1, <1>2, StaysQuiet DEF SpendsOrNot

(* Midnight and the next process give a new budget, the lag none. *)
LEMMA ClockSpends ==
  ASSUME TypeOK, GhostOK, OfEnabled, LagExpires \/ Midnight \/ Boot
  PROVE  SpendsOrNot
<1>1. CASE LagExpires
  <2>1. SameDay /\ ghost'.opened = ghost.opened /\ CountToday' = CountToday /\ call' = call
    BY <1>1 DEF LagExpires, SameDay, CountToday, TypeOK
  <2>2. \A d \in Pages : Later(d)
    BY <2>1 DEF Later, OfEnabled, UnderWay
  <2>. QED  BY <2>1, <2>2 DEF Quietly, SpendsOrNot
<1>2. CASE Midnight
  <2>. DEFINE k == Cardinality({c \in Pages : UnderWay(c)})
  <2>1. CountToday' = 0 /\ UNCHANGED call
    BY <1>2 DEF Midnight, CountToday, TypeOK
  <2>2. ghost' = [ghost EXCEPT !.opened = 0, !.starts = 1, !.carried = k]
    BY <1>2 DEF Midnight
  <2>. HIDE DEF k
  <2>3. ghost'.opened = 0 /\ ghost'.starts = 1 /\ ghost'.carried = k
    BY <2>2 DEF GhostOK
  <2>. QED  BY <2>1, <2>3 DEF NewDay, k, SpendsOrNot
<1>3. CASE Boot
  BY <1>3 DEF Boot, NewGuard, CountToday, GhostOK, NewProcess, SpendsOrNot
<1>. QED  BY <1>1, <1>2, <1>3

(* Every step is one of the five. *)
LEMMA EveryStepSpends ==
  ASSUME TypeOK, GhostOK, OfEnabled, [Next]_vars
  PROVE  SpendsOrNot
<1>1. CASE Session
  BY <1>1, SessionSpends
<1>2. CASE Work
  BY <1>2, WorkSpends
<1>3. CASE LagExpires \/ Midnight \/ Boot
  BY <1>3, ClockSpends
<1>4. CASE \/ Docker \/ Pooling \/ GoUp \/ Signal \/ StagesStopped \/ Exit \/ Kill
           \/ UNCHANGED vars
  BY <1>4, OthersSpendNothing
<1>. QED  BY <1>1, <1>2, <1>3, <1>4 DEF Next, Process

(* The invariant of the agents with what the guard has let through. *)
SpendingIInv == IInv /\ OfEnabled /\ Covered

(* A new process has opened nothing and has nothing to open. *)
LEMMA SpendingInit == Init => SpendingIInv
<1>. SUFFICES ASSUME Init PROVE OfEnabled /\ Covered
  BY InitIInv DEF SpendingIInv
<1>1. \A c \in Pages : ~UnderWay(c)
  BY DEF Init, UnderWay, Idle, Callers
<1>2. \A s : Cardinality(MayRun(s)) = 0
  <2>1. \A s : MayRun(s) = {}
    BY <1>1 DEF MayRun
  <2>. QED  BY <2>1, FS_EmptySet
<1>3. ghost.opened = 0 /\ ghost.starts = 1 /\ ghost.carried = 0 /\ CountToday = 0
  BY DEF Init, NoGhost, NewGuard, CountToday
<1>4. Outstanding = 0
  BY <1>2 DEF Outstanding
<1>5. CoveredToday = 0
  BY <1>3, AgentAssumption DEF CoveredToday
<1>6. Cardinality(Enabled) \in Nat
  BY NumberEnabled DEF One
<1>. QED  BY <1>1, <1>3, <1>4, <1>5, <1>6 DEF OfEnabled, Covered

(* Every step keeps the invariant. *)
LEMMA SpendingStays == SpendingIInv /\ [Next]_vars => SpendingIInv'
<1>. SUFFICES ASSUME SpendingIInv, [Next]_vars PROVE SpendingIInv'
  OBVIOUS
<1>1. IInv /\ IInv' /\ OfEnabled /\ Covered
  BY NextKeeps DEF SpendingIInv
<1>2. TypeOK /\ GhostOK /\ TypeOK' /\ GhostOK'
  BY <1>1 DEF IInv
<1>3. SpendsOrNot
  BY <1>1, <1>2, EveryStepSpends
<1>. QED  BY <1>1, <1>2, <1>3, CoveredStays DEF SpendingIInv

(* What covers the sessions is no more than the limit of every process.    *)
LEMMA CoveredIsWithinBudget == SpendingIInv => CallsWithinBudget
<1>. SUFFICES ASSUME SpendingIInv PROVE CallsWithinBudget
  OBVIOUS
<1>. DEFINE n == Cardinality(Enabled)
            whole == DailyLimit * ghost.starts + ghost.carried
<1>1. TypeOK /\ GhostOK /\ Covered
  BY DEF SpendingIInv, IInv
<1>2. n \in Nat
  BY NumberEnabled DEF One
<1>3. CountToday \in 0..DailyLimit /\ DailyLimit \in Nat
  BY <1>1, AgentAssumption DEF CountToday, TypeOK
<1>4. ghost.opened \in Nat /\ ghost.starts \in Nat /\ ghost.carried \in Nat
  BY <1>1 DEF GhostOK
<1>5. DailyLimit * ghost.starts = DailyLimit * (ghost.starts - 1) + DailyLimit
  BY <1>3, <1>4
<1>6. DailyLimit * (ghost.starts - 1) \in Int /\ DailyLimit * ghost.starts \in Int
  BY <1>3, <1>4
<1>7. CoveredToday \in Int /\ whole \in Int /\ CoveredToday <= whole
  BY <1>3, <1>4, <1>5, <1>6 DEF CoveredToday
<1>8. ghost.opened <= n * CoveredToday
  <2>1. Outstanding \in Nat
    BY MayRunFinite DEF Outstanding
  <2>2. ghost.opened + Outstanding <= n * CoveredToday
    BY <1>1 DEF Covered
  <2>. HIDE DEF n
  <2>3. n * CoveredToday \in Int
    BY <1>2, <1>7
  <2>. QED  BY <1>4, <2>1, <2>2, <2>3
<1>. HIDE DEF n, whole
<1>9. n * CoveredToday <= n * whole
  BY <1>2, <1>7, Multiplied
<1>10. n * CoveredToday \in Int /\ n * whole \in Int
  BY <1>2, <1>7
<1>11. ghost.opened <= n * whole
  BY <1>4, <1>8, <1>9, <1>10
<1>. QED  BY <1>11 DEF CallsWithinBudget, n, whole

(* costGuard.Allow before every page's sessions: whatever fails and        *)
(* whenever the process is restarted, the sessions of one day are no more  *)
(* than one of each enabled kind for every page that a process of the day  *)
(* was allowed, and for every page that was under way at midnight.         *)
THEOREM SessionsWithinBudget == Spec => []CallsWithinBudget
BY SpendingInit, SpendingStays, CoveredIsWithinBudget, PTL DEF Spec
=============================================================================
