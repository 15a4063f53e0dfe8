----------------------------- MODULE JobBuffer -----------------------------
(***************************************************************************)
(* Jobs of normal priority wait in a Redis list instead of Kafka           *)
(* (pkg/queue/buffering_producer.go), and a drainer of each instance moves *)
(* them to the topic while the consumers' backlog leaves room               *)
(* (internal/scheduler/buffer_drainer.go), under a leader lock with a TTL. *)
(* One label is modelled: the labels share nothing but the cycle, in which *)
(* an error of one does not stop the next.                                 *)
(*                                                                         *)
(* A Redis or Kafka call may fail before or after it took effect, a failed *)
(* batch may have left any part of itself, a drainer may die anywhere.     *)
(***************************************************************************)
EXTENDS Integers, Sequences, FiniteSets, SequencesExt

CONSTANTS Jobs,           \* jobs to publish
          Buffered,       \* those whose topic has a buffer
          Garbled,        \* those whose buffered payload does not decode
          Callers,        \* callers of BufferingProducer.PublishBatch
          Drainers,       \* BufferDrainers, one of each instance
          MaxLen,         \* cap of the list
          TargetBacklog,  \* the drainer fills the topic up to it
          DrainBatch,     \* and moves no more at a time
          MaxFaults       \* bound: failed calls and deaths

Nobody == "nobody"
Orphan == "orphan"

ASSUME JobBufferAssumption ==
  /\ Drainers \cap {Nobody, Orphan} = {}
  /\ IsFiniteSet(Jobs)
  /\ Garbled \subseteq Buffered /\ Buffered \subseteq Jobs
  /\ {MaxLen, TargetBacklog, DrainBatch} \subseteq Nat \ {0}
  /\ MaxFaults \in Nat

VARIABLES buffer,     \* the Redis list, the oldest payload first
          lock,       \* holder of the leader lock: a drainer, Nobody or Orphan
          waiting,    \* number of messages in the topic
          committed,  \* the consumer group has committed an offset
          cpc,        \* each caller in PublishBatch
          batch,      \* its jobs
          direct,     \* those that go to Kafka at once
          dpc,        \* each drainer in drainAll
          want,       \* number of jobs it asks for
          hand,       \* payloads it popped
          refill,     \* payloads it puts back
          faults,
          fresh,      \* jobs not yet submitted
          accepted,   \* jobs whose PublishBatch returned no error
          settled,    \* jobs that reached Kafka or the retry scheduler
          lost,       \* jobs that lost a copy: see Loses
          overrun     \* drainers at work whose lock has gone

redis == <<buffer, lock>>
topic == <<waiting, committed>>
caller == <<cpc, batch, direct, fresh, accepted>>
drainer == <<dpc, want, hand, refill>>
ghost == <<lost, overrun>>
vars == <<redis, topic, caller, drainer, faults, settled, ghost>>

TypeOK ==
  /\ buffer \in Seq(Buffered) /\ lock \in Drainers \cup {Nobody, Orphan}
  /\ waiting \in Nat /\ committed \in BOOLEAN
  /\ cpc \in [Callers -> {"idle", "buffer", "direct"}]
  /\ batch \in [Callers -> SUBSET Buffered] /\ direct \in [Callers -> SUBSET Jobs]
  /\ dpc \in [Drainers -> {"idle", "check", "pop", "publish", "retry", "refill", "release"}]
  /\ want \in [Drainers -> 0..DrainBatch]
  /\ hand \in [Drainers -> Seq(Buffered)] /\ refill \in [Drainers -> Seq(Buffered)]
  /\ \A d \in Drainers : Len(hand[d]) <= DrainBatch
  /\ faults \in 0..MaxFaults
  /\ fresh \subseteq Jobs /\ accepted \subseteq Jobs \ fresh
  /\ settled \subseteq Jobs /\ lost \subseteq Buffered
  /\ overrun \subseteq Drainers

Init ==
  /\ buffer = <<>> /\ lock = Nobody
  /\ waiting = 0 /\ committed \in BOOLEAN
  /\ cpc = [c \in Callers |-> "idle"]
  /\ batch = [c \in Callers |-> {}] /\ direct = [c \in Callers |-> {}]
  /\ dpc = [d \in Drainers |-> "idle"] /\ want = [d \in Drainers |-> 0]
  /\ hand = [d \in Drainers |-> <<>>] /\ refill = [d \in Drainers |-> <<>>]
  /\ faults = 0
  /\ fresh = Jobs /\ accepted = {} /\ settled = {} /\ lost = {}
  /\ overrun = {}

Fault == faults < MaxFaults /\ faults' = faults + 1

(* The ways a copy of a job goes without reaching Kafka or the retry       *)
(* scheduler: off the end of the list, with a reply or a drainer, with a   *)
(* put-back that fails, or because its payload does not decode.            *)
Loses(S) == lost' = lost \cup S

---------------------------------------------------------------------------
(* EnqueueBatch: LPUSH, then LTRIM                                         *)

Trim(s) == IF Len(s) > MaxLen THEN SubSeq(s, Len(s) - MaxLen + 1, Len(s)) ELSE s

Trimmed(s) == {s[i] : i \in 1..(Len(s) - Len(Trim(s)))}

Push(s) ==
  /\ buffer' = Trim(buffer \o s)
  /\ Loses(Trimmed(buffer \o s))

(* The reply is lost, or the pipeline is cut after the LPUSH. *)
PushUnsure(s) == \/ Push(s)
                 \/ buffer' = buffer \o s /\ UNCHANGED lost

---------------------------------------------------------------------------
(* BufferingProducer.PublishBatch, and Publish as a batch of one           *)

CGoto(c, label) == cpc' = [cpc EXCEPT ![c] = label]

Submit(c) ==
  /\ cpc[c] = "idle"
  /\ \E S \in (SUBSET fresh) \ {{}} :
       /\ fresh' = fresh \ S
       /\ batch' = [batch EXCEPT ![c] = S \cap Buffered]
       /\ direct' = [direct EXCEPT ![c] = S \ Buffered]
  /\ CGoto(c, "buffer")
  /\ UNCHANGED <<redis, topic, accepted, drainer, faults, settled, ghost>>

Enqueue(c) ==
  /\ cpc[c] = "buffer"
  /\ Push(SetToSeq(batch[c]))
  /\ CGoto(c, "direct")
  /\ UNCHANGED <<lock, topic, batch, direct, fresh, accepted, drainer, faults, settled, overrun>>

EnqueueFails(c) ==
  /\ cpc[c] = "buffer" /\ batch[c] # {}
  /\ Fault
  /\ PushUnsure(SetToSeq(batch[c])) \/ UNCHANGED <<buffer, lost>>
  /\ direct' = [direct EXCEPT ![c] = @ \cup batch[c]]
  /\ CGoto(c, "direct")
  /\ UNCHANGED <<lock, topic, batch, fresh, accepted, drainer, settled, overrun>>

(* The messages of S reach Kafka; those of this topic add to its backlog. *)
Send(S) ==
  /\ settled' = settled \cup S
  /\ waiting' = waiting + Cardinality(S \cap Buffered)

Return(c) ==
  /\ batch' = [batch EXCEPT ![c] = {}]
  /\ direct' = [direct EXCEPT ![c] = {}]
  /\ CGoto(c, "idle")

Direct(c) ==
  /\ cpc[c] = "direct"
  /\ Send(direct[c])
  /\ accepted' = accepted \cup batch[c] \cup direct[c]
  /\ Return(c)
  /\ UNCHANGED <<redis, committed, fresh, drainer, faults, ghost>>

(* The caller is told of an error, whatever of the batch is buffered.  The *)
(* fault may be the outage in which its Enqueue failed as well.            *)
DirectFails(c) ==
  /\ cpc[c] = "direct" /\ direct[c] # {}
  /\ IF batch[c] # {} /\ batch[c] \subseteq direct[c] THEN UNCHANGED faults ELSE Fault
  /\ \E S \in SUBSET direct[c] : Send(S)
  /\ Return(c)
  /\ UNCHANGED <<redis, committed, fresh, accepted, drainer, ghost>>

---------------------------------------------------------------------------
(* The consumers of the topic                                              *)

Consume ==
  /\ waiting > 0
  /\ waiting' = waiting - 1
  /\ committed' = TRUE
  /\ UNCHANGED <<redis, caller, drainer, faults, settled, ghost>>

(* A group that never committed has no lag. *)
Backlog == IF committed THEN waiting ELSE 0

---------------------------------------------------------------------------
(* BufferDrainer.drainAll                                                  *)

DGoto(d, label) == dpc' = [dpc EXCEPT ![d] = label]

Free == lock = Nobody

TryAcquire(d) ==
  /\ dpc[d] = "idle" /\ Free
  /\ lock' = d
  /\ DGoto(d, "check")
  /\ UNCHANGED <<buffer, topic, caller, want, hand, refill, faults, settled, lost, overrun>>

(* SET NX is applied, its reply lost: the cycle is skipped. *)
AcquireFails(d) ==
  /\ dpc[d] = "idle" /\ lock = Nobody
  /\ Fault
  /\ lock' = Orphan
  /\ UNCHANGED <<buffer, topic, caller, drainer, settled, ghost>>

Room == TargetBacklog - Backlog

(* The backlog and the length of the list.  Without a commit of the group  *)
(* the drainer does not see what it put there before.                      *)
Check(d) ==
  /\ dpc[d] = "check"
  /\ IF Room > 0 /\ buffer # <<>>
       THEN /\ want' = [want EXCEPT ![d] = Min({Room, DrainBatch, Len(buffer)})]
            /\ DGoto(d, "pop")
       ELSE DGoto(d, "release") /\ UNCHANGED want
  /\ UNCHANGED <<redis, topic, caller, hand, refill, faults, settled, lost, overrun>>

(* Fail closed: the label is skipped. *)
CheckFails(d) ==
  /\ dpc[d] = "check"
  /\ Fault
  /\ DGoto(d, "release")
  /\ UNCHANGED <<redis, topic, caller, want, hand, refill, settled, ghost>>

Count(d) == Min({want[d], Len(buffer)})
Popped(d) == SubSeq(buffer, 1, Count(d))

(* The numbers of a finite set, in ascending order. *)
Ascending(I) ==
  [k \in 1..Cardinality(I) |-> CHOOSE i \in I : Cardinality({h \in I : h <= i}) = k]

At(s, I) == [k \in 1..Cardinality(I) |-> s[Ascending(I)[k]]]
Messages(s) == At(s, {i \in 1..Len(s) : s[i] \notin Garbled})

(* RPOP, and the payloads are decoded. *)
Pop(d) ==
  /\ dpc[d] = "pop"
  /\ buffer' = SubSeq(buffer, Count(d) + 1, Len(buffer))
  /\ want' = [want EXCEPT ![d] = 0]
  /\ Loses(ToSet(Popped(d)) \cap Garbled)
  /\ IF Messages(Popped(d)) = <<>>
       THEN DGoto(d, "release") /\ UNCHANGED hand
       ELSE DGoto(d, "publish") /\ hand' = [hand EXCEPT ![d] = Popped(d)]
  /\ UNCHANGED <<lock, topic, caller, refill, faults, settled, overrun>>

PopFails(d) ==
  /\ dpc[d] = "pop"
  /\ Fault
  /\ \/ UNCHANGED <<buffer, lost>>
     \/ /\ buffer' = SubSeq(buffer, Count(d) + 1, Len(buffer))
        /\ Loses(ToSet(Popped(d)))
  /\ want' = [want EXCEPT ![d] = 0]
  /\ DGoto(d, "release")
  /\ UNCHANGED <<lock, topic, caller, hand, refill, settled, overrun>>

Publish(d) ==
  /\ dpc[d] = "publish"
  /\ waiting' = waiting + Len(Messages(hand[d]))
  /\ settled' = settled \cup ToSet(Messages(hand[d]))
  /\ hand' = [hand EXCEPT ![d] = <<>>]
  /\ DGoto(d, "release")
  /\ UNCHANGED <<redis, committed, caller, want, refill, faults, ghost>>

PublishFails(d) ==
  /\ dpc[d] = "publish"
  /\ Fault
  /\ \E S \in SUBSET (1..Len(Messages(hand[d]))) :
       /\ waiting' = waiting + Cardinality(S)
       /\ settled' = settled \cup {Messages(hand[d])[i] : i \in S}
  /\ DGoto(d, "retry")
  /\ UNCHANGED <<redis, committed, caller, want, hand, refill, ghost>>

NothingBack(d, F) == <<>>

(* The payloads at the indexes of the messages that failed. *)
PutBack(d, F) == At(hand[d], F)

(* dispatchToRetry: F fail, in the outage that failed the publish, T of    *)
(* them after the scheduler took them.  A message that stands at another   *)
(* index than its payload is not put back.                                 *)
Dispatch(d) ==
  /\ dpc[d] = "retry"
  /\ LET msgs == Messages(hand[d]) IN
     \E F \in SUBSET (1..Len(msgs)) :
       /\ \E T \in SUBSET F : settled' = settled \cup {msgs[i] : i \in (1..Len(msgs)) \ (F \ T)}
       /\ refill' = [refill EXCEPT ![d] = PutBack(d, F)]
       /\ Loses({msgs[i] : i \in F} \ {hand[d][i] : i \in F})
  /\ hand' = [hand EXCEPT ![d] = <<>>]
  /\ DGoto(d, "refill")
  /\ UNCHANGED <<redis, topic, caller, want, faults, overrun>>

Refilled(d) ==
  /\ refill' = [refill EXCEPT ![d] = <<>>]
  /\ DGoto(d, "release")
  /\ UNCHANGED <<lock, topic, caller, want, hand, settled, overrun>>

Refill(d) ==
  /\ dpc[d] = "refill"
  /\ Push(refill[d])
  /\ UNCHANGED faults
  /\ Refilled(d)

(* The outage goes on. *)
RefillFails(d) ==
  /\ dpc[d] = "refill" /\ refill[d] # <<>>
  /\ UNCHANGED faults
  /\ PushUnsure(refill[d]) \/ (UNCHANGED buffer /\ Loses(ToSet(refill[d])))
  /\ Refilled(d)

AnyToken(d) == Nobody
Unlocked(d) == IF lock = d THEN Nobody ELSE lock

(* The local token is forgotten whether or not the script ran. *)
Release(d) ==
  /\ dpc[d] = "release"
  /\ \/ lock' = Unlocked(d) /\ UNCHANGED faults
     \/ lock = d /\ Fault /\ lock' = Orphan
  /\ overrun' = overrun \ {d}
  /\ DGoto(d, "idle")
  /\ UNCHANGED <<buffer, topic, caller, want, hand, refill, settled, lost>>

Lasting == FALSE
HasTTL == lock # Nobody

Expire ==
  /\ HasTTL
  /\ lock' = Nobody
  /\ overrun' = overrun \cup ({lock} \cap Drainers)
  /\ UNCHANGED <<buffer, topic, caller, drainer, faults, settled, lost>>

Crash(d) ==
  /\ dpc[d] # "idle"
  /\ Fault
  /\ lock' = IF lock = d THEN Orphan ELSE lock
  /\ Loses(ToSet(hand[d]) \cup ToSet(refill[d]))
  /\ want' = [want EXCEPT ![d] = 0]
  /\ hand' = [hand EXCEPT ![d] = <<>>]
  /\ refill' = [refill EXCEPT ![d] = <<>>]
  /\ overrun' = overrun \ {d}
  /\ DGoto(d, "idle")
  /\ UNCHANGED <<buffer, topic, caller, settled>>

Calling(c) == Submit(c) \/ Enqueue(c) \/ EnqueueFails(c) \/ Direct(c) \/ DirectFails(c)

Cycle(d) == \/ TryAcquire(d) \/ Check(d) \/ Pop(d) \/ Publish(d)
            \/ Dispatch(d) \/ Refill(d) \/ Release(d)

Next == \/ \E c \in Callers : Calling(c)
        \/ \E d \in Drainers : \/ Cycle(d) \/ AcquireFails(d) \/ CheckFails(d) \/ PopFails(d)
                               \/ PublishFails(d) \/ RefillFails(d) \/ Crash(d)
        \/ Consume \/ Expire

Spec == Init /\ [][Next]_vars

(* The drainers tick, the consumers consume, a lock has a TTL. *)
Fairness ==
  /\ \A d \in Drainers : WF_vars(Cycle(d))
  /\ WF_vars(Consume) /\ WF_vars(Expire)

LiveSpec == Spec /\ Fairness

---------------------------------------------------------------------------
(* Properties                                                              *)

Underway == ToSet(buffer) \cup UNION {ToSet(hand[d]) \cup ToSet(refill[d]) : d \in Drainers}

(* A job whose publisher saw no error is in the list, in a drainer's hand, *)
(* in Kafka or with the retry scheduler, through every buffering, drain,   *)
(* failed publish, put-back and take-over of the lock -- or it went one of *)
(* the ways that Loses names.                                              *)
JobKept == accepted \subseteq Underway \cup settled \cup lost

(* Two drainers are at work together only past the lock's TTL. *)
OneLeader ==
  \A d, e \in Drainers :
    d # e /\ dpc[d] # "idle" /\ dpc[e] # "idle" => overrun \cap {d, e} # {}

(* A buffered job leaves the list in the end. *)
BufferDrains ==
  \A j \in Buffered : j \in ToSet(buffer) ~> j \in settled \cup lost
=============================================================================
