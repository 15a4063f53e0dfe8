--------------------------- MODULE PriorityIntake ---------------------------
(***************************************************************************)
(* The priority queue between Kafka and the workers of a stage: an intake  *)
(* goroutine pushes each message into Redis and commits it, consumers pop  *)
(* the message of the highest priority.  A member of the ZSET, its payload *)
(* and its headers are three keys, written by a pipeline that others come  *)
(* between and taken by separate commands; the pop is the acknowledgement. *)
(*                                                                         *)
(* Messages with one ID are a reference and its retries.  Left out: the    *)
(* order within a priority, which the instances' clocks decide, and a      *)
(* header value that does not decode, which no code here writes.           *)
(***************************************************************************)
EXTENDS Naturals, Sequences, FiniteSets

CONSTANTS Intakes, Consumers, Messages,
          Log,       \* the messages of each intake's partition
          IdOf,      \* the ID of a message; NoId if it does not decode
          RankOf,    \* its priority: 1 is high, 3 is low
          Bare,      \* messages without headers
          NoId, Nothing,
          MaxSize,   \* members that the ZSET holds
          MaxFaults  \* bound: failed commands, crashes, expiries

Ids == {IdOf[m] : m \in Messages} \ {NoId}

ASSUME PriorityIntakeAssumption ==
  /\ Log \in [Intakes -> Seq(Messages)]
  /\ \A i, j \in Intakes : \A o \in 1..Len(Log[i]), p \in 1..Len(Log[j]) :
       Log[i][o] = Log[j][p] => i = j /\ o = p  \* a message is a record of one partition
  /\ RankOf \in [Messages -> 1..3] /\ Bare \subseteq Messages
  /\ Nothing \notin Messages \cup Ids
  /\ MaxSize \in Nat \ {0} /\ MaxFaults \in Nat

VARIABLES next, committed, step,    \* each intake: offset in hand, offset committed, where it is
          rank, entry, header,      \* Redis, by ID: score of the member (0: none), payload, headers
          at, popped, score, load, heads,  \* each consumer's pop: step, ID, score, payload, headers
          given,     \* what consumers have handed to a worker: message and headers
          replaced,  \* messages whose payload a later push has overwritten
          lost,      \* messages that a fault, an overflow or a race has removed
          faults

intake == <<next, committed, step>>
redis == <<rank, entry, header>>
pop == <<at, popped, score, load, heads>>
vars == <<intake, redis, pop, given, replaced, lost, faults>>

Opt == Messages \cup {Nothing}
TypeOK ==
  /\ next \in [Intakes -> Nat] /\ committed \in [Intakes -> Nat]
  /\ step \in [Intakes -> {"fetch", "payload", "header", "add", "trim", "commit"}]
  /\ rank \in [Ids -> 0..3] /\ entry \in [Ids -> Opt] /\ header \in [Ids -> Opt]
  /\ at \in [Consumers -> {"pop", "payload", "header", "clear"}]
  /\ popped \in [Consumers -> Ids \cup {NoId}] /\ score \in [Consumers -> 0..3]
  /\ load \in [Consumers -> Opt] /\ heads \in [Consumers -> Opt]
  /\ given \subseteq Messages \X Opt
  /\ replaced \subseteq Messages /\ lost \subseteq Messages /\ faults \in 0..MaxFaults

Init ==
  /\ next = [i \in Intakes |-> 1] /\ committed = [i \in Intakes |-> 0]
  /\ step = [i \in Intakes |-> "fetch"]
  /\ rank = [d \in Ids |-> 0]
  /\ entry = [d \in Ids |-> Nothing] /\ header = entry
  /\ at = [c \in Consumers |-> "pop"] /\ popped = [c \in Consumers |-> NoId]
  /\ score = [c \in Consumers |-> 0]
  /\ load = [c \in Consumers |-> Nothing] /\ heads = load
  /\ given = {} /\ replaced = {} /\ lost = {} /\ faults = 0

Fault == faults < MaxFaults /\ faults' = faults + 1
NoFault == UNCHANGED faults

Members == {d \in Ids : rank[d] > 0}
\* The message that an ID's payload is, if it is one: what goes with the payload.
Stored(d) == {entry[d]} \ {Nothing}

-----------------------------------------------------------------------------
(* ZSetIntake.handleOne and PriorityZSetQueue.PushWithHeaders. *)

InHand(i) == Log[i][next[i]]
Goes(i, label) == step' = [step EXCEPT ![i] = label] /\ UNCHANGED <<next, committed>>
\* The reader hands out the offset that follows, committed or not.
NextOffset(i) ==
  /\ step' = [step EXCEPT ![i] = "fetch"] /\ next' = [next EXCEPT ![i] = @ + 1]

FetchMessage(i) ==
  /\ step[i] = "fetch" /\ next[i] <= Len(Log[i])
  /\ Goes(i, IF IdOf[InHand(i)] = NoId THEN "commit" ELSE "payload")
  /\ UNCHANGED <<redis, pop, given, replaced, lost, faults>>

SetPayload(i) ==
  LET m == InHand(i) d == IdOf[m] IN
  /\ step[i] = "payload"
  /\ entry' = [entry EXCEPT ![d] = m]
  /\ replaced' = (replaced \ {m}) \cup (Stored(d) \ {m}) /\ lost' = lost \ {m}
  /\ Goes(i, "header")
  /\ UNCHANGED <<rank, header, pop, given, faults>>

\* The headers go with the payload's digest; without headers the key is deleted.
SetHeaders(i) ==
  LET m == InHand(i) IN
  /\ step[i] = "header"
  /\ header' = [header EXCEPT ![IdOf[m]] = IF m \in Bare THEN Nothing ELSE m]
  /\ Goes(i, "add")
  /\ UNCHANGED <<rank, entry, pop, given, replaced, lost, faults>>

\* ZADD shows the member to the consumers, or moves it.
Add(i) ==
  LET m == InHand(i) IN
  /\ step[i] = "add"
  /\ rank' = [rank EXCEPT ![IdOf[m]] = RankOf[m]]
  /\ Goes(i, "trim")
  /\ UNCHANGED <<entry, header, pop, given, replaced, lost, faults>>

\* A member beyond MaxSize goes, of the lowest priority; its payload stays behind.
Trim(i) ==
  /\ step[i] = "trim"
  /\ \/ /\ Cardinality(Members) > MaxSize
        /\ \E d \in Members :
             /\ \A e \in Members : rank[e] <= rank[d]
             /\ rank' = [rank EXCEPT ![d] = 0]
             /\ lost' = lost \cup Stored(d)
        /\ UNCHANGED step /\ NoFault
     \/ /\ Cardinality(Members) <= MaxSize
        /\ step' = [step EXCEPT ![i] = "commit"] /\ UNCHANGED <<rank, lost>> /\ NoFault
     \/ /\ Cardinality(Members) > MaxSize  \* its failure is ignored
        /\ step' = [step EXCEPT ![i] = "commit"] /\ UNCHANGED <<rank, lost>> /\ Fault
  /\ UNCHANGED <<next, committed, entry, header, pop, given, replaced>>

\* The pipeline fails, before or after a command has taken effect: no commit.
PushFails(i) ==
  /\ step[i] \in {"payload", "header", "add", "trim"}
  /\ NextOffset(i)
  /\ UNCHANGED <<committed, redis, pop, given, replaced, lost>> /\ Fault

\* A commit covers every earlier offset, the ones whose push failed included.
Commit(i) ==
  /\ step[i] = "commit"
  /\ NextOffset(i)
  /\ \/ /\ committed' = [committed EXCEPT ![i] = next[i]]
        /\ lost' = lost \cup {Log[i][o] : o \in (committed[i] + 1)..(next[i] - 1)}
        /\ NoFault
     \/ UNCHANGED <<committed, lost>> /\ Fault
  /\ UNCHANGED <<redis, pop, given, replaced>>

\* The reader starts again after the committed offset: the instance was
\* restarted, or the partition has gone to another one.
Reread(i) ==
  /\ \/ next[i] > committed[i] + 1
     \/ step[i] # "fetch"
  /\ step' = [step EXCEPT ![i] = "fetch"]
  /\ next' = [next EXCEPT ![i] = committed[i] + 1]
  /\ UNCHANGED <<committed, redis, pop, given, replaced, lost>> /\ Fault

-----------------------------------------------------------------------------
(* PriorityZSetQueue.Pop, called by PriorityZSetConsumer.FetchMessage. *)

PopGoes(c, label) == at' = [at EXCEPT ![c] = label]
PopEnds(c) ==
  /\ PopGoes(c, "pop") /\ popped' = [popped EXCEPT ![c] = NoId]
  /\ score' = [score EXCEPT ![c] = 0]
  /\ load' = [load EXCEPT ![c] = Nothing] /\ heads' = [heads EXCEPT ![c] = Nothing]

\* BZPOPMIN takes a member of the highest priority; its reply may be lost.
BZPopMin(c) ==
  /\ at[c] = "pop"
  /\ \E d \in Members :
       /\ \A e \in Members : rank[d] <= rank[e]
       /\ rank' = [rank EXCEPT ![d] = 0]
       /\ \/ /\ PopGoes(c, "payload") /\ popped' = [popped EXCEPT ![c] = d]
             /\ score' = [score EXCEPT ![c] = rank[d]]
             /\ UNCHANGED lost /\ NoFault
          \/ /\ lost' = lost \cup Stored(d)
             /\ UNCHANGED <<at, popped, score>> /\ Fault
  /\ UNCHANGED <<intake, entry, header, load, heads, given, replaced>>

GetPayload(c) ==
  /\ at[c] = "payload"
  /\ load' = [load EXCEPT ![c] = entry[popped[c]]]
  /\ PopGoes(c, "header")
  /\ UNCHANGED <<intake, redis, popped, score, heads, given, replaced, lost, faults>>

AnyHeaders(d, m) == TRUE
SameDigest(d, m) == header[d] = m

\* Headers of another payload are dropped.
GetHeaders(c) ==
  LET d == popped[c] IN
  /\ at[c] = "header"
  /\ heads' = [heads EXCEPT ![c] = IF SameDigest(d, load[c]) THEN header[d] ELSE Nothing]
  /\ PopGoes(c, "clear")
  /\ UNCHANGED <<intake, redis, popped, score, load, given, replaced, lost, faults>>

NoRestore(c) == 0
Restored(c) == score[c]

\* A read fails: the member goes back with its score, unless that fails too.
ReadFails(c) ==
  LET d == popped[c] IN
  /\ at[c] \in {"payload", "header"}
  /\ \/ rank' = [rank EXCEPT ![d] = Restored(c)] /\ UNCHANGED lost
     \/ lost' = lost \cup Stored(d) \cup ({load[c]} \ {Nothing}) /\ UNCHANGED rank
  /\ PopEnds(c) /\ Fault
  /\ UNCHANGED <<intake, entry, header, given, replaced>>

\* Both keys are deleted, whatever they hold by now; a payload that was there
\* is handed over.  A failed delete is ignored.
Clear(c) ==
  LET d == popped[c] IN
  /\ at[c] = "clear"
  /\ \/ /\ entry' = [entry EXCEPT ![d] = Nothing] /\ header' = [header EXCEPT ![d] = Nothing]
        /\ lost' = lost \cup (Stored(d) \ {load[c]}) /\ NoFault
     \/ UNCHANGED <<entry, header, lost>> /\ Fault
  /\ given' = IF load[c] = Nothing THEN given ELSE given \cup {<<load[c], heads[c]>>}
  /\ PopEnds(c)
  /\ UNCHANGED <<intake, rank, replaced>>

\* The consumer's process dies between the pop and the worker.
Die(c) ==
  /\ at[c] # "pop" /\ Fault
  /\ lost' = lost \cup Stored(popped[c]) \cup ({load[c]} \ {Nothing})
  /\ PopEnds(c)
  /\ UNCHANGED <<intake, redis, given, replaced>>

\* The keys of a member live for 24 h.
Expire(d) ==
  /\ \/ entry[d] # Nothing /\ entry' = [entry EXCEPT ![d] = Nothing] /\ UNCHANGED header
     \/ header[d] # Nothing /\ header' = [header EXCEPT ![d] = Nothing] /\ UNCHANGED entry
  /\ lost' = lost \cup (Stored(d) \ {entry'[d]}) /\ Fault
  /\ UNCHANGED <<intake, rank, pop, given, replaced>>

-----------------------------------------------------------------------------
Push(i) == \/ FetchMessage(i) \/ SetPayload(i) \/ SetHeaders(i) \/ Add(i) \/ Trim(i)
           \/ PushFails(i) \/ Commit(i) \/ Reread(i)
Pop(c) == \/ BZPopMin(c) \/ GetPayload(c) \/ GetHeaders(c) \/ ReadFails(c) \/ Clear(c) \/ Die(c)

Next == \/ \E i \in Intakes : Push(i)
        \/ \E c \in Consumers : Pop(c)
        \/ \E d \in Ids : Expire(d)

Spec == Init /\ [][Next]_vars

-----------------------------------------------------------------------------
(* Properties *)

\* What a worker receives has its own headers or none, never those of
\* another retry of the reference, whose counts they would bring back:
\* pushes of one ID by two intakes may interleave with each other and with
\* a pop (the digest of headerEnvelope).
OwnHeaders == \A g \in given : g[2] \in {g[1], Nothing}

\* Where a consumer can still reach a message: in the ZSET, or popped.
Reachable(m) ==
  \/ entry[IdOf[m]] = m /\ (\/ rank[IdOf[m]] > 0
                            \/ \E c \in Consumers : at[c] = "payload" /\ popped[c] = IdOf[m])
  \/ \E c \in Consumers : load[c] = m

\* A message whose offset is committed, of an intake that stops short of it or
\* of one that goes on, has been handed to a worker, is overwritten by a later
\* one of its ID, can still be reached, or is lost to a cause with a name:
\* a fault, an overflow, a commit past a failed push, or the delete of
\* a pop that began before its push.  Nothing else that handleOne, Push and
\* Pop do, in any order, loses it.
CommittedIsKept ==
  \A i \in Intakes : \A o \in 1..committed[i] :
    LET m == Log[i][o] IN
    \/ IdOf[m] = NoId \/ m \in replaced \cup lost \/ Reachable(m)
    \/ \E g \in given : g[1] = m
=============================================================================
