-------------------------- MODULE FetchLimitsProofs --------------------------
(***************************************************************************)
(* What stands between a job's topic and its fetch, for any number of      *)
(* intakes, consumers, messages, hosts, addresses, callers and faults.     *)
(* The priority intake never gives a worker the headers of another         *)
(* message, and no committed message disappears without one of the causes  *)
(* that CommittedIsKept names.  An address is without a rate limit only    *)
(* for a row of one of its hosts, or for a query that failed under the     *)
(* very call that made its limiter.                                        *)
(***************************************************************************)
EXTENDS PriorityIntake, SourceLimits, SequenceTheorems, TLAPS

WasGiven(m) == \E g \in given : g[1] = m

(* The payload of a message is in Redis, or the message has been handed    *)
(* over, overwritten or lost.                                              *)
Placed(m) == entry[IdOf[m]] = m \/ m \in replaced \cup lost \/ WasGiven(m)

Kept(m) == \/ IdOf[m] = NoId \/ m \in replaced \cup lost
           \/ Reachable(m) \/ WasGiven(m)

(* An intake has a message of its partition in hand, past the committed    *)
(* one; it pushes only a message that decodes.                             *)
InHandIsNext ==
  \A i \in Intakes :
    /\ committed[i] < next[i] /\ committed[i] <= Len(Log[i])
    /\ step[i] # "fetch" => next[i] <= Len(Log[i])
    /\ step[i] \notin {"fetch", "commit"} => IdOf[InHand(i)] # NoId

(* The payload under an ID is that of a message with this ID.              *)
EntryHasId == \A d \in Ids : entry[d] # Nothing => IdOf[entry[d]] = d

(* What a consumer knows of its pop, by the step it is at.                 *)
PopKnows ==
  \A c \in Consumers :
    /\ at[c] # "pop" => popped[c] \in Ids /\ score[c] \in 1..3
    /\ at[c] \in {"pop", "payload"} => load[c] = Nothing
    /\ at[c] = "clear" => heads[c] \in {load[c], Nothing}

(* A payload that a consumer has read is still there, unless the message   *)
(* is accounted for otherwise.                                             *)
LoadIsPlaced ==
  \A c \in Consumers : load[c] # Nothing => IdOf[load[c]] = popped[c] /\ Placed(load[c])

(* What an intake has pushed so far stands.                                *)
PushStands ==
  \A i \in Intakes : /\ step[i] \in {"header", "add"} => Placed(InHand(i))
                     /\ step[i] \in {"trim", "commit"} => Kept(InHand(i))

IInv == /\ TypeOK /\ OwnHeaders /\ InHandIsNext /\ EntryHasId /\ PopKnows
        /\ LoadIsPlaced /\ PushStands /\ CommittedIsKept

LEMMA InitIInv == Init => IInv
BY PriorityIntakeAssumption, LenProperties
   DEF Init, IInv, TypeOK, Opt, OwnHeaders, InHandIsNext, EntryHasId, PopKnows,
      LoadIsPlaced,
       PushStands, CommittedIsKept

(* A message at an offset of an intake's partition.                        *)
LEMMA LogTypes ==
  ASSUME NEW i \in Intakes, NEW o \in 1..Len(Log[i])
  PROVE  /\ Log[i][o] \in Messages /\ Log[i][o] # Nothing /\ Len(Log[i]) \in Nat
         /\ IdOf[Log[i][o]] # NoId => IdOf[Log[i][o]] \in Ids
BY PriorityIntakeAssumption, LenProperties DEF Ids

LEMMA InHandTypes ==
  ASSUME TypeOK, InHandIsNext, NEW i \in Intakes, step[i] # "fetch"
  PROVE  /\ InHand(i) \in Messages /\ InHand(i) # Nothing
         /\ next[i] \in 1..Len(Log[i]) /\ Len(Log[i]) \in Nat
         /\ step[i] # "commit" => IdOf[InHand(i)] \in Ids
<1>1. next[i] \in 1..Len(Log[i]) /\ Len(Log[i]) \in Nat
  BY PriorityIntakeAssumption, LenProperties DEF TypeOK, InHandIsNext
<1> QED BY <1>1, LogTypes DEF InHand, InHandIsNext

---------------------------------------------------------------------------
(* Types and the local invariants                                          *)

LEMMA TypesStay == IInv /\ [Next]_vars => TypeOK'
<1> SUFFICES ASSUME TypeOK, InHandIsNext, PopKnows, [Next]_vars
             PROVE  TypeOK'
  BY DEF IInv
<1> USE DEF intake, redis, pop, Goes, PopGoes
<1>f. UNCHANGED faults \/ Fault => faults' \in 0..MaxFaults
  BY PriorityIntakeAssumption DEF Fault, TypeOK
<1>s. \A d \in Ids : Stored(d) \subseteq Messages
  BY DEF Stored, Opt, TypeOK
<1>1. ASSUME NEW i \in Intakes, FetchMessage(i)
      PROVE  TypeOK'
  BY <1>1 DEF FetchMessage, TypeOK
<1>2. ASSUME NEW i \in Intakes, SetPayload(i) \/ SetHeaders(i) \/ Add(i)
      PROVE  TypeOK'
  <2>1. InHand(i) \in Messages /\ IdOf[InHand(i)] \in Ids
    BY <1>2, InHandTypes DEF SetPayload, SetHeaders, Add
  <2>2. RankOf[InHand(i)] \in 0..3 /\ InHand(i) \in Opt /\ Nothing \in Opt
    BY <2>1, PriorityIntakeAssumption DEF Opt
  <2>3. CASE SetPayload(i)
    BY <1>s, <2>1, <2>2, <2>3 DEF SetPayload, TypeOK
  <2>4. CASE SetHeaders(i)
    BY <2>1, <2>2, <2>4 DEF SetHeaders, TypeOK
  <2>5. CASE Add(i)
    BY <2>1, <2>2, <2>5 DEF Add, TypeOK
  <2> QED BY <1>2, <2>3, <2>4, <2>5
<1>3. ASSUME NEW i \in Intakes, Trim(i)
      PROVE  TypeOK'
  <2>1. rank' \in [Ids -> 0..3] /\ lost' \subseteq Messages
    BY <1>3, <1>s DEF Trim, Members, TypeOK
  <2> QED BY <1>3, <1>f, <2>1 DEF Trim, NoFault, TypeOK
<1>4. ASSUME NEW i \in Intakes, PushFails(i) \/ Commit(i) \/ Reread(i)
      PROVE  TypeOK'
  <2>1. next' \in [Intakes -> Nat] /\ committed' \in [Intakes -> Nat]
    BY <1>4 DEF PushFails, Commit, Reread, NextOffset, TypeOK
  <2>2. step' \in [Intakes -> {"fetch", "payload", "header", "add", "trim", "commit"}]
    BY <1>4 DEF PushFails, Commit, Reread, NextOffset, TypeOK
  <2>3. lost' \subseteq Messages
    <3>1. CASE UNCHANGED lost
      BY <3>1 DEF TypeOK
    <3>2. CASE lost' = lost \cup {Log[i][o] : o \in (committed[i] + 1)..(next[i] - 1)}
      <4>1. step[i] # "fetch" \/ lost' = lost
        BY <1>4 DEF PushFails, Commit, Reread
      <4>2. CASE step[i] # "fetch"
        <5>1. \A o \in (committed[i] + 1)..(next[i] - 1) : o \in 1..Len(Log[i])
          BY <4>2, InHandTypes DEF TypeOK
        <5> QED BY <3>2, <5>1, LogTypes DEF TypeOK
      <4> QED BY <4>1, <4>2 DEF TypeOK
    <3> QED BY <1>4, <3>1, <3>2 DEF PushFails, Commit, Reread
  <2>4. faults' \in 0..MaxFaults
    BY <1>4, <1>f DEF PushFails, Commit, Reread, NoFault
  <2> QED BY <1>4, <2>1, <2>2, <2>3, <2>4 DEF PushFails, Commit, Reread, TypeOK
<1>5. ASSUME NEW c \in Consumers, BZPopMin(c)
      PROVE  TypeOK'
  <2>1. PICK d \in Members :
          /\ rank' = [rank EXCEPT ![d] = 0]
          /\ \/ /\ PopGoes(c, "payload") /\ popped' = [popped EXCEPT ![c] = d]
                /\ score' = [score EXCEPT ![c] = rank[d]]
                /\ UNCHANGED lost /\ NoFault
             \/ /\ lost' = lost \cup Stored(d)
                /\ UNCHANGED <<at, popped, score>> /\ Fault
    BY <1>5 DEF BZPopMin
  <2>2. d \in Ids /\ rank[d] \in 0..3
    BY <2>1 DEF Members, TypeOK
  <2>3. rank' \in [Ids -> 0..3] /\ lost' \subseteq Messages /\ faults' \in 0..MaxFaults
    BY <1>f, <1>s, <2>1, <2>2 DEF NoFault, TypeOK
  <2>4. /\ at' \in [Consumers -> {"pop", "payload", "header", "clear"}]
        /\ popped' \in [Consumers -> Ids \cup {NoId}] /\ score' \in [Consumers -> 0..3]
    BY <2>1, <2>2 DEF TypeOK
  <2> QED BY <1>5, <2>3, <2>4 DEF BZPopMin, TypeOK
<1>6. ASSUME NEW c \in Consumers, GetPayload(c) \/ GetHeaders(c)
      PROVE  TypeOK'
  <2>1. popped[c] \in Ids
    BY <1>6 DEF GetPayload, GetHeaders, PopKnows
  <2>2. entry[popped[c]] \in Opt /\ header[popped[c]] \in Opt /\ Nothing \in Opt
    BY <2>1 DEF Opt, TypeOK
  <2> QED BY <1>6, <2>2 DEF GetPayload, GetHeaders, TypeOK
<1>7. ASSUME NEW c \in Consumers, ReadFails(c) \/ Clear(c) \/ Die(c)
      PROVE  TypeOK'
  <2>1. popped[c] \in Ids /\ score[c] \in 0..3 /\ {load[c]} \ {Nothing} \subseteq Messages
    BY <1>7 DEF ReadFails, Clear, Die, PopKnows, TypeOK, Opt
  <2>2. PopEnds(c)
    BY <1>7 DEF ReadFails, Clear, Die
  <2>3. /\ at' \in [Consumers -> {"pop", "payload", "header", "clear"}]
        /\ popped' \in [Consumers -> Ids \cup {NoId}] /\ score' \in [Consumers -> 0..3]
        /\ load' \in [Consumers -> Opt] /\ heads' \in [Consumers -> Opt]
    BY <2>2 DEF PopEnds, Opt, TypeOK
  <2>4. lost' \subseteq Messages
    BY <1>7, <1>s, <2>1 DEF ReadFails, Clear, Die, TypeOK
  <2>5. rank' \in [Ids -> 0..3] /\ faults' \in 0..MaxFaults
    BY <1>7, <1>f, <2>1 DEF ReadFails, Clear, Die, Restored, NoFault, TypeOK
  <2>6. entry' \in [Ids -> Opt] /\ header' \in [Ids -> Opt]
    BY <1>7 DEF ReadFails, Clear, Die, Opt, TypeOK
  <2>7. given' \subseteq Messages \X Opt
    <3>1. load[c] # Nothing => load[c] \in Messages /\ heads[c] \in Opt
      BY DEF Opt, TypeOK
    <3> QED BY <1>7, <3>1 DEF ReadFails, Clear, Die, TypeOK
  <2> QED BY <1>7, <2>3, <2>4, <2>5, <2>6, <2>7 DEF ReadFails, Clear, Die, TypeOK
<1>8. ASSUME NEW d \in Ids, Expire(d)
      PROVE  TypeOK'
  <2>1. entry' \in [Ids -> Opt] /\ header' \in [Ids -> Opt] /\ lost' \subseteq Messages
    BY <1>8, <1>s DEF Expire, Opt, TypeOK
  <2> QED BY <1>8, <1>f, <2>1 DEF Expire, TypeOK
<1>9. CASE UNCHANGED vars
  BY <1>9 DEF vars, TypeOK
<1> QED BY <1>1, <1>2, <1>3, <1>4, <1>5, <1>6, <1>7, <1>8, <1>9 DEF Next, Push, Pop

LEMMA LocalsStay == IInv /\ [Next]_vars => InHandIsNext' /\ EntryHasId' /\ PopKnows' /\ OwnHeaders'
<1> SUFFICES ASSUME TypeOK, OwnHeaders, InHandIsNext, EntryHasId, PopKnows, [Next]_vars
             PROVE  InHandIsNext' /\ EntryHasId' /\ PopKnows' /\ OwnHeaders'
  BY DEF IInv
<1> USE DEF intake, redis, pop, Goes, PopGoes
<1>1. ASSUME NEW i \in Intakes, Push(i)
      PROVE  InHandIsNext'
  <2>1. step[i] # "fetch" => next[i] \in 1..Len(Log[i]) /\ Len(Log[i]) \in Nat
    BY InHandTypes
  <2>2. Len(Log[i]) \in Nat
    BY PriorityIntakeAssumption, LenProperties
  <2>3. CASE FetchMessage(i)
    BY <2>2, <2>3 DEF FetchMessage, InHand, InHandIsNext, TypeOK
  <2>4. CASE SetPayload(i) \/ SetHeaders(i) \/ Add(i) \/ Trim(i)
    BY <2>4 DEF SetPayload, SetHeaders, Add, Trim, InHand, InHandIsNext, TypeOK
  <2>5. CASE PushFails(i)
    BY <2>1, <2>5 DEF PushFails, NextOffset, InHand, InHandIsNext, TypeOK
  <2>6. CASE Commit(i)
    BY <2>1, <2>6 DEF Commit, NextOffset, InHand, InHandIsNext, TypeOK
  <2>7. CASE Reread(i)
    BY <2>2, <2>7 DEF Reread, InHand, InHandIsNext, TypeOK
  <2> QED BY <1>1, <2>3, <2>4, <2>5, <2>6, <2>7 DEF Push
<1>2. ASSUME NEW i \in Intakes, Push(i)
      PROVE  EntryHasId'
  <2>1. CASE SetPayload(i)
    BY <2>1 DEF SetPayload, EntryHasId, TypeOK
  <2> QED
    BY <1>2, <2>1 DEF Push, FetchMessage, SetHeaders, Add, Trim, PushFails, Commit,
       Reread, EntryHasId
<1>3. ASSUME NEW c \in Consumers, Pop(c)
      PROVE  EntryHasId'
  BY <1>3 DEF Pop, BZPopMin, GetPayload, GetHeaders, ReadFails, Clear, Die,
     EntryHasId, TypeOK
<1>4. ASSUME NEW c \in Consumers, Pop(c)
      PROVE  PopKnows'
  <2>1. CASE BZPopMin(c)
    BY <2>1 DEF BZPopMin, Members, PopKnows, TypeOK
  <2>2. CASE GetPayload(c)
    BY <2>2 DEF GetPayload, PopKnows, TypeOK
  <2>3. CASE GetHeaders(c)
    BY <2>3 DEF GetHeaders, SameDigest, PopKnows, TypeOK
  <2>4. CASE ReadFails(c) \/ Clear(c) \/ Die(c)
    <3>1. PopEnds(c)
      BY <2>4 DEF ReadFails, Clear, Die
    <3> QED BY <3>1 DEF PopEnds, PopKnows, TypeOK
  <2> QED BY <1>4, <2>1, <2>2, <2>3, <2>4 DEF Pop
<1>5. ASSUME NEW c \in Consumers, Pop(c)
      PROVE  OwnHeaders'
  <2>1. CASE Clear(c)
    <3>1. heads[c] \in {load[c], Nothing}
      BY <2>1 DEF Clear, PopKnows
    <3> QED BY <2>1, <3>1 DEF Clear, OwnHeaders
  <2> QED
    BY <1>5, <2>1 DEF Pop, BZPopMin, GetPayload, GetHeaders, ReadFails, Die, OwnHeaders
<1>6. ASSUME NEW d \in Ids, Expire(d)
      PROVE  EntryHasId'
  BY <1>6 DEF Expire, EntryHasId, TypeOK
<1>7. (\E i \in Intakes : Push(i)) => UNCHANGED <<pop, given>>
  BY DEF Push, FetchMessage, SetPayload, SetHeaders, Add, Trim, PushFails, Commit,
     Reread
<1>8. (\E c \in Consumers : Pop(c)) => UNCHANGED intake
  BY DEF Pop, BZPopMin, GetPayload, GetHeaders, ReadFails, Clear, Die
<1>9. (\E d \in Ids : Expire(d)) => UNCHANGED <<intake, pop, given>>
  BY DEF Expire
<1>10. UNCHANGED <<pop, given>> => PopKnows' /\ OwnHeaders'
  BY DEF PopKnows, OwnHeaders
<1>11. UNCHANGED intake => InHandIsNext'
  BY DEF InHandIsNext, InHand
<1>12. UNCHANGED vars => EntryHasId' /\ UNCHANGED <<intake, pop, given>>
  BY DEF vars, EntryHasId
<1> QED
  BY <1>1, <1>2, <1>3, <1>4, <1>5, <1>6, <1>7, <1>8, <1>9, <1>10, <1>11, <1>12 DEF Next

---------------------------------------------------------------------------
(* Where messages go                                                       *)

(* A payload that expires is counted as lost.                              *)
LEMMA ExpiredIsLost ==
  ASSUME TypeOK, NEW d \in Ids, Expire(d), NEW k, NEW m \in Messages, m # Nothing,
         entry[k] = m
  PROVE  entry'[k] = m \/ m \in lost'
<1>1. CASE entry' = entry
  BY <1>1
<1>2. CASE entry' = [entry EXCEPT ![d] = Nothing] /\ k = d
  <2>1. entry'[d] = Nothing
    BY <1>2 DEF TypeOK
  <2> QED BY <1>2, <2>1 DEF Expire, Stored
<1>3. CASE entry' = [entry EXCEPT ![d] = Nothing] /\ k # d
  BY <1>3 DEF TypeOK
<1> QED BY <1>1, <1>2, <1>3 DEF Expire

LEMMA PlacedStays ==
  ASSUME IInv, [Next]_vars, NEW m \in Messages, IdOf[m] \in Ids, Placed(m)
  PROVE  Placed(m)'
<1> USE DEF intake, redis, pop
<1>t. TypeOK /\ m # Nothing
  BY PriorityIntakeAssumption DEF IInv
<1>1. ASSUME NEW i \in Intakes, SetPayload(i)
      PROVE  Placed(m)'
  <2>1. /\ entry' = [entry EXCEPT ![IdOf[InHand(i)]] = InHand(i)]
        /\ replaced' = (replaced \ {InHand(i)}) \cup (Stored(IdOf[InHand(i)]) \ {InHand(i)})
        /\ lost' = lost \ {InHand(i)} /\ given' = given
    BY <1>1 DEF SetPayload
  <2>2. IdOf[InHand(i)] \in Ids
    BY <1>1, InHandTypes DEF SetPayload, IInv
  <2>3. CASE m = InHand(i)
    BY <1>t, <2>1, <2>2, <2>3 DEF Placed, TypeOK
  <2>4. CASE m # InHand(i) /\ IdOf[m] = IdOf[InHand(i)]
    BY <1>t, <2>1, <2>4 DEF Placed, WasGiven, Stored
  <2>5. CASE m # InHand(i) /\ IdOf[m] # IdOf[InHand(i)]
    BY <1>t, <2>1, <2>5 DEF Placed, WasGiven, TypeOK
  <2> QED BY <2>3, <2>4, <2>5
<1>2. ASSUME NEW i \in Intakes, FetchMessage(i) \/ SetHeaders(i) \/ Add(i) \/ Trim(i)
      PROVE  Placed(m)'
  BY <1>2 DEF FetchMessage, SetHeaders, Add, Trim, Placed, WasGiven
<1>3. ASSUME NEW i \in Intakes, PushFails(i) \/ Commit(i) \/ Reread(i)
      PROVE  Placed(m)'
  BY <1>3 DEF PushFails, Commit, Reread, Placed, WasGiven
<1>4. ASSUME NEW c \in Consumers,
             BZPopMin(c) \/ GetPayload(c) \/ GetHeaders(c) \/ ReadFails(c) \/ Die(c)
      PROVE  Placed(m)'
  BY <1>4 DEF BZPopMin, GetPayload, GetHeaders, ReadFails, Die, Placed, WasGiven
<1>5. ASSUME NEW c \in Consumers, Clear(c)
      PROVE  Placed(m)'
  <2>1. given \subseteq given' /\ lost \subseteq lost' /\ replaced' = replaced
    BY <1>5 DEF Clear
  <2>2. CASE m \in replaced \cup lost \/ WasGiven(m)
    BY <2>1, <2>2 DEF Placed, WasGiven
  <2>3. CASE entry[IdOf[m]] = m /\ load[c] = m
    <3>1. <<m, heads[c]>> \in given' /\ <<m, heads[c]>>[1] = m
      BY <1>5, <1>t, <2>3 DEF Clear
    <3> QED BY <3>1 DEF Placed, WasGiven
  <2>4. CASE entry[IdOf[m]] = m /\ load[c] # m
    <3>1. entry' = entry \/ (entry' = [entry EXCEPT ![popped[c]] = Nothing]
                              /\ lost' = lost \cup (Stored(popped[c]) \ {load[c]}))
      BY <1>5 DEF Clear
    <3>2. IdOf[m] = popped[c] \/ entry'[IdOf[m]] = m \/ entry' = entry
      BY <1>t, <2>4, <3>1 DEF TypeOK
    <3> QED BY <1>t, <2>4, <3>1, <3>2 DEF Stored, Placed
  <2> QED BY <2>2, <2>3, <2>4 DEF Placed
<1>6. ASSUME NEW d \in Ids, Expire(d)
      PROVE  Placed(m)'
  <2>1. UNCHANGED <<given, replaced>> /\ lost \subseteq lost'
    BY <1>6 DEF Expire
  <2>2. entry[IdOf[m]] = m => entry'[IdOf[m]] = m \/ m \in lost'
    BY <1>6, <1>t, ExpiredIsLost
  <2> QED BY <2>1, <2>2 DEF Placed, WasGiven
<1>7. CASE UNCHANGED vars
  BY <1>7 DEF vars, Placed, WasGiven
<1> QED BY <1>1, <1>2, <1>3, <1>4, <1>5, <1>6, <1>7 DEF Next, Push, Pop

LEMMA KeptStays ==
  ASSUME IInv, [Next]_vars, NEW m \in Messages, Kept(m),
         \A i \in Intakes : SetPayload(i) => InHand(i) # m
  PROVE  Kept(m)'
<1> USE DEF intake, redis, pop, PopGoes
<1>t. TypeOK /\ m # Nothing /\ PopKnows /\ LoadIsPlaced
  BY PriorityIntakeAssumption DEF IInv
<1>n. SUFFICES ASSUME IdOf[m] \in Ids
               PROVE  Kept(m)'
  BY DEF Kept, Ids
<1>1. ASSUME NEW i \in Intakes, SetPayload(i)
      PROVE  Kept(m)'
  <2>1. /\ entry' = [entry EXCEPT ![IdOf[InHand(i)]] = InHand(i)] /\ m # InHand(i)
        /\ replaced' = (replaced \ {InHand(i)}) \cup (Stored(IdOf[InHand(i)]) \ {InHand(i)})
        /\ lost' = lost \ {InHand(i)} /\ UNCHANGED <<rank, pop, given>>
    BY <1>1 DEF SetPayload
  <2>2. CASE m \in replaced \cup lost \/ WasGiven(m) \/ \E c \in Consumers : load[c] = m
    BY <2>1, <2>2 DEF Kept, WasGiven, Reachable
  <2>3. CASE entry[IdOf[m]] = m /\ IdOf[m] = IdOf[InHand(i)]
    BY <1>t, <2>1, <2>3 DEF Kept, Stored
  <2>4. CASE Reachable(m) /\ entry[IdOf[m]] = m /\ IdOf[m] # IdOf[InHand(i)]
    BY <1>t, <2>1, <2>4 DEF Kept, Reachable, TypeOK
  <2> QED BY <1>n, <2>2, <2>3, <2>4 DEF Kept, Reachable, Ids
<1>2. ASSUME NEW i \in Intakes,
             FetchMessage(i) \/ SetHeaders(i) \/ PushFails(i) \/ Commit(i) \/ Reread(i)
      PROVE  Kept(m)'
  BY <1>2 DEF FetchMessage, SetHeaders, PushFails, Commit, Reread, Kept, Reachable,
     WasGiven
<1>3. ASSUME NEW i \in Intakes, Add(i)
      PROVE  Kept(m)'
  <2>1. InHand(i) \in Messages
    BY <1>3, InHandTypes DEF Add, IInv
  <2>2. RankOf[InHand(i)] > 0
    BY <2>1, PriorityIntakeAssumption
  <2>3. rank[IdOf[m]] > 0 => rank'[IdOf[m]] > 0
    BY <1>3, <1>t, <1>n, <2>2 DEF Add, TypeOK
  <2> QED BY <1>3, <2>3 DEF Add, Kept, Reachable, WasGiven
<1>4. ASSUME NEW i \in Intakes, Trim(i)
      PROVE  Kept(m)'
  <2>1. \/ UNCHANGED <<rank, lost>>
        \/ \E d \in Members : rank' = [rank EXCEPT ![d] = 0] /\ lost' = lost \cup Stored(d)
    BY <1>4 DEF Trim
  <2>2. UNCHANGED <<entry, pop, replaced, given>>
    BY <1>4 DEF Trim
  <2>3. rank[IdOf[m]] > 0 /\ entry[IdOf[m]] = m => rank'[IdOf[m]] > 0 \/ m \in lost'
    BY <1>t, <1>n, <2>1 DEF Stored, TypeOK
  <2>4. lost \subseteq lost'
    BY <2>1
  <2> QED BY <2>2, <2>3, <2>4 DEF Kept, Reachable, WasGiven
<1>5. ASSUME NEW c \in Consumers, BZPopMin(c)
      PROVE  Kept(m)'
  <2>1. PICK d \in Members :
          /\ rank' = [rank EXCEPT ![d] = 0]
          /\ \/ PopGoes(c, "payload") /\ popped' = [popped EXCEPT ![c] = d] /\ UNCHANGED lost
             \/ lost' = lost \cup Stored(d) /\ UNCHANGED <<at, popped>>
    BY <1>5 DEF BZPopMin
  <2>2. UNCHANGED <<entry, load, replaced, given>> /\ lost \subseteq lost' /\ at[c] = "pop"
    BY <1>5 DEF BZPopMin
  <2>3. CASE m \in replaced \cup lost \/ WasGiven(m) \/ \E e \in Consumers : load[e] = m
    BY <2>2, <2>3 DEF Kept, WasGiven, Reachable
  <2>4. CASE entry[IdOf[m]] = m /\ rank[IdOf[m]] > 0 /\ IdOf[m] # d
    BY <1>t, <2>1, <2>2, <2>4 DEF Kept, Reachable, TypeOK
  <2>5. CASE entry[IdOf[m]] = m /\ IdOf[m] = d
    BY <1>t, <2>1, <2>2, <2>5 DEF Kept, Reachable, Stored, TypeOK
  <2>6. CASE entry[IdOf[m]] = m /\ \E e \in Consumers : at[e] = "payload" /\ popped[e] = IdOf[m]
    BY <1>t, <2>1, <2>2, <2>6 DEF Kept, Reachable, TypeOK
  <2> QED BY <1>n, <2>3, <2>4, <2>5, <2>6 DEF Kept, Reachable, Ids
<1>6. ASSUME NEW c \in Consumers, GetPayload(c)
      PROVE  Kept(m)'
  <2>1. /\ at[c] = "payload" /\ load' = [load EXCEPT ![c] = entry[popped[c]]]
        /\ at' = [at EXCEPT ![c] = "header"] /\ UNCHANGED <<redis, popped, given, replaced, lost>>
    BY <1>6 DEF GetPayload
  <2>2. load[c] = Nothing
    BY <1>t, <2>1 DEF PopKnows
  <2> QED BY <1>t, <2>1, <2>2 DEF Kept, Reachable, WasGiven, TypeOK
<1>7. ASSUME NEW c \in Consumers, GetHeaders(c)
      PROVE  Kept(m)'
  BY <1>7, <1>t DEF GetHeaders, Kept, Reachable, WasGiven, TypeOK
<1>8. ASSUME NEW c \in Consumers, ReadFails(c) \/ Clear(c) \/ Die(c)
      PROVE  Kept(m)'
  <2>1. /\ \A e \in Consumers :
             e # c => at'[e] = at[e] /\ popped'[e] = popped[e] /\ load'[e] = load[e]
        /\ given \subseteq given' /\ lost \subseteq lost' /\ replaced' = replaced
    BY <1>8, <1>t DEF ReadFails, Clear, Die, PopEnds, TypeOK
  <2>2. CASE m \in replaced \cup lost \/ WasGiven(m) \/ \E e \in Consumers \ {c} : load[e] = m
    BY <2>1, <2>2 DEF Kept, WasGiven, Reachable
  <2>3. CASE load[c] = m
    <3>1. IdOf[m] = popped[c] /\ Placed(m) /\ at[c] \in {"header", "clear"} /\ score[c] > 0
      BY <1>t, <2>3 DEF LoadIsPlaced, PopKnows, TypeOK
    <3>2. CASE Clear(c)
      <4>1. <<m, heads[c]>> \in given' /\ <<m, heads[c]>>[1] = m
        BY <1>t, <2>3, <3>2 DEF Clear
      <4> QED BY <4>1 DEF Kept, WasGiven
    <3>3. CASE ReadFails(c) \/ Die(c)
      <4>1. m \in lost' \/ (rank'[IdOf[m]] > 0 /\ entry' = entry)
        BY <1>t, <1>n, <2>3, <3>1, <3>3 DEF ReadFails, Die, Restored, TypeOK
      <4>2. Placed(m)'
        BY PlacedStays, <1>n, <3>1
      <4> QED BY <4>1, <4>2 DEF Placed, Kept, Reachable
    <3> QED BY <1>8, <3>2, <3>3
  <2>4. CASE entry[IdOf[m]] = m /\ load[c] # m
             /\ (rank[IdOf[m]] > 0 \/ \E e \in Consumers : at[e] = "payload" /\ popped[e] = IdOf[m])
    <3>1. CASE Clear(c)
      BY <1>t, <1>n, <2>1, <2>4, <3>1 DEF Clear, Stored, Kept, Reachable, TypeOK
    <3>2. CASE ReadFails(c)
      <4>1. popped[c] \in Ids /\ score[c] > 0
        BY <1>t, <3>2 DEF ReadFails, PopKnows, TypeOK
      <4>2. /\ entry' = entry
            /\ rank[IdOf[m]] > 0 => rank'[IdOf[m]] > 0
            /\ popped[c] = IdOf[m] => rank'[IdOf[m]] > 0 \/ m \in lost'
        BY <1>t, <1>n, <2>4, <3>2, <4>1 DEF ReadFails, Restored, Stored, TypeOK
      <4> QED BY <2>1, <2>4, <4>2 DEF Kept, Reachable
    <3>3. CASE Die(c)
      <4>1. UNCHANGED redis /\ (popped[c] = IdOf[m] => m \in lost')
        BY <1>t, <2>4, <3>3 DEF Die, Stored
      <4> QED BY <2>1, <2>4, <4>1 DEF Kept, Reachable
    <3> QED BY <1>8, <3>1, <3>2, <3>3
  <2> QED BY <1>n, <2>2, <2>3, <2>4 DEF Kept, Reachable, Ids
<1>9. ASSUME NEW d \in Ids, Expire(d)
      PROVE  Kept(m)'
  <2>1. UNCHANGED <<rank, pop, given, replaced>> /\ lost \subseteq lost'
    BY <1>9 DEF Expire
  <2>2. entry[IdOf[m]] = m => entry'[IdOf[m]] = m \/ m \in lost'
    BY <1>9, <1>t, ExpiredIsLost
  <2> QED BY <2>1, <2>2 DEF Kept, Reachable, WasGiven
<1>10. CASE UNCHANGED vars
  BY <1>10 DEF vars, Kept, Reachable, WasGiven
<1> QED
  BY <1>1, <1>2, <1>3, <1>4, <1>5, <1>6, <1>7, <1>8, <1>9, <1>10 DEF Next, Push, Pop

---------------------------------------------------------------------------
(* What consumers have read, what intakes have pushed and committed        *)

LEMMA LoadStays == IInv /\ [Next]_vars => LoadIsPlaced'
<1> SUFFICES ASSUME IInv, [Next]_vars, NEW c \in Consumers, load'[c] # Nothing
             PROVE  IdOf[load'[c]] = popped'[c] /\ Placed(load[c])'
  BY DEF LoadIsPlaced
<1> USE DEF intake, redis, pop, PopGoes
<1>t. TypeOK /\ PopKnows /\ LoadIsPlaced /\ EntryHasId
  BY DEF IInv
<1>1. CASE load'[c] = load[c] /\ popped'[c] = popped[c]
  <2>1. load[c] \in Messages /\ IdOf[load[c]] = popped[c] /\ Placed(load[c])
    BY <1>1, <1>t DEF LoadIsPlaced, TypeOK, Opt
  <2>2. at[c] # "pop"
    BY <1>1, <1>t DEF PopKnows
  <2>3. IdOf[load[c]] \in Ids
    BY <1>t, <2>1, <2>2 DEF PopKnows
  <2> QED BY <1>1, <2>1, <2>3, PlacedStays DEF Placed, WasGiven
<1>2. CASE GetPayload(c)
  <2>1. load'[c] = entry[popped[c]] /\ UNCHANGED <<entry, popped>> /\ popped[c] \in Ids
    BY <1>2, <1>t DEF GetPayload, PopKnows, TypeOK
  <2>2. IdOf[load'[c]] = popped[c]
    BY <1>t, <2>1 DEF EntryHasId
  <2> QED BY <2>1, <2>2 DEF Placed
<1>3. ASSUME NEW e \in Consumers, Pop(e), e # c \/ ~GetPayload(c)
      PROVE  load'[c] = load[c] /\ popped'[c] = popped[c]
  <2>1. CASE e # c
    BY <1>3, <1>t, <2>1 DEF Pop, BZPopMin, GetPayload, GetHeaders, ReadFails, Clear,
       Die, PopEnds, TypeOK
  <2>2. CASE e = c /\ BZPopMin(c)
    <3>1. load' = load /\ at[c] = "pop"
      BY <2>2 DEF BZPopMin
    <3> QED BY <1>t, <3>1 DEF PopKnows
  <2>3. CASE e = c /\ GetHeaders(c)
    BY <2>3 DEF GetHeaders
  <2>4. CASE e = c /\ (ReadFails(c) \/ Clear(c) \/ Die(c))
    <3>1. load' = [load EXCEPT ![c] = Nothing]
      BY <2>4 DEF ReadFails, Clear, Die, PopEnds
    <3> QED BY <1>t, <3>1 DEF TypeOK
  <2> QED BY <1>3, <2>1, <2>2, <2>3, <2>4 DEF Pop
<1>4. (\E i \in Intakes : Push(i)) \/ (\E d \in Ids : Expire(d)) \/ UNCHANGED vars => UNCHANGED pop
  BY DEF vars, Push, FetchMessage, SetPayload, SetHeaders, Add, Trim, PushFails,
     Commit, Reread, Expire
<1> QED BY <1>1, <1>2, <1>3, <1>4 DEF Next

(* The message that an intake has in hand is no other intake's, and not a  *)
(* committed one.                                                          *)
LEMMA InHandIsOwn ==
  ASSUME TypeOK, InHandIsNext, NEW i \in Intakes, step[i] # "fetch"
  PROVE  /\ \A j \in Intakes : j # i /\ step[j] # "fetch" => InHand(j) # InHand(i)
         /\ \A j \in Intakes : \A o \in 1..committed[j] :
              o \in 1..Len(Log[j]) /\ Log[j][o] # InHand(i)
<1>1. next[i] \in 1..Len(Log[i])
  BY InHandTypes
<1>2. ASSUME NEW j \in Intakes, j # i, step[j] # "fetch"
      PROVE  InHand(j) # InHand(i)
  BY <1>1, <1>2, InHandTypes, PriorityIntakeAssumption DEF InHand
<1>3. ASSUME NEW j \in Intakes, NEW o \in 1..committed[j]
      PROVE  o \in 1..Len(Log[j]) /\ Log[j][o] # InHand(i)
  <2>1. Len(Log[j]) \in Nat /\ committed[j] \in Nat /\ committed[j] <= Len(Log[j])
    BY PriorityIntakeAssumption, LenProperties DEF TypeOK, InHandIsNext
  <2>2. o \in 1..Len(Log[j])
    BY <2>1
  <2>3. j = i => o # next[i]
    BY <2>1 DEF InHandIsNext, TypeOK
  <2> QED BY <1>1, <2>2, <2>3, PriorityIntakeAssumption DEF InHand
<1> QED BY <1>2, <1>3

LEMMA PushStandsStays == IInv /\ [Next]_vars => PushStands'
<1> SUFFICES ASSUME IInv, [Next]_vars, NEW j \in Intakes
             PROVE  /\ step'[j] \in {"header", "add"} => Placed(InHand(j))'
                    /\ step'[j] \in {"trim", "commit"} => Kept(InHand(j))'
  BY DEF PushStands
<1> USE DEF intake, redis, pop, Goes
<1>t. TypeOK /\ InHandIsNext /\ PushStands
  BY DEF IInv
<1> DEFINE m == InHand(j)
<1>1. ASSUME step'[j] = step[j], next'[j] = next[j], \A i \in Intakes : SetPayload(i) => i # j
      PROVE  /\ step'[j] \in {"header", "add"} => Placed(InHand(j))'
             /\ step'[j] \in {"trim", "commit"} => Kept(InHand(j))'
  <2>1. InHand(j)' = m
    BY <1>1 DEF InHand
  <2>2. CASE step[j] \in {"header", "add"}
    <3>1. m \in Messages /\ IdOf[m] \in Ids /\ Placed(m)
      BY <1>t, <2>2, InHandTypes DEF PushStands
    <3> QED BY <1>1, <2>1, <2>2, <3>1, PlacedStays DEF Placed, WasGiven
  <2>3. CASE step[j] \in {"trim", "commit"}
    <3>1. m \in Messages /\ Kept(m)
      BY <1>t, <2>3, InHandTypes DEF PushStands
    <3>2. ASSUME NEW i \in Intakes, SetPayload(i)
          PROVE  InHand(i) # m
      BY <1>1, <1>t, <2>3, <3>2, InHandIsOwn DEF SetPayload
    <3> QED BY <1>1, <2>1, <2>3, <3>1, <3>2, KeptStays DEF Kept, Reachable, WasGiven
  <2> QED BY <1>1, <2>2, <2>3
<1>2. CASE FetchMessage(j)
  <2>1. /\ step'[j] \in {"payload", "commit"} /\ InHand(j)' = m
        /\ step'[j] = "commit" => IdOf[m] = NoId
    BY <1>2, <1>t DEF FetchMessage, InHand, TypeOK
  <2> QED BY <2>1 DEF Kept
<1>3. CASE SetPayload(j)
  <2>1. IdOf[m] \in Ids
    BY <1>3, <1>t, InHandTypes DEF SetPayload
  <2>2. step'[j] = "header" /\ InHand(j)' = m /\ entry'[IdOf[m]] = m
    BY <1>3, <1>t, <2>1 DEF SetPayload, InHand, TypeOK
  <2> QED BY <2>2 DEF Placed
<1>4. CASE SetHeaders(j)
  <2>1. /\ step'[j] = "add" /\ InHand(j)' = m /\ Placed(m)
        /\ UNCHANGED <<entry, replaced, lost, given>>
    BY <1>4, <1>t DEF SetHeaders, InHand, PushStands, TypeOK
  <2> QED BY <2>1 DEF Placed, WasGiven
<1>5. CASE Add(j)
  <2>1. m \in Messages /\ IdOf[m] \in Ids /\ Placed(m)
    BY <1>5, <1>t, InHandTypes DEF Add, PushStands
  <2>2. RankOf[m] > 0
    BY <2>1, PriorityIntakeAssumption
  <2>3. /\ step'[j] = "trim" /\ InHand(j)' = m /\ rank'[IdOf[m]] > 0
        /\ UNCHANGED <<entry, replaced, lost, given>>
    BY <1>5, <1>t, <2>1, <2>2 DEF Add, InHand, TypeOK
  <2> QED BY <2>1, <2>3 DEF Placed, Kept, Reachable, WasGiven
<1>6. CASE Trim(j)
  <2>1. m \in Messages /\ Kept(m)
    BY <1>6, <1>t, InHandTypes DEF Trim, PushStands
  <2>2. \A i \in Intakes : SetPayload(i) => InHand(i) # m
    BY <1>6, <1>t, InHandIsOwn DEF SetPayload, Trim
  <2>3. step'[j] \in {"trim", "commit"} /\ InHand(j)' = m
    BY <1>6, <1>t DEF Trim, InHand, TypeOK
  <2> QED BY <2>1, <2>2, <2>3, KeptStays DEF Kept, Reachable, WasGiven
<1>7. CASE PushFails(j) \/ Commit(j) \/ Reread(j)
  <2>1. step'[j] = "fetch"
    BY <1>7, <1>t DEF PushFails, Commit, Reread, NextOffset, TypeOK
  <2> QED BY <2>1
<1>8. ASSUME NEW i \in Intakes, Push(i), i # j
      PROVE  step'[j] = step[j] /\ next'[j] = next[j]
  BY <1>8, <1>t DEF Push, FetchMessage, SetPayload, SetHeaders, Add, Trim, PushFails,
     Commit,
                    Reread, NextOffset, TypeOK
<1>9. (\E c \in Consumers : Pop(c)) \/ (\E d \in Ids : Expire(d)) \/ UNCHANGED vars
      => UNCHANGED intake
  BY DEF vars, Pop, BZPopMin, GetPayload, GetHeaders, ReadFails, Clear, Die, Expire
<1>10. ASSUME NEW i \in Intakes, SetPayload(i)
       PROVE  step[i] # step'[i]
  BY <1>10, <1>t DEF SetPayload, TypeOK
<1> QED BY <1>1, <1>2, <1>3, <1>4, <1>5, <1>6, <1>7, <1>8, <1>9, <1>10 DEF Next, Push

LEMMA CommittedStays == IInv /\ [Next]_vars => CommittedIsKept'
<1> SUFFICES ASSUME IInv, [Next]_vars, NEW j \in Intakes, NEW o \in 1..committed'[j]
             PROVE  Kept(Log[j][o])'
  BY DEF CommittedIsKept, Kept, WasGiven
<1> USE DEF intake, redis, pop, Goes
<1>t. TypeOK /\ InHandIsNext /\ PushStands
  BY DEF IInv
<1> DEFINE m == Log[j][o]
<1>1. CASE o \in 1..committed[j]
  <2>1. o \in 1..Len(Log[j])
    BY <1>1, <1>t, PriorityIntakeAssumption, LenProperties DEF InHandIsNext, TypeOK
  <2>2. m \in Messages /\ Kept(m)
    BY <1>1, <2>1, LogTypes DEF IInv, CommittedIsKept, Kept, WasGiven
  <2>3. \A i \in Intakes : SetPayload(i) => InHand(i) # m
    BY <1>1, <1>t, InHandIsOwn DEF SetPayload
  <2> QED BY <2>2, <2>3, KeptStays
<1>2. CASE o \notin 1..committed[j]
  <2>1. Commit(j) /\ committed'[j] = next[j]
    <3>1. committed'[j] # committed[j]
      BY <1>2
    <3>2. \A i \in Intakes : Push(i) => i = j /\ Commit(i)
      BY <1>t, <3>1 DEF Push, FetchMessage, SetPayload, SetHeaders, Add, Trim,
         PushFails, Commit,
                        Reread, TypeOK
    <3>3. \E i \in Intakes : Push(i)
      BY <3>1 DEF Next, vars, Pop, BZPopMin, GetPayload, GetHeaders, ReadFails,
         Clear, Die, Expire
    <3> QED BY <1>t, <3>1, <3>2, <3>3 DEF Commit, TypeOK
  <2>2. lost' = lost \cup {Log[j][p] : p \in (committed[j] + 1)..(next[j] - 1)}
    BY <2>1, <1>t, <1>2 DEF Commit, TypeOK
  <2>3. CASE o = next[j]
    <3>1. /\ m = InHand(j) /\ Kept(m) /\ lost \subseteq lost'
          /\ UNCHANGED <<redis, pop, given, replaced>>
      BY <1>t, <2>1, <2>2, <2>3 DEF Commit, InHand, PushStands
    <3> QED BY <3>1 DEF Kept, Reachable, WasGiven
  <2>4. CASE o # next[j]
    <3>1. o \in (committed[j] + 1)..(next[j] - 1)
      BY <1>t, <1>2, <2>1, <2>4 DEF TypeOK
    <3> QED BY <2>2, <3>1 DEF Kept
  <2> QED BY <2>3, <2>4
<1> QED BY <1>1, <1>2

LEMMA IInvHolds == Spec => []IInv
<1>1. IInv /\ [Next]_vars => IInv'
  BY TypesStay, LocalsStay, LoadStays, PushStandsStays, CommittedStays DEF IInv
<1> QED BY InitIInv, <1>1, PTL DEF Spec

(* The types of the intake's state are as declared.                        *)
THEOREM PriorityIntakeTypes == Spec => []TypeOK
BY IInvHolds, PTL DEF IInv

(* What a worker receives from the priority queue has its own headers or   *)
(* none: pushes of one ID interleave, command by command, with each other  *)
(* and with a pop, and the digest keeps another message's headers out.     *)
THEOREM HeadersAreOwn == Spec => []OwnHeaders
BY IInvHolds, PTL DEF IInv

(* A committed message has reached a worker or still can, or is overwritten*)
(* by a later one of its ID, or is lost to a cause with a name.            *)
THEOREM CommittedMessageIsKept == Spec => []CommittedIsKept
BY IInvHolds, PTL DEF IInv

(***************************************************************************)
(* The rate limits of sources.                                             *)
(***************************************************************************)

(* Where an answer "no limit" can be on its way, there is a reason for it: *)
(* a row that is without a limit now, a cached answer, a call that has one. *)
FreeHasReason ==
  /\ Sites \ limited \subseteq everFree
  /\ \A s \in Sites : FALSE \in config[s] => s \in everFree
  /\ \A c \in Callers : call[c].step = "limiter" /\ ~call[c].rate =>
                          c \in doubted \/ call[c].site \in everFree

(* A call that is under way is one for a host. *)
CallHasSite == \A c \in Callers : call[c].step # "idle" => call[c].site \in Sites

LimitsIInv == LimitsTypeOK /\ CallHasSite /\ FreeHasReason /\ OpenForAReason

LEMMA LimitsInitIInv == LimitsInit => LimitsIInv
<1> SUFFICES ASSUME LimitsInit PROVE LimitsIInv
  OBVIOUS
<1>1. LimitsTypeOK
  BY SourceLimitsAssumption DEF LimitsInit, LimitsTypeOK, NoCall, CallSteps
<1>2. CallHasSite /\ FreeHasReason /\ OpenForAReason
  BY DEF LimitsInit, CallHasSite, FreeHasReason, OpenForAReason, NoCall
<1> QED BY <1>1, <1>2 DEF LimitsIInv

(* A call that moves on, and keeps its host and rate. *)
LEMMA MovesKeep ==
  ASSUME LimitsIInv, NEW c \in Callers, NEW to \in CallSteps,
         call[c].step # "idle", to # "limiter", Moves(c, to)
  PROVE  /\ call' \in [Callers -> [step : CallSteps, site : Sites \cup {NoSite}, rate : BOOLEAN]]
         /\ CallHasSite'
         /\ \A d \in Callers : call'[d].step = "limiter" => call'[d] = call[d]
<1>1. call \in [Callers -> [step : CallSteps, site : Sites \cup {NoSite}, rate : BOOLEAN]]
  BY DEF LimitsIInv, LimitsTypeOK
<1>2. call' = [call EXCEPT ![c].step = to]
  BY DEF Moves
<1>3. call' \in [Callers -> [step : CallSteps, site : Sites \cup {NoSite}, rate : BOOLEAN]]
  BY <1>1, <1>2
<1>4. \A d \in Callers : call'[d].site = call[d].site /\ (d # c => call'[d] = call[d])
  BY <1>1, <1>2
<1>5. call'[c].step = to
  BY <1>1, <1>2
<1> QED BY <1>3, <1>4, <1>5 DEF LimitsIInv, CallHasSite

LEMMA EndsKeep ==
  ASSUME LimitsIInv, NEW c \in Callers, Ends(c)
  PROVE  /\ call' \in [Callers -> [step : CallSteps, site : Sites \cup {NoSite}, rate : BOOLEAN]]
         /\ doubted' \subseteq Callers
         /\ CallHasSite'
         /\ \A d \in Callers : call'[d].step = "limiter" =>
              call'[d] = call[d] /\ (d \in doubted => d \in doubted')
<1>1. call \in [Callers -> [step : CallSteps, site : Sites \cup {NoSite}, rate : BOOLEAN]]
  BY DEF LimitsIInv, LimitsTypeOK
<1>2. call' = [call EXCEPT ![c] = NoCall] /\ doubted' = doubted \ {c}
  BY DEF Ends
<1>3. NoCall \in [step : CallSteps, site : Sites \cup {NoSite}, rate : BOOLEAN]
      /\ NoCall.step = "idle"
  BY DEF NoCall, CallSteps
<1>4. call'[c] = NoCall /\ \A d \in Callers : d # c => call'[d] = call[d]
  BY <1>1, <1>2
<1>5. call' \in [Callers -> [step : CallSteps, site : Sites \cup {NoSite}, rate : BOOLEAN]]
  BY <1>1, <1>2, <1>3
<1> QED BY <1>2, <1>3, <1>4, <1>5 DEF LimitsIInv, LimitsTypeOK, CallHasSite

LEMMA QueryAnswered ==
  ASSUME LimitsIInv, NEW c \in Callers, NEW rate \in BOOLEAN, CallAt(c, "query"), Answered(c, rate)
  PROVE  /\ call' \in [Callers -> [step : CallSteps, site : Sites \cup {NoSite}, rate : BOOLEAN]]
         /\ CallHasSite'
         /\ \A d \in Callers :
              IF d \in Sharing(c)
              THEN call'[d].site = call[c].site /\ call'[d].rate = rate
              ELSE call'[d] = call[d]
<1>1. call \in [Callers -> [step : CallSteps, site : Sites \cup {NoSite}, rate : BOOLEAN]]
  BY DEF LimitsIInv, LimitsTypeOK
<1>2. call' = [d \in Callers |-> IF d \in Sharing(c)
                                   THEN [call[d] EXCEPT !.step = "limiter", !.rate = rate]
                                   ELSE call[d]]
  BY DEF Answered
<1>3. \A d \in Sharing(c) : d \in Callers /\ call[d].site = call[c].site
  BY DEF Sharing, Flight, Site
<1>4. \A d \in Callers : d \in Sharing(c) =>
        /\ call'[d] \in [step : CallSteps, site : Sites \cup {NoSite}, rate : BOOLEAN]
        /\ call'[d].site = call[d].site /\ call'[d].rate = rate
  BY <1>1, <1>2 DEF CallSteps
<1>5. \A d \in Callers : d \notin Sharing(c) => call'[d] = call[d]
  BY <1>2
<1>6. call' \in [Callers -> [step : CallSteps, site : Sites \cup {NoSite}, rate : BOOLEAN]]
  <2>1. call' = [d \in Callers |-> call'[d]]
    BY <1>2
  <2> QED BY <1>1, <1>4, <1>5, <2>1
<1>7. call[c].site \in Sites
  BY DEF LimitsIInv, CallHasSite, CallAt
<1>8. CallHasSite'
  BY <1>3, <1>4, <1>5, <1>7 DEF LimitsIInv, CallHasSite
<1> QED BY <1>3, <1>4, <1>5, <1>6, <1>8

(* The look-ups of a call: address, cache and query. *)
LEMMA LookUps ==
  ASSUME LimitsIInv, NEW c \in Callers,
         \/ \E s \in Sites : Get(c, s)
         \/ Resolved(c) \/ Unresolved(c) \/ Cached(c) \/ Missed(c) \/ RowRead(c) \/ QueryFails(c)
  PROVE  LimitsIInv'
<1> USE DEF LimitsIInv
<1>0. call \in [Callers -> [step : CallSteps, site : Sites \cup {NoSite}, rate : BOOLEAN]]
  BY DEF LimitsTypeOK
<1>1. ASSUME NEW s \in Sites, Get(c, s) PROVE LimitsIInv'
  <2> DEFINE new == [NoCall EXCEPT !.step = "resolve", !.site = s]
  <2>0. /\ new \in [step : CallSteps, site : Sites \cup {NoSite}, rate : BOOLEAN]
        /\ new.step = "resolve" /\ new.site = s
    BY DEF NoCall, CallSteps
  <2>1. call' = [call EXCEPT ![c] = new]
    BY <1>1 DEF Get
  <2> HIDE DEF new
  <2>2. call'[c] = new /\ \A d \in Callers : d # c => call'[d] = call[d]
    BY <1>0, <2>1
  <2>3. call' \in [Callers -> [step : CallSteps, site : Sites \cup {NoSite}, rate : BOOLEAN]]
    BY <1>0, <2>0, <2>1
  <2>4. LimitsTypeOK'
    BY <1>1, <2>3 DEF Get, LimitsTypeOK, limits, why
  <2>5. CallHasSite'
    BY <2>0, <2>2 DEF CallHasSite
  <2>6. FreeHasReason'
    <3>1. \A d \in Callers : call'[d].step = "limiter" => call'[d] = call[d]
      BY <2>0, <2>2
    <3>2. UNCHANGED <<limited, config, doubted, everFree>>
      BY <1>1 DEF Get, why
    <3> QED BY <3>1, <3>2 DEF FreeHasReason
  <2>7. OpenForAReason'
    BY <1>1 DEF Get, OpenForAReason, limits, why
  <2> QED BY <2>4, <2>5, <2>6, <2>7
<1>2. CASE Resolved(c)
  <2>1. /\ CallHasSite'
        /\ call' \in [Callers -> [step : CallSteps, site : Sites \cup {NoSite}, rate : BOOLEAN]]
        /\ \A d \in Callers : call'[d].step = "limiter" => call'[d] = call[d]
    BY <1>2, MovesKeep DEF Resolved, CallAt, CallSteps
  <2> QED
    BY <1>2, <2>1 DEF Resolved, LimitsTypeOK, FreeHasReason, OpenForAReason, limits, why
<1>3. CASE Unresolved(c)
  <2>1. /\ call' \in [Callers -> [step : CallSteps, site : Sites \cup {NoSite}, rate : BOOLEAN]]
        /\ doubted' \subseteq Callers /\ CallHasSite'
        /\ \A d \in Callers : call'[d].step = "limiter" =>
             call'[d] = call[d] /\ (d \in doubted => d \in doubted')
    BY <1>3, EndsKeep DEF Unresolved
  <2>2. upsets' \in 0..MaxUpsets
    BY <1>3, SourceLimitsAssumption DEF Unresolved, Upset, LimitsTypeOK
  <2> QED BY <1>3, <2>1, <2>2
          DEF Unresolved, LimitsTypeOK, FreeHasReason, OpenForAReason, limits
<1>4. CASE Cached(c)
  <2>1. PICK rate \in config[call[c].site] :
          call' = [call EXCEPT ![c].step = "limiter", ![c].rate = rate]
    BY <1>4 DEF Cached, Site
  <2>2. call[c].site \in Sites
    BY <1>4 DEF Cached, CallAt, CallHasSite
  <2>3. rate \in BOOLEAN
    BY <2>1, <2>2 DEF LimitsTypeOK
  <2>4. call'[c].site = call[c].site /\ call'[c].rate = rate
        /\ \A d \in Callers : d # c => call'[d] = call[d]
    BY <1>0, <2>1
  <2>5. call' \in [Callers -> [step : CallSteps, site : Sites \cup {NoSite}, rate : BOOLEAN]]
    BY <1>0, <2>1, <2>3 DEF CallSteps
  <2>6. ~rate => call[c].site \in everFree
    BY <2>1, <2>2, <2>3 DEF FreeHasReason
  <2>7. LimitsTypeOK'
    BY <1>4, <2>5 DEF Cached, LimitsTypeOK, limits, why
  <2>8. CallHasSite' /\ FreeHasReason' /\ OpenForAReason'
    BY <1>4, <2>2, <2>4, <2>6 DEF Cached, CallHasSite, FreeHasReason, OpenForAReason,
       limits, why
  <2> QED BY <2>7, <2>8
<1>5. CASE Missed(c)
  <2>1. /\ CallHasSite'
        /\ call' \in [Callers -> [step : CallSteps, site : Sites \cup {NoSite}, rate : BOOLEAN]]
        /\ \A d \in Callers : call'[d].step = "limiter" => call'[d] = call[d]
    BY <1>5, MovesKeep DEF Missed, CallAt, CallSteps
  <2> QED
    BY <1>5, <2>1 DEF Missed, LimitsTypeOK, FreeHasReason, OpenForAReason, limits, why
<1>6. CASE RowRead(c)
  <2> DEFINE rate == call[c].site \in limited
  <2>1. /\ CallAt(c, "query") /\ Answered(c, rate)
        /\ config' = [config EXCEPT ![call[c].site] = {rate}]
    BY <1>6 DEF RowRead, Site
  <2>2. rate \in BOOLEAN
    OBVIOUS
  <2>3. call[c].site \in Sites
    BY <2>1 DEF CallAt, CallHasSite
  <2> HIDE DEF rate
  <2>4. /\ call' \in [Callers -> [step : CallSteps, site : Sites \cup {NoSite}, rate : BOOLEAN]]
        /\ CallHasSite'
        /\ \A d \in Callers : IF d \in Sharing(c)
                              THEN call'[d].site = call[c].site /\ call'[d].rate = rate
                              ELSE call'[d] = call[d]
    BY <2>1, <2>2, QueryAnswered
  <2>5. config' \in [Sites -> SUBSET BOOLEAN]
    BY <2>1, <2>2, <2>3 DEF LimitsTypeOK
  <2>6. ~rate => call[c].site \in everFree
    BY <2>3 DEF FreeHasReason, rate
  <2>7. \A s \in Sites : FALSE \in config'[s] => s \in everFree
    <3>1. \A s \in Sites : config'[s] = IF s = call[c].site THEN {rate} ELSE config[s]
      BY <2>1 DEF LimitsTypeOK
    <3> QED BY <3>1, <2>2, <2>6 DEF FreeHasReason
  <2>8. LimitsTypeOK'
    BY <1>6, <2>4, <2>5 DEF RowRead, LimitsTypeOK, limits, why
  <2>9. FreeHasReason' /\ OpenForAReason'
    BY <1>6, <2>4, <2>6, <2>7 DEF RowRead, FreeHasReason, OpenForAReason, limits, why
  <2> QED BY <2>4, <2>8, <2>9
<1>7. CASE QueryFails(c)
  <2>1. /\ call' \in [Callers -> [step : CallSteps, site : Sites \cup {NoSite}, rate : BOOLEAN]]
        /\ CallHasSite'
        /\ \A d \in Callers : IF d \in Sharing(c)
                              THEN call'[d].site = call[c].site /\ call'[d].rate = FALSE
                              ELSE call'[d] = call[d]
    BY <1>7, QueryAnswered DEF QueryFails
  <2>2. Sharing(c) \subseteq Callers
    BY DEF Sharing
  <2>3. upsets' \in 0..MaxUpsets
    BY <1>7, SourceLimitsAssumption DEF QueryFails, Upset, LimitsTypeOK
  <2>4. LimitsTypeOK'
    BY <1>7, <2>1, <2>2, <2>3 DEF QueryFails, LimitsTypeOK, limits
  <2>5. FreeHasReason' /\ OpenForAReason'
    BY <1>7, <2>1 DEF QueryFails, FreeHasReason, OpenForAReason, limits
  <2> QED BY <2>1, <2>4, <2>5
<1> QED BY <1>1, <1>2, <1>3, <1>4, <1>5, <1>6, <1>7

(* The limiter of an address: made, kept, evicted, waited for. *)
LEMMA Limiters ==
  ASSUME LimitsIInv, NEW c \in Callers, GetLimiter(c) \/ TakeToken(c) \/ NoLimit(c) \/ WaitEnds(c)
  PROVE  LimitsIInv'
<1> USE DEF LimitsIInv
<1>0. call \in [Callers -> [step : CallSteps, site : Sites \cup {NoSite}, rate : BOOLEAN]]
  BY DEF LimitsTypeOK
<1>1. CASE GetLimiter(c)
  <2>1. call[c].site \in Sites /\ Address(c) \in Addresses
    BY <1>1, SourceLimitsAssumption DEF GetLimiter, CallAt, CallHasSite, Address, Site
  <2>2. /\ CallHasSite'
        /\ call' \in [Callers -> [step : CallSteps, site : Sites \cup {NoSite}, rate : BOOLEAN]]
        /\ \A d \in Callers : call'[d].step = "limiter" => call'[d] = call[d]
    BY <1>1, MovesKeep DEF GetLimiter, CallAt, CallSteps
  <2>3. FreeHasReason'
    BY <1>1, <2>2 DEF GetLimiter, FreeHasReason
  <2>4. ~call[c].rate => c \in doubted \/ call[c].site \in everFree
    BY <1>1 DEF GetLimiter, CallAt, FreeHasReason
  <2>5. CASE Address(c) \in made
    <3>1. LimitsTypeOK'
      BY <1>1, <2>2, <2>5 DEF GetLimiter, LimitsTypeOK
    <3>2. OpenForAReason'
      BY <1>1, <2>5 DEF GetLimiter, OpenForAReason
    <3> QED BY <2>2, <2>3, <3>1, <3>2
  <2>6. CASE Address(c) \notin made
    <3>1. /\ made' = inUse \cup {Address(c)} /\ inUse' = inUse \cup {Address(c)}
          /\ unlimited' = (unlimited \cap inUse)
                            \cup (IF call[c].rate THEN {} ELSE {Address(c)})
          /\ opened' = (opened \cap inUse)
                         \cup (IF c \in doubted THEN {Address(c)} ELSE {})
      BY <1>1, <2>6 DEF GetLimiter
    <3>2. tokens' \in [Addresses -> 0..Burst]
      <4>1. Burst \in 0..Burst /\ 0 \in 0..Burst
        BY SourceLimitsAssumption
      <4> QED BY <1>1, <2>6, <4>1 DEF GetLimiter, LimitsTypeOK
    <3>3. LimitsTypeOK'
      BY <1>1, <2>1, <2>2, <3>1, <3>2 DEF GetLimiter, LimitsTypeOK
    <3>4. OpenForAReason'
      <4> SUFFICES ASSUME NEW a \in unlimited' \ opened' PROVE \E s \in everFree' : AddressOf[s] = a
        BY DEF OpenForAReason
      <4>0. everFree' = everFree
        BY <1>1 DEF GetLimiter
      <4>1. CASE a \in unlimited
        <5>1. a \notin opened
          BY <3>1, <4>1, <2>6 DEF LimitsTypeOK
        <5> QED BY <4>0, <4>1, <5>1 DEF OpenForAReason
      <4>2. CASE a \notin unlimited
        <5>1. a = Address(c) /\ ~call[c].rate /\ c \notin doubted
          BY <3>1, <4>2
        <5> QED BY <2>4, <4>0, <5>1 DEF Address, Site
      <4> QED BY <4>1, <4>2
    <3> QED BY <2>2, <2>3, <3>3, <3>4
  <2> QED BY <2>5, <2>6
<1>2. CASE TakeToken(c) \/ NoLimit(c) \/ WaitEnds(c)
  <2>1. Ends(c)
    BY <1>2 DEF TakeToken, NoLimit, WaitEnds
  <2>2. /\ call' \in [Callers -> [step : CallSteps, site : Sites \cup {NoSite}, rate : BOOLEAN]]
        /\ doubted' \subseteq Callers /\ CallHasSite'
        /\ \A d \in Callers : call'[d].step = "limiter" =>
             call'[d] = call[d] /\ (d \in doubted => d \in doubted')
    BY <2>1, EndsKeep
  <2>3. /\ UNCHANGED <<limited, config, made, unlimited, inUse, upsets, opened, everFree>>
        /\ tokens' \in [Addresses -> 0..Burst]
    <3>1. CASE TakeToken(c)
      <4>1. call[c].site \in Sites /\ Address(c) \in Addresses
        BY <3>1, SourceLimitsAssumption DEF TakeToken, CallAt, CallHasSite, Address,
           Site
      <4>2. tokens[Address(c)] - 1 \in 0..Burst
        BY <3>1, <4>1, SourceLimitsAssumption DEF TakeToken, LimitsTypeOK
      <4> QED BY <3>1, <4>2 DEF TakeToken, LimitsTypeOK
    <3>2. CASE NoLimit(c) \/ WaitEnds(c)
      BY <3>2 DEF NoLimit, WaitEnds, limits, LimitsTypeOK
    <3> QED BY <1>2, <3>1, <3>2
  <2>4. LimitsTypeOK'
    BY <2>2, <2>3 DEF LimitsTypeOK
  <2>5. FreeHasReason' /\ OpenForAReason'
    BY <2>2, <2>3 DEF FreeHasReason, OpenForAReason
  <2> QED BY <2>2, <2>4, <2>5
<1> QED BY <1>1, <1>2

(* Time and the operator: an edit is remembered as a reason. *)
LEMMA Environment ==
  ASSUME LimitsIInv,
         \/ \E a \in Addresses : Refill(a) \/ Unused(a)
         \/ \E s \in Sites : CacheEnds(s) \/ EditRate(s)
  PROVE  LimitsIInv'
<1> USE DEF LimitsIInv
<1>1. ASSUME NEW a \in Addresses, Refill(a) PROVE LimitsIInv'
  <2>1. tokens' \in [Addresses -> 0..Burst]
    <3>1. tokens[a] + 1 \in 0..Burst
      BY <1>1, SourceLimitsAssumption DEF Refill, LimitsTypeOK
    <3> QED BY <1>1, <3>1 DEF Refill, LimitsTypeOK
  <2> QED BY <1>1, <2>1
          DEF Refill, LimitsTypeOK, CallHasSite, FreeHasReason, OpenForAReason, why
<1>2. ASSUME NEW a \in Addresses, Unused(a) PROVE LimitsIInv'
  BY <1>2 DEF Unused, LimitsTypeOK, CallHasSite, FreeHasReason, OpenForAReason, why
<1>3. ASSUME NEW s \in Sites, CacheEnds(s) PROVE LimitsIInv'
  <2>1. config' \in [Sites -> SUBSET BOOLEAN]
        /\ \A t \in Sites : config'[t] = IF t = s THEN {} ELSE config[t]
    BY <1>3 DEF CacheEnds, LimitsTypeOK
  <2> QED BY <1>3, <2>1
          DEF CacheEnds, LimitsTypeOK, CallHasSite, FreeHasReason, OpenForAReason,
             limits, why
<1>4. ASSUME NEW s \in Sites, EditRate(s) PROVE LimitsIInv'
  <2>1. upsets' \in 0..MaxUpsets
    BY <1>4, SourceLimitsAssumption DEF EditRate, Upset, LimitsTypeOK
  <2>2. limited' \subseteq Sites
    BY <1>4 DEF EditRate, LimitsTypeOK
  <2>3. everFree' = everFree \cup (Sites \ limited')
    BY <1>4 DEF EditRate
  <2> QED BY <1>4, <2>1, <2>2, <2>3
          DEF EditRate, LimitsTypeOK, CallHasSite, FreeHasReason, OpenForAReason, limits
<1> QED BY <1>1, <1>2, <1>3, <1>4

LEMMA Stutter == ASSUME LimitsIInv, UNCHANGED limitVars PROVE LimitsIInv'
  BY DEF LimitsIInv, LimitsTypeOK, CallHasSite, FreeHasReason, OpenForAReason,
     limitVars, limits, why

LEMMA LimitsStepIInv == LimitsIInv /\ [LimitsNext]_limitVars => LimitsIInv'
<1> SUFFICES ASSUME LimitsIInv, [LimitsNext]_limitVars PROVE LimitsIInv'
  OBVIOUS
<1>1. CASE LimitsNext
  BY <1>1, LookUps, Limiters, Environment DEF LimitsNext
<1>2. CASE UNCHANGED limitVars
  BY <1>2, Stutter
<1> QED BY <1>1, <1>2

(* A limit is lifted by a row, or by the failed query of the call that     *)
(* made the limiter: no failure is remembered in the cache, and none goes  *)
(* from one address to another (Resolve and getOrCreate of rate_limiter).  *)
THEOREM LiftedForAReason == LimitsSpec => []OpenForAReason
<1>1. LimitsIInv => OpenForAReason
  BY DEF LimitsIInv
<1> QED BY <1>1, LimitsInitIInv, LimitsStepIInv, PTL DEF LimitsSpec
==============================================================================
