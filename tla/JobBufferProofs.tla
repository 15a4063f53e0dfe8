-------------------------- MODULE JobBufferProofs --------------------------
(***************************************************************************)
(* For any number of jobs, callers, drainers and faults, and any cap and   *)
(* batch: no accepted job disappears except in the ways that Loses names,  *)
(* and two drainers are at work together only past the lock's TTL.         *)
(***************************************************************************)
EXTENDS JobBuffer, FiniteSetTheorems, SequenceTheorems, TLAPS

---------------------------------------------------------------------------
(* Lists: what a concatenation, a cut and an enumeration contain           *)

LEMMA ConcatContains ==
  ASSUME NEW S, NEW s \in Seq(S), NEW t \in Seq(S)
  PROVE  s \o t \in Seq(S) /\ ToSet(s \o t) = ToSet(s) \cup ToSet(t)
<1>1. /\ s \o t \in Seq(S) /\ Len(s \o t) = Len(s) + Len(t)
      /\ \A i \in 1..(Len(s) + Len(t)) : (s \o t)[i] = IF i <= Len(s) THEN s[i] ELSE t[i - Len(s)]
  BY ConcatProperties
<1>2. /\ Len(s) \in Nat /\ Len(t) \in Nat /\ DOMAIN s = 1..Len(s) /\ DOMAIN t = 1..Len(t)
      /\ DOMAIN (s \o t) = 1..(Len(s) + Len(t))
  BY <1>1, LenProperties
<1>3. ToSet(s \o t) \subseteq ToSet(s) \cup ToSet(t)
  BY <1>1, <1>2 DEF ToSet
<1>4. ASSUME NEW i \in 1..Len(s)
      PROVE  s[i] \in ToSet(s \o t)
  BY <1>1, <1>2 DEF ToSet
<1>5. ASSUME NEW i \in 1..Len(t)
      PROVE  t[i] \in ToSet(s \o t)
  <2>1. i + Len(s) \in DOMAIN (s \o t) /\ (s \o t)[i + Len(s)] = t[i]
    BY <1>1, <1>2
  <2> QED BY <2>1 DEF ToSet
<1> QED BY <1>1, <1>2, <1>3, <1>4, <1>5 DEF ToSet

LEMMA CutContains ==
  ASSUME NEW S, NEW s \in Seq(S), NEW n \in 0..Len(s)
  PROVE  /\ SubSeq(s, 1, n) \in Seq(S) /\ Len(SubSeq(s, 1, n)) = n
         /\ ToSet(SubSeq(s, 1, n)) = {s[i] : i \in 1..n}
         /\ SubSeq(s, n + 1, Len(s)) \in Seq(S) /\ Len(SubSeq(s, n + 1, Len(s))) = Len(s) - n
         /\ ToSet(s) = {s[i] : i \in 1..n} \cup ToSet(SubSeq(s, n + 1, Len(s)))
<1> DEFINE a == SubSeq(s, 1, n)
           b == SubSeq(s, n + 1, Len(s))
<1>1. /\ Len(s) \in Nat /\ n \in Nat /\ n <= Len(s)
      /\ DOMAIN s = 1..Len(s) /\ \A i \in 1..Len(s) : s[i] \in S
  BY LenProperties
<1>2. a \in Seq(S) /\ Len(a) = n /\ \A i \in 1..n : a[i] = s[i]
  BY <1>1, SubSeqProperties
<1>3. b \in Seq(S) /\ Len(b) = Len(s) - n /\ \A i \in 1..(Len(s) - n) : b[i] = s[n + i]
  <2>1. n + 1 \in Int /\ Len(s) \in Int /\ \A i \in (n + 1)..Len(s) : s[i] \in S
    BY <1>1
  <2>2. /\ b \in Seq(S)
        /\ Len(b) = IF n + 1 <= Len(s) THEN Len(s) - (n + 1) + 1 ELSE 0
        /\ \A i \in 1..(Len(s) - (n + 1) + 1) : b[i] = s[n + 1 + i - 1]
    BY <2>1, SubSeqProperties
  <2>3. ASSUME NEW k \in Nat, NEW m \in 0..k
        PROVE  /\ (IF m + 1 <= k THEN k - (m + 1) + 1 ELSE 0) = k - m
               /\ k - (m + 1) + 1 = k - m
               /\ \A i \in 1..(k - m) : m + 1 + i - 1 = m + i
    OBVIOUS
  <2>4. Len(s) \in Nat /\ n \in 0..Len(s)
    BY <1>1
  <2> HIDE DEF b
  <2> QED BY <2>2, <2>3, <2>4
<1>4. DOMAIN a = 1..n /\ DOMAIN b = 1..(Len(s) - n)
  BY <1>2, <1>3, LenProperties
<1>5. ToSet(a) = {s[i] : i \in 1..n}
  BY <1>2, <1>4 DEF ToSet
<1>6. ASSUME NEW i \in (n + 1)..Len(s)
      PROVE  s[i] \in ToSet(b)
  <2>1. i - n \in 1..(Len(s) - n) /\ n + (i - n) = i
    BY <1>1
  <2>2. i - n \in DOMAIN b /\ b[i - n] = s[i]
    BY <1>3, <1>4, <2>1
  <2> QED BY <2>2 DEF ToSet
<1>7. ToSet(s) \subseteq {s[i] : i \in 1..n} \cup ToSet(b)
  BY <1>1, <1>6 DEF ToSet
<1>8. ToSet(b) \subseteq ToSet(s)
  <2>1. \A i \in 1..(Len(s) - n) : n + i \in DOMAIN s
    BY <1>1
  <2> QED BY <1>3, <1>4, <2>1 DEF ToSet
<1>9. {s[i] : i \in 1..n} \subseteq ToSet(s)
  BY <1>1 DEF ToSet
<1> QED BY <1>2, <1>3, <1>5, <1>7, <1>8, <1>9

LEMMA SetToSeqContains ==
  ASSUME NEW S, IsFiniteSet(S)
  PROVE  SetToSeq(S) \in Seq(S) /\ ToSet(SetToSeq(S)) = S
<1> DEFINE n == Cardinality(S)
<1>1. n \in Nat /\ ExistsBijection(1..n, S)
  BY FS_CardinalityType
<1>2. \E f \in [1..n -> S] : IsInjective(f)
  BY <1>1 DEF ExistsBijection, Bijection, Injection
<1>3. SetToSeq(S) \in [1..n -> S] /\ IsInjective(SetToSeq(S))
  BY <1>2 DEF SetToSeq
<1>4. SetToSeq(S) \in Surjection(1..n, S)
  <2>1. SetToSeq(S) \in Injection(1..n, S)
    BY <1>3 DEF Injection
  <2>2. Cardinality(1..n) = n
    BY <1>1, FS_Interval
  <2> QED BY <2>1, <2>2, FS_Injection
<1> QED BY <1>1, <1>3, <1>4 DEF ToSet, Surjection

(* The numbers below i among those of I, i included. *)
Rank(I, i) == Cardinality({h \in I : h <= i})

(* Ascending enumerates the set.                                           *)
LEMMA AscendingEnumerates ==
  ASSUME NEW n \in Nat, NEW I \in SUBSET (1..n)
  PROVE  /\ Cardinality(I) \in 0..n
         /\ \A k \in 1..Cardinality(I) : Ascending(I)[k] \in I
         /\ \A i \in I : \E k \in 1..Cardinality(I) : Ascending(I)[k] = i
<1> DEFINE r == [i \in I |-> Rank(I, i)]
           m == Cardinality(I)
<1>1. IsFiniteSet(I) /\ m \in 0..n
  <2>1. IsFiniteSet(1..n) /\ Cardinality(1..n) = n
    BY FS_Interval
  <2>2. IsFiniteSet(I) /\ m <= n
    BY <2>1, FS_Subset
  <2> QED BY <2>2, FS_CardinalityType
<1>2. \A i \in I : IsFiniteSet({h \in I : h <= i})
  BY <1>1, FS_Subset
<1>3. ASSUME NEW i \in I
      PROVE  r[i] \in 1..m
  <2>1. {h \in I : h <= i} \in SUBSET I /\ i \in {h \in I : h <= i}
    OBVIOUS
  <2>2. r[i] <= m /\ r[i] \in Nat
    BY <1>1, <1>2, <2>1, FS_Subset, FS_CardinalityType DEF Rank
  <2>3. r[i] # 0
    BY <1>2, <2>1, FS_EmptySet DEF Rank
  <2> QED BY <1>1, <2>2, <2>3
<1>4. ASSUME NEW i \in I, NEW j \in I, i < j
      PROVE  r[i] # r[j]
  <2> DEFINE A == {h \in I : h <= i}
             B == {h \in I : h <= j}
  <2>1. j <= j /\ ~(j <= i) /\ \A h \in I : h <= i => h <= j
    BY <1>4
  <2>2. A \in SUBSET B /\ j \in B /\ j \notin A
    BY <2>1
  <2>3. Cardinality(A) # Cardinality(B)
    BY <1>2, <2>2, FS_Subset
  <2> QED BY <2>3 DEF Rank
<1>5. r \in Injection(I, 1..m)
  <2>1. \A i, j \in I : i # j => i < j \/ j < i
    OBVIOUS
  <2>2. \A i, j \in I : r[i] = r[j] => i = j
    BY <1>4, <2>1
  <2>3. r \in [I -> 1..m]
    BY <1>3
  <2> QED BY <2>2, <2>3 DEF Injection, IsInjective
<1>6. r \in Surjection(I, 1..m)
  <2>1. IsFiniteSet(1..m) /\ Cardinality(1..m) = m
    BY <1>1, FS_Interval
  <2> QED BY <1>5, <2>1, FS_Injection
<1>7. ASSUME NEW k \in 1..m
      PROVE  Ascending(I)[k] \in I /\ r[Ascending(I)[k]] = k
  <2>1. \E i \in I : Cardinality({h \in I : h <= i}) = k
    BY <1>6 DEF Surjection, Rank
  <2>2. Ascending(I)[k] = CHOOSE i \in I : Cardinality({h \in I : h <= i}) = k
    BY DEF Ascending
  <2> QED BY <2>1, <2>2 DEF Rank
<1>8. ASSUME NEW i \in I
      PROVE  \E k \in 1..m : Ascending(I)[k] = i
  <2>1. Ascending(I)[r[i]] \in I /\ r[Ascending(I)[r[i]]] = r[i]
    BY <1>3, <1>7
  <2>2. Ascending(I)[r[i]] = i
    BY <1>5, <2>1 DEF Injection, IsInjective
  <2> QED BY <1>3, <2>2
<1> QED BY <1>1, <1>7, <1>8

(* The elements at a set of positions.                                     *)
LEMMA AtContains ==
  ASSUME NEW S, NEW s \in Seq(S), NEW I \in SUBSET (1..Len(s))
  PROVE  /\ At(s, I) \in Seq(S) /\ Len(At(s, I)) \in 0..Len(s)
         /\ ToSet(At(s, I)) = {s[i] : i \in I}
<1> DEFINE m == Cardinality(I)
<1>1. Len(s) \in Nat /\ \A i \in 1..Len(s) : s[i] \in S
  BY LenProperties
<1>2. /\ m \in 0..Len(s)
      /\ \A k \in 1..m : Ascending(I)[k] \in I
      /\ \A i \in I : \E k \in 1..m : Ascending(I)[k] = i
  BY <1>1, AscendingEnumerates
<1>3. At(s, I) \in [1..m -> S] /\ \A k \in 1..m : At(s, I)[k] = s[Ascending(I)[k]]
  BY <1>1, <1>2 DEF At
<1>4. At(s, I) \in Seq(S) /\ Len(At(s, I)) = m
  BY <1>2, <1>3
<1>5. DOMAIN At(s, I) = 1..m
  BY <1>3
<1>6. ToSet(At(s, I)) \subseteq {s[i] : i \in I}
  BY <1>2, <1>3, <1>5 DEF ToSet
<1>7. \A i \in I : \E k \in 1..m : At(s, I)[k] = s[i]
  BY <1>2, <1>3
<1>8. {s[i] : i \in I} \subseteq ToSet(At(s, I))
  BY <1>5, <1>7 DEF ToSet
<1> QED BY <1>2, <1>4, <1>6, <1>8

---------------------------------------------------------------------------
(* The operators of the list of jobs                                       *)

LEMMA TrimContains ==
  ASSUME NEW S, NEW s \in Seq(S)
  PROVE  Trim(s) \in Seq(S) /\ ToSet(s) = Trimmed(s) \cup ToSet(Trim(s))
<1>1. Len(s) \in Nat /\ MaxLen \in Nat
  BY JobBufferAssumption, LenProperties
<1>2. CASE Len(s) > MaxLen
  <2> DEFINE n == Len(s) - MaxLen
  <2>1. n \in 0..Len(s) /\ Trim(s) = SubSeq(s, n + 1, Len(s))
    BY <1>1, <1>2 DEF Trim
  <2>2. /\ Trim(s) \in Seq(S) /\ Len(Trim(s)) = Len(s) - n
        /\ ToSet(s) = {s[i] : i \in 1..n} \cup ToSet(Trim(s))
    BY <2>1, CutContains
  <2>3. Len(s) - Len(Trim(s)) = n
    BY <1>1, <2>2
  <2> QED BY <2>2, <2>3 DEF Trimmed
<1>3. CASE ~(Len(s) > MaxLen)
  <2>1. Trim(s) = s /\ Len(s) - Len(Trim(s)) = 0
    BY <1>1, <1>3 DEF Trim
  <2>2. Trimmed(s) = {}
    BY <2>1 DEF Trimmed
  <2> QED BY <2>1, <2>2
<1> QED BY <1>2, <1>3

(* Whatever a push leaves of the list, the rest is lost.                   *)
LEMMA PushKeeps ==
  ASSUME buffer \in Seq(Buffered), lost \subseteq Buffered, NEW s \in Seq(Buffered),
         PushUnsure(s)
  PROVE  /\ buffer' \in Seq(Buffered) /\ lost' \subseteq Buffered /\ lost \subseteq lost'
         /\ ToSet(buffer) \cup ToSet(s) \subseteq ToSet(buffer') \cup lost'
<1> DEFINE t == buffer \o s
<1>1. t \in Seq(Buffered) /\ ToSet(t) = ToSet(buffer) \cup ToSet(s)
  BY ConcatContains
<1>2. ToSet(t) \subseteq Buffered
  BY <1>1, LenProperties DEF ToSet
<1>3. Trim(t) \in Seq(Buffered) /\ ToSet(t) = Trimmed(t) \cup ToSet(Trim(t))
  BY <1>1, TrimContains
<1> QED BY <1>1, <1>2, <1>3 DEF PushUnsure, Push, Loses

LEMMA PoppedContains ==
  ASSUME TypeOK, NEW d \in Drainers
  PROVE  /\ Popped(d) \in Seq(Buffered) /\ Len(Popped(d)) <= want[d]
         /\ SubSeq(buffer, Count(d) + 1, Len(buffer)) \in Seq(Buffered)
         /\ ToSet(buffer) = ToSet(Popped(d)) \cup ToSet(SubSeq(buffer, Count(d) + 1, Len(buffer)))
<1>1. buffer \in Seq(Buffered) /\ Len(buffer) \in Nat /\ want[d] \in Nat
  BY JobBufferAssumption, LenProperties DEF TypeOK
<1>2. \E n \in {want[d], Len(buffer)} : \A m \in {want[d], Len(buffer)} : n <= m
  BY <1>1
<1>3. Count(d) \in 0..Len(buffer) /\ Count(d) <= want[d]
  BY <1>1, <1>2 DEF Count, Min
<1> QED BY <1>1, <1>3, CutContains DEF Popped

LEMMA MessagesContain ==
  ASSUME NEW s \in Seq(Buffered)
  PROVE  /\ Messages(s) \in Seq(Buffered) /\ Len(Messages(s)) \in 0..Len(s)
         /\ ToSet(Messages(s)) = ToSet(s) \ Garbled
<1> DEFINE I == {i \in 1..Len(s) : s[i] \notin Garbled}
<1>1. /\ Messages(s) \in Seq(Buffered) /\ Len(Messages(s)) \in 0..Len(s)
      /\ ToSet(Messages(s)) = {s[i] : i \in I}
  BY AtContains DEF Messages
<1>2. {s[i] : i \in I} = ToSet(s) \ Garbled
  BY LenProperties DEF ToSet
<1> QED BY <1>1, <1>2

---------------------------------------------------------------------------
(* The inductive invariant                                                 *)

(* What is submitted is not submitted again.                               *)
Submitted == \A c \in Callers : batch[c] \cup direct[c] \subseteq Jobs \ fresh

(* A drainer has payloads in hand between its RPOP and its dispatch, and   *)
(* payloads to put back between its dispatch and its put-back.             *)
HandsEmpty ==
  \A d \in Drainers : /\ dpc[d] \notin {"publish", "retry"} => hand[d] = <<>>
                      /\ dpc[d] # "refill" => refill[d] = <<>>

(* What a drainer could not decode is already counted as lost.             *)
GarbledIsLost == \A d \in Drainers : ToSet(hand[d]) \cap Garbled \subseteq lost

Kept == Underway \cup settled \cup lost

(* The part of a batch that is not left for Kafka is buffered.             *)
BatchIsKept ==
  \A c \in Callers : cpc[c] = "direct" => batch[c] \ direct[c] \subseteq Kept

(* A drainer at work has the lock, or has outlived its TTL.                *)
LockIsHeld == \A d \in Drainers : dpc[d] # "idle" => lock = d \/ d \in overrun

IInv == /\ TypeOK /\ Submitted /\ HandsEmpty /\ GarbledIsLost
        /\ BatchIsKept /\ JobKept /\ LockIsHeld

LEMMA InitIInv == Init => IInv
BY JobBufferAssumption, EmptySeq
   DEF Init, IInv, TypeOK, Submitted, HandsEmpty, GarbledIsLost, BatchIsKept,
      JobKept, LockIsHeld, ToSet

(* Where a job can be, without the union over the drainers.                *)
Holds(j) == \/ j \in ToSet(buffer) \cup settled \cup lost
            \/ \E d \in Drainers : j \in ToSet(hand[d]) \cup ToSet(refill[d])

LEMMA KeptHolds == \A j : j \in Kept <=> Holds(j)
BY DEF Kept, Underway, Holds

LEMMA KeptHoldsNext == (\A j : j \in Kept <=> Holds(j))'
BY KeptHolds, PTL

(* No step forgets a job that is somewhere.                                *)
LEMMA KeptGrows == IInv /\ [Next]_vars => Kept \subseteq Kept'
<1> SUFFICES ASSUME IInv, [Next]_vars, NEW j, Holds(j)
             PROVE  Holds(j)'
  BY KeptHolds, KeptHoldsNext
<1> USE DEF redis, topic, caller, drainer, ghost, CGoto, DGoto
<1>t. TypeOK /\ HandsEmpty /\ GarbledIsLost
  BY DEF IInv
<1>e. ToSet(<<>>) = {}
  BY DEF ToSet
<1>1. ASSUME NEW c \in Callers, Submit(c) \/ Direct(c) \/ DirectFails(c)
      PROVE  Holds(j)'
  BY <1>1 DEF Submit, Direct, DirectFails, Send, Return, Holds
<1>2. ASSUME NEW c \in Callers, Enqueue(c) \/ EnqueueFails(c)
      PROVE  Holds(j)'
  <2>1. batch[c] \subseteq Buffered /\ IsFiniteSet(batch[c])
    BY <1>t, JobBufferAssumption, FS_Subset DEF TypeOK
  <2>2. SetToSeq(batch[c]) \in Seq(Buffered)
    BY <2>1, SetToSeqContains, SeqMonotonic
  <2>3. PushUnsure(SetToSeq(batch[c])) \/ UNCHANGED <<buffer, lost>>
    BY <1>2 DEF Enqueue, EnqueueFails, PushUnsure
  <2>4. lost \subseteq lost' /\ ToSet(buffer) \subseteq ToSet(buffer') \cup lost'
    BY <1>t, <2>2, <2>3, PushKeeps DEF TypeOK
  <2>5. UNCHANGED <<hand, refill, settled>>
    BY <1>2 DEF Enqueue, EnqueueFails
  <2> QED BY <2>4, <2>5 DEF Holds
<1>3. ASSUME Consume \/ Expire
      PROVE  Holds(j)'
  BY <1>3 DEF Consume, Expire, Holds
<1>4. ASSUME NEW d \in Drainers,
             TryAcquire(d) \/ AcquireFails(d) \/ Check(d) \/ CheckFails(d) \/ Release(d)
      PROVE  Holds(j)'
  BY <1>4 DEF TryAcquire, AcquireFails, Check, CheckFails, Release, Holds
<1>5. ASSUME NEW d \in Drainers, Pop(d)
      PROVE  Holds(j)'
  <2> DEFINE p == Popped(d)
  <2>1. /\ p \in Seq(Buffered) /\ ToSet(buffer) = ToSet(p) \cup ToSet(buffer')
        /\ lost' = lost \cup (ToSet(p) \cap Garbled) /\ UNCHANGED <<refill, settled>>
    BY <1>5, <1>t, PoppedContains DEF Pop, Loses
  <2>2. CASE Messages(p) = <<>>
    <3>1. ToSet(p) \ Garbled = {}
      BY <1>e, <2>1, <2>2, MessagesContain
    <3> QED BY <1>5, <2>1, <2>2, <3>1 DEF Pop, Holds
  <2>3. CASE Messages(p) # <<>>
    <3>1. hand' = [hand EXCEPT ![d] = p] /\ hand[d] = <<>>
      BY <1>5, <1>t, <2>3 DEF Pop, HandsEmpty
    <3>2. \A e \in Drainers : hand'[e] = IF e = d THEN p ELSE hand[e]
      BY <1>t, <3>1 DEF TypeOK
    <3> QED BY <1>e, <2>1, <3>1, <3>2 DEF Holds
  <2> QED BY <2>2, <2>3
<1>6. ASSUME NEW d \in Drainers, PopFails(d)
      PROVE  Holds(j)'
  <2>1. /\ ToSet(buffer) \subseteq ToSet(buffer') \cup lost' /\ lost \subseteq lost'
        /\ UNCHANGED <<hand, refill, settled>>
    BY <1>6, <1>t, PoppedContains DEF PopFails, Loses
  <2> QED BY <2>1 DEF Holds
<1>7. ASSUME NEW d \in Drainers, Publish(d)
      PROVE  Holds(j)'
  <2>1. hand[d] \in Seq(Buffered)
    BY <1>t DEF TypeOK
  <2>2. ToSet(hand[d]) \subseteq settled' \cup lost
    BY <1>7, <1>t, <2>1, MessagesContain DEF Publish, GarbledIsLost
  <2>3. \A e \in Drainers : e # d => hand'[e] = hand[e]
    BY <1>7, <1>t DEF Publish, TypeOK
  <2>4. UNCHANGED <<buffer, refill, lost>> /\ settled \subseteq settled'
    BY <1>7 DEF Publish
  <2> QED BY <2>2, <2>3, <2>4 DEF Holds
<1>8. ASSUME NEW d \in Drainers, PublishFails(d)
      PROVE  Holds(j)'
  BY <1>8 DEF PublishFails, Holds
<1>9. ASSUME NEW d \in Drainers, Dispatch(d)
      PROVE  Holds(j)'
  <2> DEFINE p == hand[d]
             msgs == Messages(p)
  <2>1. /\ p \in Seq(Buffered) /\ ToSet(msgs) = ToSet(p) \ Garbled /\ msgs \in Seq(Buffered)
        /\ Len(msgs) \in 0..Len(p) /\ Len(p) \in Nat /\ DOMAIN msgs = 1..Len(msgs)
    BY <1>t, MessagesContain, LenProperties DEF TypeOK
  <2>2. PICK F \in SUBSET (1..Len(msgs)) :
          /\ \E T \in SUBSET F : settled' = settled \cup {msgs[i] : i \in (1..Len(msgs)) \ (F \ T)}
          /\ refill' = [refill EXCEPT ![d] = PutBack(d, F)]
          /\ Loses({msgs[i] : i \in F} \ {p[i] : i \in F})
    BY <1>9 DEF Dispatch
  <2>3. F \in SUBSET (1..Len(p))
    BY <2>1
  <2>4. ToSet(PutBack(d, F)) = {p[i] : i \in F}
    BY <2>1, <2>3, AtContains DEF PutBack
  <2>5. refill'[d] = PutBack(d, F) /\ \A e \in Drainers : e # d => refill'[e] = refill[e]
    BY <1>t, <2>2 DEF TypeOK
  <2>6. refill[d] = <<>> /\ settled \subseteq settled' /\ lost \subseteq lost' /\ buffer' = buffer
    BY <1>9, <1>t, <2>2 DEF Dispatch, HandsEmpty, Loses
  <2>7. \A e \in Drainers : e # d => hand'[e] = hand[e]
    BY <1>9, <1>t DEF Dispatch, TypeOK
  <2>8. \A i \in 1..Len(msgs) : msgs[i] \in settled' \cup ToSet(refill'[d]) \cup lost'
    BY <2>2, <2>4, <2>5 DEF Loses
  <2>9. ToSet(p) \subseteq settled' \cup ToSet(refill'[d]) \cup lost'
    <3>1. ToSet(msgs) \subseteq settled' \cup ToSet(refill'[d]) \cup lost'
      BY <2>1, <2>8 DEF ToSet
    <3> QED BY <1>t, <2>1, <2>6, <3>1 DEF GarbledIsLost
  <2> QED BY <1>e, <2>5, <2>6, <2>7, <2>9 DEF Holds
<1>10. ASSUME NEW d \in Drainers, Refill(d) \/ RefillFails(d)
       PROVE  Holds(j)'
  <2>1. refill[d] \in Seq(Buffered)
    BY <1>t DEF TypeOK
  <2>2. PushUnsure(refill[d]) \/ (UNCHANGED buffer /\ lost' = lost \cup ToSet(refill[d]))
    BY <1>10 DEF Refill, RefillFails, PushUnsure, Loses
  <2>3. /\ lost \subseteq lost'
        /\ ToSet(buffer) \cup ToSet(refill[d]) \subseteq ToSet(buffer') \cup lost'
    BY <1>t, <2>1, <2>2, PushKeeps DEF TypeOK
  <2>4. UNCHANGED <<hand, settled>> /\ \A e \in Drainers : e # d => refill'[e] = refill[e]
    BY <1>10, <1>t DEF Refill, RefillFails, Refilled, TypeOK
  <2> QED BY <2>3, <2>4 DEF Holds
<1>11. ASSUME NEW d \in Drainers, Crash(d)
       PROVE  Holds(j)'
  <2>1. lost' = lost \cup ToSet(hand[d]) \cup ToSet(refill[d]) /\ UNCHANGED <<buffer, settled>>
    BY <1>11 DEF Crash, Loses
  <2>2. \A e \in Drainers : e # d => hand'[e] = hand[e] /\ refill'[e] = refill[e]
    BY <1>11, <1>t DEF Crash, TypeOK
  <2> QED BY <2>1, <2>2 DEF Holds
<1>12. CASE UNCHANGED vars
  BY <1>12 DEF vars, Holds
<1> QED BY <1>1, <1>2, <1>3, <1>4, <1>5, <1>6, <1>7, <1>8, <1>9, <1>10, <1>11, <1>12
        DEF Next, Calling, Cycle

LEMMA TypesStay == IInv /\ [Next]_vars => TypeOK'
<1> SUFFICES ASSUME TypeOK, Submitted, HandsEmpty, [Next]_vars
             PROVE  TypeOK'
  BY DEF IInv
<1> USE DEF redis, topic, caller, drainer, ghost, CGoto, DGoto
<1>s. /\ buffer \in Seq(Buffered) /\ lost \subseteq Buffered /\ <<>> \in Seq(Buffered)
      /\ \A d \in Drainers : hand[d] \in Seq(Buffered) /\ refill[d] \in Seq(Buffered)
      /\ Len(<<>>) = 0
  BY EmptySeq DEF TypeOK
<1>c. \A S \in SUBSET Jobs : IsFiniteSet(S) /\ Cardinality(S) \in Nat
  BY JobBufferAssumption, FS_Subset, FS_CardinalityType
<1>f. faults' = faults \/ Fault => faults' \in 0..MaxFaults
  BY JobBufferAssumption DEF Fault, TypeOK
<1>d. \A d \in Drainers : <<>> \in Seq(Buffered) /\ Len(<<>>) <= DrainBatch
  BY <1>s, JobBufferAssumption
<1>1. ASSUME NEW c \in Callers, Submit(c)
      PROVE  TypeOK'
  <2>1. PICK S \in SUBSET fresh :
          /\ fresh' = fresh \ S
          /\ batch' = [batch EXCEPT ![c] = S \cap Buffered]
          /\ direct' = [direct EXCEPT ![c] = S \ Buffered]
    BY <1>1 DEF Submit
  <2>2. fresh' \subseteq Jobs /\ accepted \subseteq Jobs \ fresh'
    BY <2>1 DEF TypeOK
  <2>3. batch' \in [Callers -> SUBSET Buffered] /\ direct' \in [Callers -> SUBSET Jobs]
    BY <2>1 DEF TypeOK
  <2> QED BY <1>1, <2>2, <2>3 DEF Submit, TypeOK
<1>2. ASSUME NEW c \in Callers, Enqueue(c) \/ EnqueueFails(c)
      PROVE  TypeOK'
  <2>1. batch[c] \subseteq Buffered /\ IsFiniteSet(batch[c])
    BY <1>c, JobBufferAssumption DEF TypeOK
  <2>2. SetToSeq(batch[c]) \in Seq(Buffered)
    BY <2>1, SetToSeqContains, SeqMonotonic
  <2>3. PushUnsure(SetToSeq(batch[c])) \/ UNCHANGED <<buffer, lost>>
    BY <1>2 DEF Enqueue, EnqueueFails, PushUnsure
  <2>4. buffer' \in Seq(Buffered) /\ lost' \subseteq Buffered
    BY <1>s, <2>2, <2>3, PushKeeps
  <2>5. direct' \in [Callers -> SUBSET Jobs]
    <3>1. direct \in [Callers -> SUBSET Jobs] /\ batch[c] \subseteq Jobs
      BY <2>1, JobBufferAssumption DEF TypeOK
    <3>2. direct' = direct \/ direct' = [direct EXCEPT ![c] = direct[c] \cup batch[c]]
      BY <1>2 DEF Enqueue, EnqueueFails
    <3> QED BY <3>1, <3>2
  <2>6. faults' \in 0..MaxFaults
    BY <1>2, <1>f DEF Enqueue, EnqueueFails
  <2> QED BY <1>2, <2>4, <2>5, <2>6 DEF Enqueue, EnqueueFails, TypeOK
<1>3. ASSUME NEW c \in Callers, Direct(c) \/ DirectFails(c)
      PROVE  TypeOK'
  <2>1. PICK S \in SUBSET Jobs :
          settled' = settled \cup S /\ waiting' = waiting + Cardinality(S \cap Buffered)
    BY <1>3 DEF Direct, DirectFails, Send, TypeOK
  <2>2. Cardinality(S \cap Buffered) \in Nat
    BY <1>c
  <2>3. settled' \subseteq Jobs /\ waiting' \in Nat
    BY <2>1, <2>2 DEF TypeOK
  <2>4. accepted' \subseteq Jobs \ fresh /\ fresh' = fresh
    BY <1>3 DEF Direct, DirectFails, Submitted, TypeOK
  <2>5. faults' \in 0..MaxFaults
    BY <1>3, <1>f DEF Direct, DirectFails
  <2> QED
    BY <1>3, <2>3, <2>4, <2>5, JobBufferAssumption DEF Direct, DirectFails, Return,
       TypeOK
<1>4. ASSUME Consume \/ Expire
      PROVE  TypeOK'
  <2>1. waiting' \in Nat
    BY <1>4 DEF Consume, Expire, TypeOK
  <2>2. lock' \in Drainers \cup {Nobody, Orphan} /\ overrun' \subseteq Drainers
    BY <1>4 DEF Consume, Expire, TypeOK
  <2> QED BY <1>4, <2>1, <2>2 DEF Consume, Expire, TypeOK
<1>5. ASSUME NEW d \in Drainers, TryAcquire(d) \/ AcquireFails(d) \/ CheckFails(d) \/ Release(d)
      PROVE  TypeOK'
  <2>1. lock' \in Drainers \cup {Nobody, Orphan} /\ overrun' \subseteq Drainers
    BY <1>5 DEF TryAcquire, AcquireFails, CheckFails, Release, Unlocked, TypeOK
  <2>2. faults' \in 0..MaxFaults
    BY <1>5, <1>f DEF TryAcquire, AcquireFails, CheckFails, Release
  <2>3. dpc' \in [Drainers -> {"idle", "check", "pop", "publish", "retry", "refill", "release"}]
    BY <1>5 DEF TryAcquire, AcquireFails, CheckFails, Release, TypeOK
  <2> QED
    BY <1>5, <2>1, <2>2, <2>3 DEF TryAcquire, AcquireFails, CheckFails, Release, TypeOK
<1>6. ASSUME NEW d \in Drainers, Check(d)
      PROVE  TypeOK'
  <2>1. CASE Room > 0 /\ buffer # <<>>
    <3> DEFINE M == {Room, DrainBatch, Len(buffer)}
    <3>1. Room \in Nat /\ DrainBatch \in Nat /\ Len(buffer) \in Nat
      BY <1>s, <2>1, JobBufferAssumption, LenProperties DEF Room, Backlog, TypeOK
    <3>2. \E n \in M : \A m \in M : n <= m
      BY <3>1
    <3>3. Min(M) \in M /\ Min(M) <= DrainBatch
      BY <3>2 DEF Min
    <3>4. Min(M) \in 0..DrainBatch
      BY <3>1, <3>3
    <3> QED BY <1>6, <2>1, <3>4 DEF Check, TypeOK
  <2>2. CASE ~(Room > 0 /\ buffer # <<>>)
    BY <1>6, <2>2 DEF Check, TypeOK
  <2> QED BY <2>1, <2>2
<1>7. ASSUME NEW d \in Drainers, Pop(d) \/ PopFails(d)
      PROVE  TypeOK'
  <2> DEFINE p == Popped(d)
  <2>1. p \in Seq(Buffered) /\ Len(p) <= want[d] /\ buffer' \in Seq(Buffered)
    BY <1>s, <1>7, PoppedContains DEF Pop, PopFails
  <2>2. ToSet(p) \subseteq Buffered /\ Len(p) \in Nat
    BY <2>1, LenProperties DEF ToSet
  <2>3. lost' \subseteq Buffered
    BY <1>7, <2>2 DEF Pop, PopFails, Loses, TypeOK
  <2>4. Len(p) <= DrainBatch
    BY <2>1, <2>2, JobBufferAssumption DEF TypeOK
  <2>5. /\ hand' \in [Drainers -> Seq(Buffered)]
        /\ \A e \in Drainers : Len(hand'[e]) <= DrainBatch
    BY <1>7, <2>1, <2>4 DEF Pop, PopFails, TypeOK
  <2>6. want' \in [Drainers -> 0..DrainBatch]
    <3>1. 0 \in 0..DrainBatch
      BY JobBufferAssumption
    <3> QED BY <1>7, <3>1 DEF Pop, PopFails, TypeOK
  <2>7. faults' \in 0..MaxFaults
    BY <1>7, <1>f DEF Pop, PopFails
  <2> QED BY <1>7, <2>1, <2>3, <2>5, <2>6, <2>7 DEF Pop, PopFails, TypeOK
<1>8. ASSUME NEW d \in Drainers, Publish(d) \/ PublishFails(d)
      PROVE  TypeOK'
  <2> DEFINE msgs == Messages(hand[d])
  <2>1. msgs \in Seq(Buffered) /\ Len(msgs) \in Nat
    BY <1>s, MessagesContain, LenProperties
  <2>2. \A S \in SUBSET (1..Len(msgs)) : Cardinality(S) \in Nat
    <3>1. IsFiniteSet(1..Len(msgs))
      BY <2>1, FS_Interval
    <3> QED BY <3>1, FS_Subset, FS_CardinalityType
  <2>3. waiting' \in Nat
    <3>1. \E n \in Nat : waiting' = waiting + n
      BY <1>8, <2>1, <2>2 DEF Publish, PublishFails
    <3> QED BY <3>1 DEF TypeOK
  <2>4. \A i \in 1..Len(msgs) : msgs[i] \in Jobs
    BY <2>1, JobBufferAssumption, LenProperties
  <2>5. settled' \subseteq Jobs
    BY <1>8, <2>1, <2>4, LenProperties DEF Publish, PublishFails, ToSet, TypeOK
  <2>6. /\ hand' \in [Drainers -> Seq(Buffered)]
        /\ \A e \in Drainers : Len(hand'[e]) <= DrainBatch
    BY <1>8, <1>d DEF Publish, PublishFails, TypeOK
  <2>7. faults' \in 0..MaxFaults
    BY <1>8, <1>f DEF Publish, PublishFails
  <2> QED BY <1>8, <2>3, <2>5, <2>6, <2>7 DEF Publish, PublishFails, TypeOK
<1>9. ASSUME NEW d \in Drainers, Dispatch(d)
      PROVE  TypeOK'
  <2> DEFINE msgs == Messages(hand[d])
  <2>1. /\ msgs \in Seq(Buffered) /\ Len(msgs) \in 0..Len(hand[d])
        /\ Len(hand[d]) \in Nat /\ \A i \in 1..Len(msgs) : msgs[i] \in Buffered
    BY <1>s, MessagesContain, LenProperties
  <2>2. PICK F \in SUBSET (1..Len(msgs)) :
          /\ \E T \in SUBSET F : settled' = settled \cup {msgs[i] : i \in (1..Len(msgs)) \ (F \ T)}
          /\ refill' = [refill EXCEPT ![d] = PutBack(d, F)]
          /\ Loses({msgs[i] : i \in F} \ {hand[d][i] : i \in F})
    BY <1>9 DEF Dispatch
  <2>3. settled' \subseteq Jobs /\ lost' \subseteq Buffered
    BY <2>1, <2>2, JobBufferAssumption DEF Loses, TypeOK
  <2>4. F \in SUBSET (1..Len(hand[d]))
    BY <2>1
  <2>5. refill' \in [Drainers -> Seq(Buffered)]
    BY <1>s, <2>2, <2>4, AtContains DEF PutBack, TypeOK
  <2>6. /\ hand' \in [Drainers -> Seq(Buffered)]
        /\ \A e \in Drainers : Len(hand'[e]) <= DrainBatch
    BY <1>9, <1>d DEF Dispatch, TypeOK
  <2> QED BY <1>9, <2>3, <2>5, <2>6 DEF Dispatch, TypeOK
<1>10. ASSUME NEW d \in Drainers, Refill(d) \/ RefillFails(d)
       PROVE  TypeOK'
  <2>1. ToSet(refill[d]) \subseteq Buffered
    BY <1>s, LenProperties DEF ToSet
  <2>2. PushUnsure(refill[d]) \/ (UNCHANGED buffer /\ lost' = lost \cup ToSet(refill[d]))
    BY <1>10 DEF Refill, RefillFails, PushUnsure, Loses
  <2>3. buffer' \in Seq(Buffered) /\ lost' \subseteq Buffered
    BY <1>s, <2>1, <2>2, PushKeeps
  <2> QED BY <1>10, <1>s, <2>3 DEF Refill, RefillFails, Refilled, TypeOK
<1>11. ASSUME NEW d \in Drainers, Crash(d)
       PROVE  TypeOK'
  <2>1. ToSet(hand[d]) \subseteq Buffered /\ ToSet(refill[d]) \subseteq Buffered
    BY <1>s, LenProperties DEF ToSet
  <2>2. /\ hand' \in [Drainers -> Seq(Buffered)] /\ refill' \in [Drainers -> Seq(Buffered)]
        /\ \A e \in Drainers : Len(hand'[e]) <= DrainBatch
    BY <1>11, <1>d DEF Crash, TypeOK
  <2>3. want' \in [Drainers -> 0..DrainBatch] /\ faults' \in 0..MaxFaults
    BY <1>11, <1>f, JobBufferAssumption DEF Crash, TypeOK
  <2> QED BY <1>11, <2>1, <2>2, <2>3 DEF Crash, Loses, TypeOK
<1>12. CASE UNCHANGED vars
  BY <1>12 DEF vars, TypeOK
<1> QED BY <1>1, <1>2, <1>3, <1>4, <1>5, <1>6, <1>7, <1>8, <1>9, <1>10, <1>11, <1>12
        DEF Next, Calling, Cycle

LEMMA SubmittedStays == IInv /\ [Next]_vars => Submitted'
<1> SUFFICES ASSUME TypeOK, Submitted, [Next]_vars
             PROVE  Submitted'
  BY DEF IInv
<1> USE DEF caller
<1>1. ASSUME NEW c \in Callers, Calling(c)
      PROVE  Submitted'
  <2>1. CASE Submit(c)
    <3>1. PICK S \in SUBSET fresh :
            /\ fresh' = fresh \ S
            /\ batch' = [batch EXCEPT ![c] = S \cap Buffered]
            /\ direct' = [direct EXCEPT ![c] = S \ Buffered]
      BY <2>1 DEF Submit
    <3>2. \A e \in Callers : e # c => batch'[e] = batch[e] /\ direct'[e] = direct[e]
      BY <3>1 DEF TypeOK
    <3>3. batch'[c] \cup direct'[c] \subseteq S
      BY <3>1 DEF TypeOK
    <3> QED BY <3>1, <3>2, <3>3 DEF Submitted, TypeOK
  <2>2. CASE Enqueue(c) \/ EnqueueFails(c) \/ Direct(c) \/ DirectFails(c)
    <3>1. \A e \in Callers : batch'[e] \cup direct'[e] \subseteq batch[e] \cup direct[e]
      BY <2>2 DEF Enqueue, EnqueueFails, Direct, DirectFails, Return, TypeOK
    <3>2. fresh' = fresh
      BY <2>2 DEF Enqueue, EnqueueFails, Direct, DirectFails
    <3> QED BY <3>1, <3>2 DEF Submitted
  <2> QED BY <1>1, <2>1, <2>2 DEF Calling
<1>2. UNCHANGED <<batch, direct, fresh>> => Submitted'
  BY DEF Submitted
<1>3. (\E c \in Callers : Calling(c)) \/ UNCHANGED <<batch, direct, fresh>>
  BY DEF Next, Cycle, vars, TryAcquire, AcquireFails, Check, CheckFails, Pop,
     PopFails, Publish,
         PublishFails, Dispatch, Refill, RefillFails, Refilled, Release, Crash,
            Consume, Expire
<1> QED BY <1>1, <1>2, <1>3

LEMMA HandsStay == IInv /\ [Next]_vars => HandsEmpty' /\ GarbledIsLost'
<1> SUFFICES ASSUME TypeOK, HandsEmpty, GarbledIsLost, [Next]_vars
             PROVE  HandsEmpty' /\ GarbledIsLost'
  BY DEF IInv
<1> USE DEF redis, topic, caller, drainer, ghost, CGoto, DGoto
<1>e. ToSet(<<>>) = {}
  BY DEF ToSet
<1>1. ASSUME UNCHANGED <<dpc, hand, refill>>, lost \subseteq lost'
      PROVE  HandsEmpty' /\ GarbledIsLost'
  BY <1>1 DEF HandsEmpty, GarbledIsLost
<1>2. ASSUME NEW c \in Callers, Calling(c)
      PROVE  HandsEmpty' /\ GarbledIsLost'
  BY <1>1, <1>2
     DEF Calling, Submit, Enqueue, EnqueueFails, Direct, DirectFails, PushUnsure,
        Push, Loses
<1>3. ASSUME NEW d \in Drainers,
             TryAcquire(d) \/ AcquireFails(d) \/ Check(d) \/ CheckFails(d) \/ Release(d)
      PROVE  HandsEmpty' /\ GarbledIsLost'
  BY <1>3 DEF TryAcquire, AcquireFails, Check, CheckFails, Release, HandsEmpty,
     GarbledIsLost, TypeOK
<1>4. ASSUME NEW d \in Drainers, Pop(d)
      PROVE  HandsEmpty' /\ GarbledIsLost'
  BY <1>4 DEF Pop, Loses, HandsEmpty, GarbledIsLost, TypeOK
<1>5. ASSUME NEW d \in Drainers, PopFails(d)
      PROVE  HandsEmpty' /\ GarbledIsLost'
  BY <1>5 DEF PopFails, Loses, HandsEmpty, GarbledIsLost, TypeOK
<1>6. ASSUME NEW d \in Drainers, Publish(d) \/ PublishFails(d)
      PROVE  HandsEmpty' /\ GarbledIsLost'
  BY <1>6, <1>e DEF Publish, PublishFails, HandsEmpty, GarbledIsLost, TypeOK
<1>7. ASSUME NEW d \in Drainers, Dispatch(d)
      PROVE  HandsEmpty' /\ GarbledIsLost'
  <2>1. /\ dpc[d] = "retry" /\ dpc' = [dpc EXCEPT ![d] = "refill"]
        /\ hand' = [hand EXCEPT ![d] = <<>>] /\ lost \subseteq lost'
        /\ \A e \in Drainers : e # d => refill'[e] = refill[e]
    BY <1>7 DEF Dispatch, Loses, TypeOK
  <2> QED BY <1>e, <2>1 DEF HandsEmpty, GarbledIsLost, TypeOK
<1>8. ASSUME NEW d \in Drainers, Refill(d) \/ RefillFails(d)
      PROVE  HandsEmpty' /\ GarbledIsLost'
  <2>1. /\ dpc[d] = "refill" /\ dpc' = [dpc EXCEPT ![d] = "release"] /\ hand' = hand
        /\ refill' = [refill EXCEPT ![d] = <<>>] /\ lost \subseteq lost'
    BY <1>8 DEF Refill, RefillFails, Refilled, PushUnsure, Push, Loses
  <2> QED BY <2>1 DEF HandsEmpty, GarbledIsLost, TypeOK
<1>9. ASSUME NEW d \in Drainers, Crash(d)
      PROVE  HandsEmpty' /\ GarbledIsLost'
  BY <1>9, <1>e DEF Crash, Loses, HandsEmpty, GarbledIsLost, TypeOK
<1>10. CASE Consume \/ Expire \/ UNCHANGED vars
  BY <1>1, <1>10 DEF Consume, Expire, vars
<1> QED BY <1>2, <1>3, <1>4, <1>5, <1>6, <1>7, <1>8, <1>9, <1>10 DEF Next, Cycle

LEMMA LockStays == IInv /\ [Next]_vars => LockIsHeld'
<1> SUFFICES ASSUME TypeOK, LockIsHeld, [Next]_vars
             PROVE  LockIsHeld'
  BY DEF IInv
<1> USE DEF redis, topic, caller, drainer, ghost, CGoto, DGoto
<1>1. ASSUME UNCHANGED <<dpc, lock, overrun>>
      PROVE  LockIsHeld'
  BY <1>1 DEF LockIsHeld
<1>2. ASSUME NEW d \in Drainers, TryAcquire(d) \/ AcquireFails(d)
      PROVE  LockIsHeld'
  BY <1>2, JobBufferAssumption DEF TryAcquire, Free, AcquireFails, LockIsHeld, TypeOK
<1>3. ASSUME NEW d \in Drainers, UNCHANGED <<lock, overrun>>, dpc[d] # "idle",
             \A e \in Drainers : e # d => dpc'[e] = dpc[e]
      PROVE  LockIsHeld'
  BY <1>3 DEF LockIsHeld
<1>4. ASSUME NEW d \in Drainers, Check(d) \/ CheckFails(d) \/ Pop(d) \/ PopFails(d)
      PROVE  LockIsHeld'
  BY <1>3, <1>4 DEF Check, CheckFails, Pop, PopFails, TypeOK
<1>5. ASSUME NEW d \in Drainers, Publish(d) \/ PublishFails(d) \/ Dispatch(d)
      PROVE  LockIsHeld'
  BY <1>3, <1>5 DEF Publish, PublishFails, Dispatch, TypeOK
<1>6. ASSUME NEW d \in Drainers, Refill(d) \/ RefillFails(d)
      PROVE  LockIsHeld'
  BY <1>3, <1>6 DEF Refill, RefillFails, Refilled, TypeOK
<1>7. ASSUME NEW d \in Drainers, Release(d) \/ Crash(d)
      PROVE  LockIsHeld'
  <2>1. /\ dpc' = [dpc EXCEPT ![d] = "idle"] /\ overrun' = overrun \ {d}
        /\ lock = d \/ lock' = lock
    BY <1>7 DEF Release, Crash, Unlocked
  <2>2. dpc'[d] = "idle" /\ \A e \in Drainers : e # d => dpc'[e] = dpc[e]
    BY <2>1 DEF TypeOK
  <2> QED BY <2>1, <2>2 DEF LockIsHeld
<1>8. CASE Expire
  BY <1>8 DEF Expire, LockIsHeld, TypeOK
<1>9. (\E c \in Callers : Calling(c)) \/ Consume \/ UNCHANGED vars
      => UNCHANGED <<dpc, lock, overrun>>
  BY DEF Calling, Submit, Enqueue, EnqueueFails, Direct, DirectFails, Consume, vars
<1> QED BY <1>1, <1>2, <1>4, <1>5, <1>6, <1>7, <1>8, <1>9 DEF Next, Cycle

(* What a caller relies on when its PublishBatch returns no error.         *)
LEMMA BatchStays == IInv /\ [Next]_vars => BatchIsKept' /\ JobKept'
<1> SUFFICES ASSUME IInv, [Next]_vars
             PROVE  BatchIsKept' /\ JobKept'
  OBVIOUS
<1> USE DEF redis, topic, caller, drainer, ghost, CGoto, DGoto
<1>k. /\ Kept \subseteq Kept' /\ TypeOK /\ BatchIsKept
      /\ accepted \subseteq Kept /\ (JobKept' <=> accepted' \subseteq Kept')
  BY KeptGrows DEF IInv, JobKept, Kept
<1>1. ASSUME UNCHANGED accepted,
             \A c \in Callers : cpc'[c] = "direct" =>
                cpc[c] = "direct" /\ batch'[c] = batch[c] /\ direct'[c] = direct[c]
      PROVE  BatchIsKept' /\ JobKept'
  BY <1>1, <1>k DEF BatchIsKept
<1>2. ASSUME NEW c \in Callers, Submit(c)
      PROVE  BatchIsKept' /\ JobKept'
  BY <1>1, <1>2, <1>k DEF Submit, TypeOK
<1>3. ASSUME NEW c \in Callers, Enqueue(c)
      PROVE  BatchIsKept' /\ JobKept'
  <2>1. batch[c] \subseteq Buffered /\ IsFiniteSet(batch[c])
    BY <1>k, JobBufferAssumption, FS_Subset DEF TypeOK
  <2>2. SetToSeq(batch[c]) \in Seq(Buffered) /\ ToSet(SetToSeq(batch[c])) = batch[c]
    BY <2>1, SetToSeqContains, SeqMonotonic
  <2>3. batch[c] \subseteq ToSet(buffer') \cup lost'
    BY <1>3, <1>k, <2>2, PushKeeps DEF Enqueue, PushUnsure, TypeOK
  <2>4. batch[c] \subseteq Kept'
    BY <2>3 DEF Kept, Underway
  <2>5. /\ UNCHANGED <<batch, direct, accepted>>
        /\ \A e \in Callers : e # c => cpc'[e] = cpc[e]
    BY <1>3, <1>k DEF Enqueue, TypeOK
  <2> QED BY <1>k, <2>4, <2>5 DEF BatchIsKept
<1>4. ASSUME NEW c \in Callers, EnqueueFails(c)
      PROVE  BatchIsKept' /\ JobKept'
  <2>1. /\ UNCHANGED <<batch, accepted>> /\ batch[c] \subseteq direct'[c]
        /\ \A e \in Callers : e # c => cpc'[e] = cpc[e] /\ direct'[e] = direct[e]
    BY <1>4, <1>k DEF EnqueueFails, TypeOK
  <2> QED BY <1>k, <2>1 DEF BatchIsKept
<1>5. ASSUME NEW c \in Callers, Direct(c)
      PROVE  BatchIsKept' /\ JobKept'
  <2>1. direct[c] \subseteq Kept'
    BY <1>5 DEF Direct, Send, Kept
  <2>2. batch[c] \ direct[c] \subseteq Kept
    BY <1>5, <1>k DEF Direct, BatchIsKept
  <2>3. accepted' = accepted \cup batch[c] \cup direct[c]
    BY <1>5 DEF Direct
  <2>4. JobKept'
    BY <1>k, <2>1, <2>2, <2>3
  <2>5. BatchIsKept'
    BY <1>5, <1>k DEF Direct, Return, BatchIsKept, TypeOK
  <2> QED BY <2>4, <2>5
<1>6. ASSUME NEW c \in Callers, DirectFails(c)
      PROVE  BatchIsKept' /\ JobKept'
  BY <1>1, <1>6, <1>k DEF DirectFails, Return, TypeOK
<1>7. (\E c \in Callers : Calling(c)) \/ UNCHANGED <<cpc, batch, direct, accepted>>
  BY DEF Next, Cycle, vars, TryAcquire, AcquireFails, Check, CheckFails, Pop,
     PopFails, Publish,
         PublishFails, Dispatch, Refill, RefillFails, Refilled, Release, Crash,
            Consume, Expire
<1> QED BY <1>1, <1>2, <1>3, <1>4, <1>5, <1>6, <1>7 DEF Calling

LEMMA IInvHolds == Spec => []IInv
<1>1. IInv /\ [Next]_vars => IInv'
  BY TypesStay, SubmittedStays, HandsStay, LockStays, BatchStays DEF IInv
<1> QED BY InitIInv, <1>1, PTL DEF Spec

(* The types of the buffer's state are as declared.                        *)
THEOREM JobBufferTypes == Spec => []TypeOK
BY IInvHolds, PTL DEF IInv

(* A job for which PublishBatch returned no error is in the Redis list, in *)
(* a drainer's hand, in Kafka or with the retry scheduler -- through every *)
(* EnqueueBatch, PopN, dispatchToRetry and put-back that fails halfway,    *)
(* every death of a drainer and every take-over of the leader lock --      *)
(* unless it went one of the ways that Loses names.                        *)
THEOREM AcceptedJobIsKept == Spec => []JobKept
BY IInvHolds, PTL DEF IInv

(* Two drainers run drainAll at the same time only when the TTL of the     *)
(* leader lock has run out under one of them: Release deletes the lock of  *)
(* its own token only.                                                     *)
THEOREM DrainersTakeTurns == Spec => []OneLeader
<1>1. IInv => OneLeader
  BY DEF IInv, LockIsHeld, OneLeader
<1> QED BY IInvHolds, <1>1, PTL
=============================================================================
