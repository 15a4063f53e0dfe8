-------------------------- MODULE StageGateProofs --------------------------
(***************************************************************************)
(* Proofs that the stage gate keeps its permits accounted for and its URL  *)
(* locks exclusive, for any number of pods, workers, URLs and permits.     *)
(***************************************************************************)
EXTENDS StageGateLease, FiniteSetTheorems, TLAPS

(* What Acquire and release know of tokens: a worker has one exactly from  *)
(* the SET that answered it to the script that deletes it, no two workers  *)
(* have the same one, and until the TTL runs out Redis has it too.         *)
TokensInHand ==
  /\ \A w \in Workers : pc[w] \in {"holding", "unlock"} => result[w] = "held"
  /\ \A w \in Workers :
       token[w] # NoToken <=> /\ pc[w] \in {"holding", "release", "post", "unlock"}
                              /\ result[w] = "held"
  /\ \A v, w \in Workers : v # w /\ token[v] # NoToken => token[v] # token[w]
  /\ \A w \in Workers :
       token[w] # NoToken /\ w \notin overran => lock[url[w]] = token[w]

IInv == TypeOK /\ PermitsAccounted /\ InFlightWithinPermits /\ TokensInHand

(* A pod's workers can be counted. *)
LEMMA CountType ==
  ASSUME NEW f, NEW p, NEW S
  PROVE  NumAt(f, p, S) \in Nat
<1>1. {x \in Workers : PodOf[x] = p /\ f[x] \in S} \subseteq Workers
  OBVIOUS
<1>2. IsFiniteSet({x \in Workers : PodOf[x] = p /\ f[x] \in S})
  BY <1>1, StageGateAssumption, FS_Subset
<1> QED BY <1>2, FS_CardinalityType DEF NumAt

(* How one worker's move changes the number of workers of a pod at a set   *)
(* of places.                                                              *)
In(S, l) == IF l \in S THEN 1 ELSE 0
Shift(n, S, from, to) == n + In(S, to) - In(S, from)

LEMMA CountMove ==
  ASSUME pc \in [Workers -> PCs], NEW w \in Workers, NEW l \in PCs,
         pc' = [pc EXCEPT ![w] = l], NEW p \in Pods, NEW S
  PROVE  /\ NumAt(pc, p, S) \in Nat
         /\ p # PodOf[w] => NumAt(pc', p, S) = NumAt(pc, p, S)
         /\ p = PodOf[w] => NumAt(pc', p, S) = Shift(NumAt(pc, p, S), S, pc[w], l)
<1> DEFINE F == {x \in Workers : PodOf[x] = p /\ pc[x] \in S}
           G == {x \in Workers : PodOf[x] = p /\ pc'[x] \in S}
<1>1. /\ IsFiniteSet(F) /\ Cardinality(F) \in Nat
      /\ NumAt(pc, p, S) = Cardinality(F) /\ NumAt(pc', p, S) = Cardinality(G)
  <2>1. F \subseteq Workers
    OBVIOUS
  <2>2. IsFiniteSet(F)
    BY <2>1, StageGateAssumption, FS_Subset
  <2> QED BY <2>2, FS_CardinalityType DEF NumAt
<1>2. p # PodOf[w] \/ (pc[w] \in S <=> l \in S) => G = F
  OBVIOUS
<1>3. ASSUME p = PodOf[w], pc[w] \notin S, l \in S
      PROVE  Cardinality(G) = Cardinality(F) + 1
  <2>1. G = F \cup {w} /\ w \notin F
    BY <1>3
  <2> QED BY <2>1, <1>1, FS_AddElement
<1>4. ASSUME p = PodOf[w], pc[w] \in S
      PROVE  Cardinality(F) > 0 /\ (l \notin S => Cardinality(G) = Cardinality(F) - 1)
  <2>1. w \in F
    BY <1>4
  <2>2. Cardinality(F \ {w}) = Cardinality(F) - 1 /\ Cardinality(F \ {w}) \in Nat
    <3>1. Cardinality(F \ {w}) = Cardinality(F) - 1
      BY <2>1, <1>1, FS_RemoveElement
    <3>2. Cardinality(F \ {w}) \in Nat
      BY <1>1, FS_Subset, FS_CardinalityType
    <3> QED BY <3>1, <3>2
  <2>3. l \notin S => G = F \ {w}
    BY <1>4
  <2>4. l \notin S => Cardinality(G) = Cardinality(F \ {w})
    BY <2>3
  <2> HIDE DEF F, G
  <2> QED BY <2>2, <2>4, <1>1
<1> HIDE DEF F, G
<1>5. Cardinality(G) = Shift(Cardinality(F), S, pc[w], l) \/ p # PodOf[w]
  BY <1>1, <1>2, <1>3, <1>4 DEF In, Shift
<1>6. p # PodOf[w] => Cardinality(G) = Cardinality(F)
  BY <1>2
<1> QED BY <1>1, <1>5, <1>6

(* The step of one worker w from its place to l keeps the permits and the  *)
(* count accounted for when each changes exactly as w enters or leaves the *)
(* places it counts.                                                       *)
LEMMA MoveAccounts ==
  ASSUME TypeOK, PermitsAccounted, NEW w \in Workers, NEW l \in PCs,
         pc' = [pc EXCEPT ![w] = l],
         \A p \in Pods : p # PodOf[w] => permits'[p] = permits[p] /\ inFlight'[p] = inFlight[p],
         permits'[PodOf[w]] = Shift(permits[PodOf[w]], PermitPCs, pc[w], l),
         inFlight'[PodOf[w]] = Shift(inFlight[PodOf[w]], CountedPCs, pc[w], l)
  PROVE  /\ PermitsAccounted'
         /\ \A p \in Pods : permits'[p] \in Nat /\ inFlight'[p] \in Nat
<1>1. pc \in [Workers -> PCs]
  BY DEF TypeOK
<1>2. ASSUME NEW p \in Pods
      PROVE  /\ permits[p] = NumAt(pc, p, PermitPCs)
             /\ inFlight[p] = NumAt(pc, p, CountedPCs)
  BY DEF PermitsAccounted
<1>3. PodOf[w] \in Pods
  BY StageGateAssumption
<1>4. ASSUME NEW p \in Pods, NEW S
      PROVE  /\ p # PodOf[w] => NumAt(pc', p, S) = NumAt(pc, p, S)
             /\ p = PodOf[w] => NumAt(pc', p, S) = Shift(NumAt(pc, p, S), S, pc[w], l)
  BY <1>1, CountMove
<1>5. /\ NumAt(pc', PodOf[w], PermitPCs)
           = Shift(NumAt(pc, PodOf[w], PermitPCs), PermitPCs, pc[w], l)
      /\ NumAt(pc', PodOf[w], CountedPCs)
           = Shift(NumAt(pc, PodOf[w], CountedPCs), CountedPCs, pc[w], l)
  BY <1>3, <1>4
<1>6. /\ permits[PodOf[w]] = NumAt(pc, PodOf[w], PermitPCs)
      /\ inFlight[PodOf[w]] = NumAt(pc, PodOf[w], CountedPCs)
  BY <1>2, <1>3
<1>7. ASSUME NEW p \in Pods
      PROVE  permits'[p] = NumAt(pc', p, PermitPCs) /\ inFlight'[p] = NumAt(pc', p, CountedPCs)
  <2>1. CASE p # PodOf[w]
    BY <1>2, <1>4, <2>1
  <2>2. CASE p = PodOf[w]
    BY <1>5, <1>6, <2>2
  <2> QED BY <2>1, <2>2
<1>8. ASSUME NEW p \in Pods
      PROVE  permits'[p] \in Nat /\ inFlight'[p] \in Nat
  BY <1>7, CountType
<1> QED BY <1>7, <1>8 DEF PermitsAccounted

(* Every worker counted by InFlight() has taken a permit. *)
LEMMA CountedHavePermits ==
  ASSUME NEW f \in [Workers -> PCs], NEW p \in Pods
  PROVE  /\ NumAt(f, p, CountedPCs) \in Nat
         /\ NumAt(f, p, PermitPCs) \in Nat
         /\ NumAt(f, p, CountedPCs) <= NumAt(f, p, PermitPCs)
<1> DEFINE C == {x \in Workers : PodOf[x] = p /\ f[x] \in CountedPCs}
           H == {x \in Workers : PodOf[x] = p /\ f[x] \in PermitPCs}
<1>1. IsFiniteSet(H)
  <2>1. H \subseteq Workers
    OBVIOUS
  <2> QED BY <2>1, StageGateAssumption, FS_Subset
<1>2. C \subseteq H
  BY DEF CountedPCs, PermitPCs
<1>3. IsFiniteSet(C) /\ Cardinality(C) <= Cardinality(H)
  BY <1>1, <1>2, FS_Subset
<1> QED BY <1>1, <1>3, FS_CardinalityType DEF NumAt

LEMMA InitIInv == Init => IInv
<1> SUFFICES ASSUME Init PROVE IInv
  OBVIOUS
<1>1. TypeOK
  BY DEF Init, TypeOK, PCs, Results
<1>2. ASSUME NEW p \in Pods
      PROVE  NumAt(pc, p, PermitPCs) = 0 /\ NumAt(pc, p, CountedPCs) = 0
  <2>1. /\ {x \in Workers : PodOf[x] = p /\ pc[x] \in PermitPCs} = {}
        /\ {x \in Workers : PodOf[x] = p /\ pc[x] \in CountedPCs} = {}
    BY DEF Init, PermitPCs, CountedPCs
  <2> QED BY <2>1, FS_EmptySet DEF NumAt
<1>3. PermitsAccounted
  BY <1>2 DEF PermitsAccounted, Init
<1>4. InFlightWithinPermits
  BY StageGateAssumption DEF InFlightWithinPermits, Init
<1>5. TokensInHand
  BY DEF TokensInHand, Init
<1> QED BY <1>1, <1>3, <1>4, <1>5 DEF IInv

(* The bounds of the semaphore follow from its accounts. *)
LEMMA BoundsFollow ==
  ASSUME TypeOK', PermitsAccounted', \A p \in Pods : permits'[p] <= Capacity
  PROVE  InFlightWithinPermits'
<1>1. pc' \in [Workers -> PCs]
  BY DEF TypeOK
<1>2. ASSUME NEW p \in Pods
      PROVE  inFlight'[p] <= permits'[p]
  <2>1. NumAt(pc', p, CountedPCs) <= NumAt(pc', p, PermitPCs)
    BY <1>1, CountedHavePermits
  <2> QED BY <2>1 DEF PermitsAccounted
<1> QED BY <1>2 DEF InFlightWithinPermits

(* One worker's step, when it changes no permit, no count and no lock. *)
LEMMA PlainMove ==
  ASSUME IInv, NEW w \in Workers, NEW l \in PCs, pc' = [pc EXCEPT ![w] = l],
         l \in PermitPCs <=> pc[w] \in PermitPCs,
         l \in CountedPCs <=> pc[w] \in CountedPCs,
         UNCHANGED <<permits, inFlight>>, TypeOK', TokensInHand'
  PROVE  IInv'
<1>1. /\ TypeOK /\ PermitsAccounted /\ PodOf[w] \in Pods
      /\ permits[PodOf[w]] \in Nat /\ inFlight[PodOf[w]] \in Nat
  BY StageGateAssumption DEF IInv, TypeOK
<1>2. /\ permits'[PodOf[w]] = Shift(permits[PodOf[w]], PermitPCs, pc[w], l)
      /\ inFlight'[PodOf[w]] = Shift(inFlight[PodOf[w]], CountedPCs, pc[w], l)
  BY <1>1 DEF Shift, In
<1>3. PermitsAccounted'
  BY <1>1, <1>2, MoveAccounts
<1>4. \A p \in Pods : permits'[p] <= Capacity
  BY DEF IInv, InFlightWithinPermits
<1>5. InFlightWithinPermits'
  BY <1>3, <1>4, BoundsFollow
<1> QED BY <1>3, <1>5 DEF IInv

LEMMA AcquireIInv ==
  ASSUME IInv, NEW w \in Workers, Acquire(w)
  PROVE  IInv'
<1> USE DEF IInv
<1>1. ASSUME NEW u \in Urls, Enter(w, u)
      PROVE  IInv'
  <2>1. TypeOK' /\ TokensInHand'
    BY <1>1 DEF Enter, Goto, TypeOK, PCs, TokensInHand
  <2>2. pc' = [pc EXCEPT ![w] = "wait"] /\ pc[w] = "idle" /\ UNCHANGED <<permits, inFlight>>
    BY <1>1 DEF Enter, Goto
  <2> QED BY <2>1, <2>2, PlainMove DEF PermitPCs, CountedPCs, PCs
<1>2. CASE TakePermit(w)
  <2>1. /\ TypeOK /\ PermitsAccounted /\ PodOf[w] \in Pods
        /\ pc' = [pc EXCEPT ![w] = "admitted"] /\ pc[w] = "wait"
        /\ permits' = [permits EXCEPT ![PodOf[w]] = @ + 1]
        /\ permits[PodOf[w]] < Capacity /\ UNCHANGED inFlight
        /\ permits \in [Pods -> Nat] /\ inFlight \in [Pods -> Nat]
    BY <1>2, StageGateAssumption DEF TakePermit, Goto, Room, TypeOK
  <2>2. /\ permits'[PodOf[w]] = Shift(permits[PodOf[w]], PermitPCs, pc[w], "admitted")
        /\ inFlight'[PodOf[w]] = Shift(inFlight[PodOf[w]], CountedPCs, pc[w], "admitted")
        /\ "admitted" \in PCs
    BY <2>1 DEF Shift, In, PermitPCs, CountedPCs, PCs
  <2>3. PermitsAccounted'
    BY <2>1, <2>2, MoveAccounts
  <2>4. TypeOK' /\ TokensInHand'
    BY <1>2, <2>1 DEF TakePermit, TypeOK, PCs, TokensInHand
  <2>5. \A p \in Pods : permits'[p] <= Capacity
    BY <2>1, StageGateAssumption DEF InFlightWithinPermits
  <2> QED BY <2>3, <2>4, <2>5, BoundsFollow
<1>3. CASE CancelWait(w)
  <2>1. TypeOK' /\ TokensInHand'
    BY <1>3 DEF CancelWait, Goto, TypeOK, PCs, TokensInHand
  <2>2. pc' = [pc EXCEPT ![w] = "idle"] /\ pc[w] = "wait" /\ UNCHANGED <<permits, inFlight>>
    BY <1>3 DEF CancelWait, Goto
  <2> QED BY <2>1, <2>2, PlainMove DEF PermitPCs, CountedPCs, PCs
<1>4. CASE CountIn(w)
  <2>1. /\ TypeOK /\ PermitsAccounted /\ PodOf[w] \in Pods
        /\ pc' = [pc EXCEPT ![w] = "setnx"] /\ pc[w] = "admitted"
        /\ inFlight' = [inFlight EXCEPT ![PodOf[w]] = @ + 1] /\ UNCHANGED permits
        /\ permits \in [Pods -> Nat] /\ inFlight \in [Pods -> Nat]
    BY <1>4, StageGateAssumption DEF CountIn, Goto, TypeOK
  <2>2. /\ permits'[PodOf[w]] = Shift(permits[PodOf[w]], PermitPCs, pc[w], "setnx")
        /\ inFlight'[PodOf[w]] = Shift(inFlight[PodOf[w]], CountedPCs, pc[w], "setnx")
        /\ "setnx" \in PCs
    BY <2>1 DEF Shift, In, PermitPCs, CountedPCs, PCs
  <2>3. PermitsAccounted'
    BY <2>1, <2>2, MoveAccounts
  <2>4. TypeOK' /\ TokensInHand'
    BY <1>4, <2>1 DEF CountIn, TypeOK, PCs, TokensInHand
  <2>5. \A p \in Pods : permits'[p] <= Capacity
    BY <2>1 DEF InFlightWithinPermits
  <2> QED BY <2>3, <2>4, <2>5, BoundsFollow
<1>5. CASE LockTaken(w)
  <2>1. PICK t \in Fresh : /\ lock' = [lock EXCEPT ![url[w]] = t]
                           /\ token' = [token EXCEPT ![w] = t]
    BY <1>5 DEF LockTaken
  <2>2. /\ pc' = [pc EXCEPT ![w] = "holding"] /\ pc[w] = "setnx"
        /\ result' = [result EXCEPT ![w] = "held"]
        /\ lock[url[w]] = NoToken
        /\ UNCHANGED <<url, permits, inFlight, overran>>
    BY <1>5 DEF LockTaken, Goto
  <2>3. /\ t \in Tokens /\ t # NoToken
        /\ \A x \in Workers : token[x] # t
    BY <2>1, StageGateAssumption DEF Fresh
  <2>4. TypeOK'
    BY <2>1, <2>2, <2>3 DEF TypeOK, PCs, Results
  <2>5. TokensInHand'
    BY <2>1, <2>2, <2>3 DEF TypeOK, TokensInHand
  <2> QED BY <2>2, <2>4, <2>5, PlainMove DEF PermitPCs, CountedPCs, PCs
<1>6. CASE LockBusy(w)
  <2>1. TypeOK' /\ TokensInHand'
    BY <1>6 DEF LockBusy, OnBusy, Goto, TypeOK, PCs, Results, TokensInHand
  <2>2. pc' = [pc EXCEPT ![w] = "release"] /\ pc[w] = "setnx" /\ UNCHANGED <<permits, inFlight>>
    BY <1>6 DEF LockBusy, OnBusy, Goto
  <2> QED BY <2>1, <2>2, PlainMove DEF PermitPCs, CountedPCs, PCs
<1>7. CASE LockFails(w)
  <2>1. /\ pc' = [pc EXCEPT ![w] = "release"] /\ pc[w] = "setnx"
        /\ result' = [result EXCEPT ![w] = "error"]
        /\ UNCHANGED <<url, token, permits, inFlight, overran>>
    BY <1>7 DEF LockFails, OnError, Goto
  <2>2. /\ lock' \in [Urls -> Tokens \cup {NoToken}]
        /\ \A u \in Urls : lock[u] # NoToken => lock'[u] = lock[u]
    BY <1>7 DEF LockFails, Fresh, TypeOK
  <2>3. TypeOK'
    BY <2>1, <2>2 DEF TypeOK, PCs, Results
  <2>4. TokensInHand'
    BY <2>1, <2>2 DEF TypeOK, TokensInHand
  <2> QED BY <2>1, <2>3, <2>4, PlainMove DEF PermitPCs, CountedPCs, PCs
<1> QED BY <1>1, <1>2, <1>3, <1>4, <1>5, <1>6, <1>7 DEF Acquire

LEMMA ReleaseIInv ==
  ASSUME IInv, NEW w \in Workers, Release(w)
  PROVE  IInv'
<1> USE DEF IInv
<1>1. CASE FinishWork(w)
  <2>1. TypeOK' /\ TokensInHand'
    BY <1>1 DEF FinishWork, Goto, TypeOK, PCs, TokensInHand
  <2>2. pc' = [pc EXCEPT ![w] = "release"] /\ pc[w] = "holding" /\ UNCHANGED <<permits, inFlight>>
    BY <1>1 DEF FinishWork, Goto
  <2> QED BY <2>1, <2>2, PlainMove DEF PermitPCs, CountedPCs, PCs
<1>2. CASE CountOut(w)
  <2>1. /\ TypeOK /\ PermitsAccounted /\ PodOf[w] \in Pods /\ pc[w] = "release"
        /\ permits \in [Pods -> Nat] /\ inFlight \in [Pods -> Nat]
    BY <1>2, StageGateAssumption DEF CountOut, TypeOK
  <2>2. inFlight[PodOf[w]] # 0
    <3>1. w \in {x \in Workers : PodOf[x] = PodOf[w] /\ pc[x] \in CountedPCs}
      BY <2>1 DEF CountedPCs
    <3>2. NumAt(pc, PodOf[w], CountedPCs) # 0
      <4> DEFINE C == {x \in Workers : PodOf[x] = PodOf[w] /\ pc[x] \in CountedPCs}
      <4>1. C \subseteq Workers
        OBVIOUS
      <4>2. IsFiniteSet(C)
        BY <4>1, StageGateAssumption, FS_Subset
      <4>3. Cardinality(C) # 0
        BY <3>1, <4>2, FS_EmptySet
      <4> QED BY <4>3 DEF NumAt
    <3> QED BY <2>1, <3>2 DEF PermitsAccounted
  <2>3. /\ pc' = [pc EXCEPT ![w] = "post"] /\ UNCHANGED permits
        /\ inFlight' = [inFlight EXCEPT ![PodOf[w]] = @ - 1]
    BY <1>2, <2>2 DEF CountOut, Goto
  <2>4. /\ permits'[PodOf[w]] = Shift(permits[PodOf[w]], PermitPCs, pc[w], "post")
        /\ inFlight'[PodOf[w]] = Shift(inFlight[PodOf[w]], CountedPCs, pc[w], "post")
        /\ "post" \in PCs
    BY <2>1, <2>3 DEF Shift, In, PermitPCs, CountedPCs, PCs
  <2>5. PermitsAccounted'
    BY <2>1, <2>3, <2>4, MoveAccounts
  <2>6. TypeOK' /\ TokensInHand'
    BY <1>2, <2>1, <2>2, <2>3 DEF CountOut, TypeOK, PCs, TokensInHand
  <2>7. \A p \in Pods : permits'[p] <= Capacity
    BY <2>3 DEF InFlightWithinPermits
  <2> QED BY <2>5, <2>6, <2>7, BoundsFollow
<1>3. CASE ReturnPermit(w)
  <2>1. /\ TypeOK /\ PermitsAccounted /\ PodOf[w] \in Pods /\ pc[w] = "post"
        /\ permits \in [Pods -> Nat] /\ inFlight \in [Pods -> Nat]
        /\ permits' = [permits EXCEPT ![PodOf[w]] = @ - 1]
        /\ UNCHANGED <<result, url, token, inFlight, lock, overran>>
    BY <1>3, StageGateAssumption DEF ReturnPermit, PermitsReturned, TypeOK
  <2>2. PICK l \in {"unlock", "idle", "open"} :
          /\ pc' = [pc EXCEPT ![w] = l]
          /\ l = "unlock" <=> result[w] = "held"
    <3>1. CASE result[w] = "held"
      BY <1>3, <3>1 DEF ReturnPermit, Goto
    <3>2. CASE result[w] # "held"
      BY <1>3, <3>2 DEF ReturnPermit, Goto
    <3> QED BY <3>1, <3>2
  <2>3. /\ permits'[PodOf[w]] = Shift(permits[PodOf[w]], PermitPCs, pc[w], l)
        /\ inFlight'[PodOf[w]] = Shift(inFlight[PodOf[w]], CountedPCs, pc[w], l)
        /\ l \in PCs
    BY <2>1, <2>2 DEF Shift, In, PermitPCs, CountedPCs, PCs
  <2>4. /\ PermitsAccounted'
        /\ \A p \in Pods : permits'[p] \in Nat /\ inFlight'[p] \in Nat
    BY <2>1, <2>2, <2>3, MoveAccounts
  <2>5. permits' \in [Pods -> Nat]
    BY <2>1, <2>4
  <2>6. TypeOK'
    BY <2>1, <2>2, <2>3, <2>5 DEF TypeOK
  <2>7. TokensInHand'
    BY <2>1, <2>2 DEF TypeOK, TokensInHand
  <2>8. \A p \in Pods : permits'[p] <= Capacity
    BY <2>1, StageGateAssumption DEF InFlightWithinPermits
  <2> QED BY <2>4, <2>6, <2>7, <2>8, BoundsFollow
<1>4. CASE Unlock(w)
  <2>1. /\ pc' = [pc EXCEPT ![w] = "idle"] /\ pc[w] = "unlock"
        /\ token' = [token EXCEPT ![w] = NoToken]
        /\ result' = [result EXCEPT ![w] = "none"]
        /\ overran' = overran \ {w}
        /\ UNCHANGED <<url, permits, inFlight>>
    BY <1>4 DEF Unlock, Goto
  <2>2. /\ lock' \in [Urls -> Tokens \cup {NoToken}]
        /\ \A u \in Urls : lock[u] # token[w] => lock'[u] = lock[u]
    BY <1>4 DEF Unlock, Owned, TypeOK
  <2>3. TypeOK'
    BY <2>1, <2>2 DEF TypeOK, PCs, Results
  <2>4. TokensInHand'
    BY <2>1, <2>2 DEF TypeOK, TokensInHand
  <2> QED BY <2>1, <2>3, <2>4, PlainMove DEF PermitPCs, CountedPCs, PCs
<1>5. CASE FinishOpen(w)
  <2>1. TypeOK' /\ TokensInHand'
    BY <1>5 DEF FinishOpen, Goto, TypeOK, PCs, TokensInHand
  <2>2. pc' = [pc EXCEPT ![w] = "idle"] /\ pc[w] = "open" /\ UNCHANGED <<permits, inFlight>>
    BY <1>5 DEF FinishOpen, Goto
  <2> QED BY <2>1, <2>2, PlainMove DEF PermitPCs, CountedPCs, PCs
<1> QED BY <1>1, <1>2, <1>3, <1>4, <1>5 DEF Release

LEMMA ExpireIInv ==
  ASSUME IInv, NEW u \in Urls, Expire(u)
  PROVE  IInv'
<1>1. TypeOK' /\ TokensInHand'
  BY DEF IInv, Expire, TypeOK, TokensInHand
<1>2. UNCHANGED <<pc, permits, inFlight>>
  BY DEF Expire
<1>3. PermitsAccounted' /\ InFlightWithinPermits'
  BY <1>2 DEF IInv, PermitsAccounted, InFlightWithinPermits
<1> QED BY <1>1, <1>3 DEF IInv

LEMMA CrashIInv ==
  ASSUME IInv, NEW p \in Pods, Crash(p)
  PROVE  IInv'
<1>1. /\ pc' = [w \in Workers |-> IF PodOf[w] = p THEN "idle" ELSE pc[w]]
      /\ result' = [w \in Workers |-> IF PodOf[w] = p THEN "none" ELSE result[w]]
      /\ token' = [w \in Workers |-> IF PodOf[w] = p THEN NoToken ELSE token[w]]
      /\ overran' = overran \ {w \in Workers : PodOf[w] = p}
      /\ permits' = [permits EXCEPT ![p] = 0]
      /\ inFlight' = [inFlight EXCEPT ![p] = 0]
      /\ UNCHANGED <<url, lock>>
  BY DEF Crash
<1>2. TypeOK'
  BY <1>1 DEF IInv, TypeOK, PCs, Results
<1>3. TokensInHand'
  BY <1>1 DEF IInv, TypeOK, TokensInHand
<1>4. PermitsAccounted'
  <2>1. ASSUME NEW q \in Pods, NEW S, "idle" \notin S
        PROVE  /\ q = p => NumAt(pc', q, S) = 0
               /\ q # p => NumAt(pc', q, S) = NumAt(pc, q, S)
    <3>1. ASSUME q = p
          PROVE  {w \in Workers : PodOf[w] = q /\ pc'[w] \in S} = {}
      BY <1>1, <2>1, <3>1
    <3>2. ASSUME q # p
          PROVE  {w \in Workers : PodOf[w] = q /\ pc'[w] \in S}
                   = {w \in Workers : PodOf[w] = q /\ pc[w] \in S}
      BY <1>1, <3>2
    <3> QED BY <3>1, <3>2, FS_EmptySet DEF NumAt
  <2>2. "idle" \notin PermitPCs /\ "idle" \notin CountedPCs
    BY DEF PermitPCs, CountedPCs
  <2>3. ASSUME NEW q \in Pods
        PROVE  /\ permits'[q] = NumAt(pc', q, PermitPCs)
               /\ inFlight'[q] = NumAt(pc', q, CountedPCs)
    BY <1>1, <2>1, <2>2 DEF IInv, TypeOK, PermitsAccounted
  <2> QED BY <2>3 DEF PermitsAccounted
<1>5. \A q \in Pods : permits'[q] <= Capacity
  BY <1>1, StageGateAssumption DEF IInv, TypeOK, InFlightWithinPermits
<1> QED BY <1>2, <1>3, <1>4, <1>5, BoundsFollow DEF IInv

LEMMA NextIInv == IInv /\ [Next]_vars => IInv'
<1> SUFFICES ASSUME IInv, [Next]_vars PROVE IInv'
  OBVIOUS
<1>1. CASE Next
  BY <1>1, AcquireIInv, ReleaseIInv, ExpireIInv, CrashIInv DEF Next
<1>2. CASE UNCHANGED vars
  BY <1>2 DEF vars, IInv, TypeOK, PermitsAccounted, InFlightWithinPermits, TokensInHand
<1> QED BY <1>1, <1>2

(* The semaphores of every pod stay accounted for and within their         *)
(* capacity through every interleaving, failure and crash.                 *)
THEOREM PermitsSafe == Spec => [](TypeOK /\ PermitsAccounted /\ InFlightWithinPermits)
<1>1. IInv => TypeOK /\ PermitsAccounted /\ InFlightWithinPermits
  BY DEF IInv
<1> QED BY <1>1, InitIInv, NextIInv, PTL DEF Spec

(* Two workers, of any pods, work on one URL under the gate only after the *)
(* lock of one of them has outlived its TTL.                               *)
THEOREM GateExclusive == Spec => []ExclusiveUntilTTL
<1>1. IInv => ExclusiveUntilTTL
  BY DEF IInv, TokensInHand, ExclusiveUntilTTL, Gated
<1> QED BY <1>1, InitIInv, NextIInv, PTL DEF Spec

(* No release, skip, failed call or crash of another worker removes the    *)
(* lock of a worker that is at work and within its TTL.                    *)
THEOREM LockKept == Spec => []LockKeptWhileHeld
<1>1. IInv => LockKeptWhileHeld
  BY DEF IInv, TokensInHand, LockKeptWhileHeld, Gated
<1> QED BY <1>1, InitIInv, NextIInv, PTL DEF Spec

(***************************************************************************)
(* The rest is the proof that the stage gate implements the lease of       *)
(* module Lease, for any number of pods, workers, URLs and tokens.         *)
(***************************************************************************)

(* Who owns a URL's lease, told by the lock and the tokens in hand. *)
OwnersTold ==
  \A u \in Urls :
    /\ OwnerOf(u) \in Workers \cup {Free, Stray}
    /\ OwnerOf(u) = Free <=> lock[u] = NoToken
    /\ \A w \in Workers :
         OwnerOf(u) = w <=> token[w] # NoToken /\ url[w] = u /\ token[w] = lock[u]

LEMMA OwnersAreTold == IInv => OwnersTold
<1> SUFFICES ASSUME IInv, NEW u \in Urls
             PROVE  /\ OwnerOf(u) \in Workers \cup {Free, Stray}
                    /\ OwnerOf(u) = Free <=> lock[u] = NoToken
                    /\ \A w \in Workers : OwnerOf(u) = w
                         <=> token[w] # NoToken /\ url[w] = u /\ token[w] = lock[u]
  BY DEF OwnersTold
<1> USE StageGateLeaseAssumption
<1>1. CASE lock[u] = NoToken
  BY <1>1 DEF OwnerOf
<1>2. CASE lock[u] # NoToken /\ Owners(u) = {}
  BY <1>2 DEF OwnerOf, Owners
<1>3. CASE lock[u] # NoToken /\ Owners(u) # {}
  <2>1. OwnerOf(u) = CHOOSE w \in Workers : w \in Owners(u)
    BY <1>3 DEF OwnerOf
  <2>2. \E w \in Workers : w \in Owners(u)
    BY <1>3 DEF Owners
  <2>3. OwnerOf(u) \in Workers /\ OwnerOf(u) \in Owners(u)
    BY <2>1, <2>2
  <2>4. \A v, w \in Owners(u) : v = w
    BY DEF Owners, IInv, TokensInHand
  <2>5. \A w \in Workers : w \in Owners(u)
          <=> token[w] # NoToken /\ url[w] = u /\ token[w] = lock[u]
    BY DEF Owners
  <2> QED BY <1>3, <2>3, <2>4, <2>5
<1> QED BY <1>1, <1>2, <1>3

LEMMA OwnersStayTold == (IInv => OwnersTold)'
BY OwnersAreTold, PTL

(* An owner is known by the workers it is and by whether it is anybody. *)
LEMMA SameOwner ==
  ASSUME NEW x \in Workers \cup {Free, Stray}, NEW y \in Workers \cup {Free, Stray},
         x = Free <=> y = Free, \A w \in Workers : x = w <=> y = w
  PROVE  x = y
BY StageGateLeaseAssumption

(* Where the lock and the tokens in hand stand still, so does the owner. *)
LEMMA OwnerStays ==
  ASSUME OwnersTold, OwnersTold', NEW u \in Urls, lock'[u] = lock[u],
         \A w \in Workers :
           (token[w] # NoToken /\ url[w] = u /\ token[w] = lock[u])
             <=> (token'[w] # NoToken /\ url'[w] = u /\ token'[w] = lock[u])
  PROVE  OwnerOf(u)' = OwnerOf(u)
<1> DEFINE x == OwnerOf(u)
           y == OwnerOf(u)'
<1>1. /\ x \in Workers \cup {Free, Stray} /\ y \in Workers \cup {Free, Stray}
      /\ x = Free <=> y = Free
      /\ \A w \in Workers : x = w <=> y = w
  BY DEF OwnersTold
<1> HIDE DEF x, y
<1>2. x = y
  BY <1>1, SameOwner
<1> QED BY <1>2 DEF x, y

LEMMA ClaimStays ==
  ASSUME NEW w \in Workers, token'[w] = token[w],
         token[w] # NoToken => url'[w] = url[w]
  PROVE  ClaimOf(w)' = ClaimOf(w)
BY DEF ClaimOf

(* A step that touches neither lock nor token, nor the URL of a worker     *)
(* with a token, is no step of the lease.                                  *)
LEMMA NoLeaseStep ==
  ASSUME OwnersTold, OwnersTold', UNCHANGED <<lock, token>>,
         \A w \in Workers : token[w] # NoToken => url'[w] = url[w]
  PROVE  UNCHANGED Leases!leases
<1>1. \A u \in Urls : OwnerOf(u)' = OwnerOf(u)
  <2> SUFFICES ASSUME NEW u \in Urls PROVE OwnerOf(u)' = OwnerOf(u)
    OBVIOUS
  <2>1. \A w \in Workers :
           (token[w] # NoToken /\ url[w] = u /\ token[w] = lock[u])
             <=> (token'[w] # NoToken /\ url'[w] = u /\ token'[w] = lock[u])
    OBVIOUS
  <2> QED BY <2>1, OwnerStays
<1>2. \A w \in Workers : ClaimOf(w)' = ClaimOf(w)
  BY ClaimStays
<1> QED BY <1>1, <1>2 DEF Leases!leases

(* A step after which the owner of one URL alone may be another, and the   *)
(* claim of one worker alone, is the update of owner and claim it names.   *)
LEMMA OneKeyChanges ==
  ASSUME NEW k \in Urls, NEW o,
         OwnerOf(k)' = o, \A u \in Urls \ {k} : OwnerOf(u)' = OwnerOf(u)
  PROVE  [u \in Urls |-> OwnerOf(u)]' = [[u \in Urls |-> OwnerOf(u)] EXCEPT ![k] = o]
OBVIOUS

LEMMA OneClaimChanges ==
  ASSUME NEW w \in Workers, NEW c,
         ClaimOf(w)' = c, \A v \in Workers \ {w} : ClaimOf(v)' = ClaimOf(v)
  PROVE  [v \in Workers |-> ClaimOf(v)]' = [[v \in Workers |-> ClaimOf(v)] EXCEPT ![w] = c]
OBVIOUS

LEMMA InitIsLease == Init => Leases!Init
<1> SUFFICES ASSUME Init PROVE Leases!Init
  OBVIOUS
<1>1. \A u \in Urls : OwnerOf(u) = Free
  BY DEF Init, OwnerOf
<1>2. \A w \in Workers : ClaimOf(w) = NoUrl
  BY DEF Init, ClaimOf
<1> QED BY <1>1, <1>2 DEF Leases!Init

LEMMA TakenIsGrant ==
  ASSUME IInv, OwnersTold, OwnersTold', NEW w \in Workers, LockTaken(w)
  PROVE  Leases!Grant(w, url[w])
<1> PICK k \in Urls : k = url[w]
  BY DEF IInv, TypeOK
<1>1. PICK t \in Fresh : /\ lock' = [lock EXCEPT ![k] = t]
                         /\ token' = [token EXCEPT ![w] = t]
  BY DEF LockTaken
<1>2. /\ k \in Urls /\ t # NoToken /\ lock[k] = NoToken /\ url' = url
      /\ token[w] = NoToken
      /\ lock \in [Urls -> Tokens \cup {NoToken}]
      /\ token \in [Workers -> Tokens \cup {NoToken}]
  BY StageGateAssumption DEF LockTaken, IInv, TypeOK, TokensInHand, Fresh
<1>3. OwnerOf(k) = Free /\ ClaimOf(w) = NoUrl
  BY <1>2 DEF OwnersTold, ClaimOf
<1>4. OwnerOf(k)' = w
  <2>1. lock'[k] = t /\ token'[w] = t /\ url'[w] = k
    BY <1>1, <1>2
  <2> QED BY <2>1, <1>2 DEF OwnersTold
<1>5. ASSUME NEW u \in Urls \ {k} PROVE OwnerOf(u)' = OwnerOf(u)
  <2>1. lock'[u] = lock[u]
    BY <1>1, <1>2
  <2>2. \A v \in Workers :
           (token[v] # NoToken /\ url[v] = u /\ token[v] = lock[u])
             <=> (token'[v] # NoToken /\ url'[v] = u /\ token'[v] = lock[u])
    BY <1>1, <1>2
  <2> QED BY <2>1, <2>2, OwnerStays
<1>6. ClaimOf(w)' = k
  BY <1>1, <1>2 DEF ClaimOf
<1>7. ASSUME NEW v \in Workers \ {w} PROVE ClaimOf(v)' = ClaimOf(v)
  BY <1>1, <1>2, ClaimStays
<1>8. [u \in Urls |-> OwnerOf(u)]' = [[u \in Urls |-> OwnerOf(u)] EXCEPT ![k] = w]
  BY <1>2, <1>4, <1>5, OneKeyChanges
<1>9. [v \in Workers |-> ClaimOf(v)]' = [[v \in Workers |-> ClaimOf(v)] EXCEPT ![w] = k]
  BY <1>6, <1>7, OneClaimChanges
<1>10. Leases!Grant(w, k)
  BY <1>2, <1>3, <1>8, <1>9 DEF Leases!Grant
<1> QED BY <1>10

LEMMA FailureIsUnheard ==
  ASSUME IInv, OwnersTold, OwnersTold', NEW w \in Workers, LockFails(w)
  PROVE  Leases!GrantUnheard(url[w]) \/ UNCHANGED Leases!leases
<1> PICK k \in Urls : k = url[w]
  BY DEF IInv, TypeOK
<1>1. k \in Urls /\ token' = token /\ url' = url
      /\ lock \in [Urls -> Tokens \cup {NoToken}]
  BY DEF LockFails, IInv, TypeOK
<1>2. CASE UNCHANGED lock
  BY <1>1, <1>2, NoLeaseStep
<1>3. ASSUME lock[k] = NoToken, NEW t \in Fresh, lock' = [lock EXCEPT ![k] = t]
      PROVE  Leases!GrantUnheard(k)
  <2>1. OwnerOf(k) = Free
    BY <1>1, <1>3 DEF OwnersTold
  <2>2. OwnerOf(k)' = Stray
    <3>1. lock'[k] = t /\ t # NoToken /\ \A v \in Workers : token'[v] # t
      BY <1>1, <1>3, StageGateAssumption DEF Fresh
    <3> QED BY <3>1, <1>1 DEF OwnersTold
  <2>3. ASSUME NEW u \in Urls \ {k} PROVE OwnerOf(u)' = OwnerOf(u)
    <3>1. lock'[u] = lock[u]
      BY <1>1, <1>3
    <3>2. \A v \in Workers :
           (token[v] # NoToken /\ url[v] = u /\ token[v] = lock[u])
             <=> (token'[v] # NoToken /\ url'[v] = u /\ token'[v] = lock[u])
      BY <1>1
    <3> QED BY <3>1, <3>2, OwnerStays
  <2>4. \A v \in Workers : ClaimOf(v)' = ClaimOf(v)
    BY <1>1, ClaimStays
  <2>5. [u \in Urls |-> OwnerOf(u)]' = [[u \in Urls |-> OwnerOf(u)] EXCEPT ![k] = Stray]
    BY <1>1, <2>2, <2>3, OneKeyChanges
  <2> QED BY <1>1, <2>1, <2>4, <2>5 DEF Leases!GrantUnheard
<1> QED BY <1>2, <1>3 DEF LockFails

LEMMA UnlockIsGiveUp ==
  ASSUME IInv, OwnersTold, OwnersTold', NEW w \in Workers, Unlock(w)
  PROVE  Leases!GiveUp(w)
<1> PICK k \in Urls : k = url[w]
  BY DEF IInv, TypeOK
<1>1. /\ token' = [token EXCEPT ![w] = NoToken] /\ url' = url /\ token[w] # NoToken
      /\ lock \in [Urls -> Tokens \cup {NoToken}]
      /\ token \in [Workers -> Tokens \cup {NoToken}]
      /\ lock' = [lock EXCEPT ![k] = IF lock[k] = token[w] THEN NoToken ELSE @]
           \/ lock' = lock
  BY DEF Unlock, Owned, IInv, TypeOK, TokensInHand
<1>2. OwnerOf(k) = w <=> lock[k] = token[w]
  BY <1>1 DEF OwnersTold
<1>3. ASSUME NEW u \in Urls, OwnerOf(u) # w PROVE OwnerOf(u)' = OwnerOf(u)
  <2>1. lock'[u] = lock[u]
    BY <1>1, <1>2, <1>3
  <2>2. \A v \in Workers :
           (token[v] # NoToken /\ url[v] = u /\ token[v] = lock[u])
             <=> (token'[v] # NoToken /\ url'[v] = u /\ token'[v] = lock[u])
    BY <1>1, <1>3 DEF OwnersTold
  <2> QED BY <2>1, <2>2, OwnerStays
<1>4. ASSUME NEW u \in Urls, OwnerOf(u) = w
      PROVE  u = k /\ OwnerOf(u)' = IF lock'[k] = NoToken THEN Free ELSE Stray
  <2>1. u = k /\ lock[k] = token[w]
    BY <1>2, <1>4 DEF OwnersTold
  <2>2. \A v \in Workers : token'[v] = NoToken \/ token'[v] # token[w]
    BY <1>1 DEF IInv, TokensInHand
  <2>3. lock'[k] = NoToken \/ lock'[k] = token[w]
    BY <1>1, <2>1
  <2> QED BY <2>1, <2>2, <2>3 DEF OwnersTold
<1>5. \E left \in {Free, Stray} : \A u \in Urls :
         OwnerOf(u)' = IF OwnerOf(u) = w THEN left ELSE OwnerOf(u)
  BY <1>3, <1>4
<1>6. ClaimOf(w) # NoUrl /\ ClaimOf(w)' = NoUrl
  BY <1>1, StageGateLeaseAssumption DEF ClaimOf
<1>7. ASSUME NEW v \in Workers \ {w} PROVE ClaimOf(v)' = ClaimOf(v)
  BY <1>1, ClaimStays
<1>8. [v \in Workers |-> ClaimOf(v)]' = [[v \in Workers |-> ClaimOf(v)] EXCEPT ![w] = NoUrl]
  BY <1>6, <1>7, OneClaimChanges
<1> QED BY <1>5, <1>6, <1>8 DEF Leases!GiveUp

LEMMA ExpireIsLapse ==
  ASSUME IInv, OwnersTold, OwnersTold', NEW k \in Urls, Expire(k)
  PROVE  Leases!Lapse(k)
<1>1. /\ lock[k] # NoToken /\ lock' = [lock EXCEPT ![k] = NoToken]
      /\ token' = token /\ url' = url /\ lock \in [Urls -> Tokens \cup {NoToken}]
  BY DEF Expire, IInv, TypeOK
<1>2. OwnerOf(k) # Free /\ OwnerOf(k)' = Free
  BY <1>1 DEF OwnersTold
<1>3. ASSUME NEW u \in Urls \ {k} PROVE OwnerOf(u)' = OwnerOf(u)
  <2>1. lock'[u] = lock[u]
    BY <1>1
  <2>2. \A v \in Workers :
           (token[v] # NoToken /\ url[v] = u /\ token[v] = lock[u])
             <=> (token'[v] # NoToken /\ url'[v] = u /\ token'[v] = lock[u])
    BY <1>1
  <2> QED BY <2>1, <2>2, OwnerStays
<1>4. \A v \in Workers : ClaimOf(v)' = ClaimOf(v)
  BY <1>1, ClaimStays
<1>5. [u \in Urls |-> OwnerOf(u)]' = [[u \in Urls |-> OwnerOf(u)] EXCEPT ![k] = Free]
  BY <1>2, <1>3, OneKeyChanges
<1> QED BY <1>2, <1>4, <1>5 DEF Leases!Lapse

LEMMA CrashIsDeath ==
  ASSUME IInv, OwnersTold, OwnersTold', NEW p \in Pods, Crash(p)
  PROVE  \E C \in SUBSET Workers : Leases!Die(C)
<1> PICK C \in SUBSET Workers : C = {w \in Workers : PodOf[w] = p}
  OBVIOUS
<1>1. /\ \A w \in Workers : token'[w] = IF w \in C THEN NoToken ELSE token[w]
      /\ url' = url /\ lock' = lock
  BY DEF Crash
<1>2. ASSUME NEW u \in Urls, OwnerOf(u) \notin C PROVE OwnerOf(u)' = OwnerOf(u)
  <2>1. \A v \in Workers :
           (token[v] # NoToken /\ url[v] = u /\ token[v] = lock[u])
             <=> (token'[v] # NoToken /\ url'[v] = u /\ token'[v] = lock[u])
    BY <1>1, <1>2 DEF OwnersTold
  <2> QED BY <1>1, <2>1, OwnerStays
<1>3. ASSUME NEW u \in Urls, OwnerOf(u) \in C PROVE OwnerOf(u)' = Stray
  <2> PICK w \in Workers : w \in C /\ OwnerOf(u) = w
    BY <1>3
  <2>1. token[w] = lock[u] /\ lock[u] # NoToken
    BY StageGateLeaseAssumption DEF OwnersTold
  <2>2. \A v \in Workers : token'[v] = NoToken \/ token'[v] # lock'[u]
    BY <1>1, <2>1 DEF IInv, TokensInHand
  <2> QED BY <1>1, <2>1, <2>2 DEF OwnersTold
<1>4. \A v \in Workers : ClaimOf(v)' = IF v \in C THEN NoUrl ELSE ClaimOf(v)
  BY <1>1 DEF ClaimOf
<1>5. \A u \in Urls : OwnerOf(u)' = IF OwnerOf(u) \in C THEN Stray ELSE OwnerOf(u)
  BY <1>2, <1>3
<1>6. Leases!Die(C)
  BY <1>4, <1>5 DEF Leases!Die
<1> QED BY <1>6

LEMMA NextIsLease ==
  IInv /\ OwnersTold /\ OwnersTold' /\ [Next]_vars => [Leases!Next]_(Leases!leases)
<1> SUFFICES ASSUME IInv, OwnersTold, OwnersTold', [Next]_vars
             PROVE  Leases!Next \/ UNCHANGED Leases!leases
  OBVIOUS
<1>1. CASE UNCHANGED vars
  BY <1>1, NoLeaseStep DEF vars
<1>2. ASSUME NEW w \in Workers, NEW u \in Urls, Enter(w, u)
      PROVE  UNCHANGED Leases!leases
  <2>1. UNCHANGED <<lock, token>>
    BY <1>2 DEF Enter
  <2>2. token[w] = NoToken
    BY <1>2 DEF Enter, IInv, TokensInHand
  <2>3. \A v \in Workers : v # w => url'[v] = url[v]
    BY <1>2 DEF Enter, IInv, TypeOK
  <2> QED BY <2>1, <2>2, <2>3, NoLeaseStep
<1>3. ASSUME NEW w \in Workers,
             \/ TakePermit(w) \/ CancelWait(w) \/ CountIn(w) \/ LockBusy(w)
             \/ FinishWork(w) \/ CountOut(w) \/ ReturnPermit(w) \/ FinishOpen(w)
      PROVE  UNCHANGED Leases!leases
  <2>1. UNCHANGED <<url, lock, token>>
    BY <1>3 DEF TakePermit, CancelWait, CountIn, LockBusy, FinishWork, CountOut,
                ReturnPermit, FinishOpen
  <2> QED BY <2>1, NoLeaseStep
<1>4. ASSUME NEW w \in Workers, LockTaken(w) PROVE Leases!Next
  <2>1. url[w] \in Urls
    BY DEF IInv, TypeOK
  <2> QED BY <1>4, <2>1, TakenIsGrant DEF Leases!Next
<1>5. ASSUME NEW w \in Workers, LockFails(w)
      PROVE  Leases!Next \/ UNCHANGED Leases!leases
  <2>1. url[w] \in Urls
    BY DEF IInv, TypeOK
  <2> QED BY <1>5, <2>1, FailureIsUnheard DEF Leases!Next
<1>6. ASSUME NEW w \in Workers, Unlock(w) PROVE Leases!Next
  BY <1>6, UnlockIsGiveUp DEF Leases!Next
<1>7. ASSUME NEW u \in Urls, Expire(u) PROVE Leases!Next
  BY <1>7, ExpireIsLapse DEF Leases!Next
<1>8. ASSUME NEW p \in Pods, Crash(p) PROVE Leases!Next
  BY <1>8, CrashIsDeath DEF Leases!Next
<1> QED BY <1>1, <1>2, <1>3, <1>4, <1>5, <1>6, <1>7, <1>8 DEF Next, Acquire, Release

(* The stage gate is a lease: a worker is granted a URL only while nobody  *)
(* is, its release takes away no lease but its own, and what a crash or a  *)
(* lost answer leaves behind can only lapse.                               *)
THEOREM GateIsLease == Spec => LeaseKept
<1>1. IInv /\ [Next]_vars => IInv'
  BY NextIInv
<1> QED BY <1>1, InitIInv, InitIsLease, NextIsLease, OwnersAreTold, OwnersStayTold, PTL
     DEF Spec, LeaseKept, Leases!Spec
=============================================================================
