-------------------------- MODULE PublisherProofs --------------------------
(***************************************************************************)
(* Proofs that an article enters the pipeline once per life of its marker, *)
(* and that no marker is left without a cause, for any categories,         *)
(* articles and workers and any number of faults: with a scheduler that    *)
(* always seeds the same categories, and with one whose table is edited    *)
(* and whose goroutines are cancelled in the middle of a publication.      *)
(***************************************************************************)
EXTENDS Scheduler, TLAPS

(* An article that no failed call let through has entered or is in one     *)
(* batch, not both, and is marked.                                         *)
EnteredOrCarried ==
  \A u \in Articles \ loose :
    /\ entered[u] # 0 =>
         entered[u] = 1 /\ u \in marker /\ \A w \in Workers : u \notin batch[w]
    /\ \A w \in Workers : u \in batch[w] =>
         u \in marker /\ \A v \in Workers : u \in batch[v] => v = w

IdleIsEmpty == \A w \in Workers : wpc[w] = "idle" => page[w] = {}

IInv == TypeOK /\ IdleIsEmpty /\ EnteredOrCarried /\ MarkedForAReason

(* A publication leaves the counters in their bounds and what it publishes *)
(* counted.                                                                *)
LEMMA PagesCounted ==
  ASSUME TypeOK, NEW S
  PROVE  /\ WithPages(S) \in [Seeds -> 0..MaxPages]
         /\ \A s \in Seeds : pages[s] > 0 \/ s \in S => WithPages(S)[s] > 0
<1>1. pages \in [Seeds -> 0..MaxPages] /\ MaxPages \in Nat \ {0}
  BY PublisherAssumption DEF TypeOK
<1>2. ASSUME NEW s \in Seeds
      PROVE  /\ WithPages(S)[s] \in 0..MaxPages
             /\ pages[s] > 0 \/ s \in S => WithPages(S)[s] > 0
  BY <1>1 DEF WithPages
<1> QED BY <1>2 DEF WithPages

LEMMA EntriesCounted ==
  ASSUME TypeOK, NEW S
  PROVE  /\ WithEntered(S) \in [Articles -> 0..2]
         /\ \A u \in Articles : /\ u \notin S => WithEntered(S)[u] = entered[u]
                                /\ u \in S => WithEntered(S)[u] # 0
                                /\ u \in S /\ entered[u] = 0 => WithEntered(S)[u] = 1
<1>1. entered \in [Articles -> 0..2]
  BY DEF TypeOK
<1>2. ASSUME NEW u \in Articles
      PROVE  /\ WithEntered(S)[u] \in 0..2
             /\ u \notin S => WithEntered(S)[u] = entered[u]
             /\ u \in S => WithEntered(S)[u] # 0
             /\ u \in S /\ entered[u] = 0 => WithEntered(S)[u] = 1
  BY <1>1 DEF WithEntered
<1> QED BY <1>2 DEF WithEntered

LEMMA InitIInv == Init => IInv
<1> SUFFICES ASSUME Init PROVE IInv
  OBVIOUS
<1>1. TypeOK
  BY PublisherAssumption DEF Init, TypeOK
<1>2. IdleIsEmpty /\ EnteredOrCarried /\ MarkedForAReason
  BY DEF Init, IdleIsEmpty, EnteredOrCarried, MarkedForAReason
<1> QED BY <1>1, <1>2 DEF IInv

---------------------------------------------------------------------------
(* Types                                                                   *)

SeedStep(s) == \/ SeedAcquires(s) \/ SeedUnchecked(s) \/ SeedPublished(s)
               \/ SeedFails(s) \/ SeedReleases(s) \/ PageLost(s)

LEMMA TypeSeed ==
  ASSUME TypeOK, NEW s \in Seeds, SeedStep(s)
  PROVE  TypeOK'
<1>1. CASE SeedAcquires(s)
  BY <1>1 DEF TypeOK, SeedAcquires, SGoto, Urls, worker
<1>2. CASE SeedUnchecked(s)
  BY <1>2, PublisherAssumption DEF TypeOK, SeedUnchecked, SGoto, Fault, Urls, worker
<1>3. CASE SeedPublished(s)
  BY <1>3, PagesCounted DEF TypeOK, SeedPublished, SGoto, worker, ghost
<1>4. CASE SeedFails(s)
  BY <1>4, PagesCounted, PublisherAssumption DEF TypeOK, SeedFails, SGoto, Fault,
     worker, ghost
<1>5. CASE SeedReleases(s)
  BY <1>5, PublisherAssumption DEF TypeOK, SeedReleases, Undo, SGoto, Fault, Urls,
     worker
<1>6. CASE PageLost(s)
  BY <1>6, PublisherAssumption DEF TypeOK, PageLost, Fault, Urls, scheduler, worker
<1> QED BY <1>1, <1>2, <1>3, <1>4, <1>5, <1>6 DEF SeedStep

(* What a worker asks for, by itself or through a failed call. *)
Asks(w, u) == KnownSeen(w, u) \/ Acquired(w, u) \/ AlreadyMarked(w, u) \/ FailOpen(w, u)

LEMMA TypeAsk ==
  ASSUME TypeOK, NEW w \in Workers, NEW u \in Urls, Asks(w, u)
  PROVE  TypeOK'
<1>1. CASE KnownSeen(w, u)
  BY <1>1 DEF TypeOK, KnownSeen, Asked, scheduler, ghost
<1>2. CASE Acquired(w, u)
  BY <1>2 DEF TypeOK, Acquired, Asked, LetThrough, scheduler
<1>3. CASE AlreadyMarked(w, u)
  BY <1>3 DEF TypeOK, AlreadyMarked, Cacheable, Asked, scheduler, ghost
<1>4. CASE FailOpen(w, u)
  BY <1>4, PublisherAssumption DEF TypeOK, FailOpen, Fault, Asked, LetThrough, scheduler
<1> QED BY <1>1, <1>2, <1>3, <1>4 DEF Asks

PageStep(w) == \/ \E s \in Seeds : Parse(w, s) \/ ParseNothing(w, s)
               \/ Cancelled(w) \/ BatchPublished(w) \/ BatchFails(w) \/ Release(w)

LEMMA TypePage ==
  ASSUME TypeOK, NEW w \in Workers, PageStep(w)
  PROVE  TypeOK'
<1>1. ASSUME NEW s \in Seeds, Parse(w, s) \/ ParseNothing(w, s)
      PROVE  TypeOK'
  BY <1>1, PublisherAssumption DEF TypeOK, Parse, ParseNothing, WGoto, Urls,
     scheduler, ghost
<1>2. CASE Cancelled(w)
  BY <1>2, PublisherAssumption DEF TypeOK, Cancelled, Fault, Urls, scheduler
<1>3. CASE BatchPublished(w)
  <2>1. Lists \subseteq Urls
    BY PublisherAssumption DEF Urls
  <2> QED BY <1>3, <2>1, PagesCounted, EntriesCounted
          DEF TypeOK, BatchPublished, Onward, WGoto, scheduler
<1>4. CASE BatchFails(w)
  <2>1. PICK S \in SUBSET batch[w] :
          /\ pages' = WithPages(S) /\ entered' = WithEntered(S)
          /\ astray' = astray \cup (batch[w] \ S)
    BY <1>4 DEF BatchFails
  <2>2. pages' \in [Seeds -> 0..MaxPages] /\ entered' \in [Articles -> 0..2]
    BY <2>1, PagesCounted, EntriesCounted
  <2>3. astray' \subseteq Urls
    BY <2>1 DEF TypeOK
  <2>4. /\ batch' \in [Workers -> SUBSET Urls] /\ failed' \subseteq Workers
        /\ wpc' \in [Workers -> {"idle", "articles", "lists", "release"}]
    BY <1>4 DEF TypeOK, BatchFails, WGoto
  <2>5. faults' \in 0..MaxFaults
    BY <1>4, PublisherAssumption DEF TypeOK, BatchFails, Fault
  <2>6. UNCHANGED <<marker, seen, spc, guarded, page, todo, loose>>
    BY <1>4 DEF BatchFails, scheduler
  <2>7. /\ marker' \subseteq Urls /\ seen' \subseteq Articles
        /\ spc' \in [Seeds -> {"idle", "publish", "undo"}] /\ guarded' \subseteq Seeds
        /\ page' \in [Workers -> SUBSET Seeds] /\ todo' \in [Workers -> SUBSET Urls]
        /\ loose' \subseteq Articles
    BY <2>6 DEF TypeOK
  <2> QED BY <2>2, <2>3, <2>4, <2>5, <2>7 DEF TypeOK
<1>5. CASE Release(w)
  <2>1. marker' \subseteq Urls /\ faults' \in 0..MaxFaults /\ astray' \subseteq Urls
    BY <1>5, PublisherAssumption DEF TypeOK, Release, Fault, Urls
  <2>2. pages' \in [Seeds -> 0..MaxPages]
    <3>1. WithPages(page[w]) \in [Seeds -> 0..MaxPages]
      BY PagesCounted
    <3> QED BY <1>5, <3>1 DEF TypeOK, Release
  <2>3. /\ wpc' \in [Workers -> {"idle", "articles", "lists", "release"}]
        /\ page' \in [Workers -> SUBSET Seeds] /\ failed' \subseteq Workers
    BY <1>5 DEF TypeOK, Release, WGoto
  <2>4. UNCHANGED <<seen, spc, guarded, todo, batch, entered, loose>>
    BY <1>5 DEF Release, scheduler
  <2> QED BY <2>1, <2>2, <2>3, <2>4 DEF TypeOK
<1> QED BY <1>1, <1>2, <1>3, <1>4, <1>5 DEF PageStep

(* A death that records every marker a goroutine in the table held. *)
Death == \E held \in SUBSET Seeds : guarded \subseteq held /\ Dies(held)

LEMMA TypeRest ==
  ASSUME TypeOK, (\E u \in Urls : MarkerExpires(u) \/ SeenExpires(u)) \/ Death
  PROVE  TypeOK'
<1>1. ASSUME NEW u \in Urls, MarkerExpires(u)
      PROVE  TypeOK'
  BY <1>1 DEF TypeOK, MarkerExpires, scheduler, worker
<1>2. ASSUME NEW u \in Urls, SeenExpires(u)
      PROVE  TypeOK'
  BY <1>2 DEF TypeOK, SeenExpires, scheduler, worker, ghost
<1>3. CASE Death
  BY <1>3, PagesCounted, PublisherAssumption DEF TypeOK, Death, Dies, Fault, Urls
<1> QED BY <1>1, <1>2, <1>3

---------------------------------------------------------------------------
(* One entry per marker                                                    *)

(* A step that publishes nothing and asks for nothing, and takes no marker *)
(* of an article away.                                                     *)
LEMMA EntryQuiet ==
  ASSUME EnteredOrCarried, UNCHANGED <<batch, entered, loose>>,
         marker \cap Articles \subseteq marker'
  PROVE  EnteredOrCarried'
BY DEF EnteredOrCarried

LEMMA EntrySeed ==
  ASSUME TypeOK, EnteredOrCarried, NEW s \in Seeds, SeedStep(s)
  PROVE  EnteredOrCarried'
<1>1. s \notin Articles
  BY PublisherAssumption
<1>2. UNCHANGED <<batch, entered, loose>>
  BY DEF SeedStep, SeedAcquires, SeedUnchecked, SeedPublished, SeedFails, SeedReleases,
         PageLost, worker, ghost
<1>3. marker \cap Articles \subseteq marker'
  BY <1>1 DEF SeedStep, SeedAcquires, SeedUnchecked, SeedPublished, SeedFails,
     SeedReleases,
              Undo, PageLost
<1> QED BY <1>2, <1>3, EntryQuiet

LEMMA EntryAsk ==
  ASSUME TypeOK, EnteredOrCarried, NEW w \in Workers, NEW u \in Urls, Asks(w, u)
  PROVE  EnteredOrCarried'
<1>1. CASE KnownSeen(w, u) \/ AlreadyMarked(w, u)
  BY <1>1, EntryQuiet DEF KnownSeen, AlreadyMarked, ghost
<1>2. CASE Acquired(w, u)
  <2>1. /\ u \notin marker /\ marker' = marker \cup {u}
        /\ batch' = [batch EXCEPT ![w] = @ \cup {u}]
        /\ UNCHANGED <<entered, loose>>
    BY <1>2 DEF Acquired, Free, LetThrough
  <2> QED BY <2>1 DEF TypeOK, EnteredOrCarried
<1>3. CASE FailOpen(w, u)
  <2>1. /\ marker' \in {marker, marker \cup {u}}
        /\ batch' = [batch EXCEPT ![w] = @ \cup {u}]
        /\ loose' = loose \cup ({u} \cap Articles)
        /\ UNCHANGED entered
    BY <1>3 DEF FailOpen, LetThrough
  <2> QED BY <2>1 DEF TypeOK, EnteredOrCarried
<1> QED BY <1>1, <1>2, <1>3 DEF Asks

(* The articles of a batch, in no other batch and not entered before, have *)
(* entered now or not, and the batch is gone.                              *)
LEMMA EntryPublish ==
  ASSUME TypeOK, EnteredOrCarried, NEW w \in Workers, NEW S \in SUBSET batch[w],
         entered' = WithEntered(S), batch' = [batch EXCEPT ![w] = {}],
         UNCHANGED <<marker, loose>>
  PROVE  EnteredOrCarried'
<1> SUFFICES ASSUME NEW u \in Articles \ loose
             PROVE  /\ entered'[u] # 0 =>
                          /\ entered'[u] = 1 /\ u \in marker
                          /\ \A v \in Workers : u \notin batch'[v]
                    /\ \A x \in Workers : u \in batch'[x] =>
                         u \in marker /\ \A v \in Workers : u \in batch'[v] => v = x
  BY DEF EnteredOrCarried
<1>1. CASE u \in S
  BY <1>1, EntriesCounted DEF TypeOK, EnteredOrCarried
<1>2. CASE u \notin S
  BY <1>2, EntriesCounted DEF TypeOK, EnteredOrCarried
<1> QED BY <1>1, <1>2

LEMMA EntryPage ==
  ASSUME TypeOK, EnteredOrCarried, NEW w \in Workers, PageStep(w)
  PROVE  EnteredOrCarried'
<1>1. ASSUME NEW s \in Seeds, Parse(w, s) \/ ParseNothing(w, s)
      PROVE  EnteredOrCarried'
  BY <1>1, EntryQuiet DEF Parse, ParseNothing, ghost
<1>2. CASE Cancelled(w)
  BY <1>2 DEF Cancelled, TypeOK, EnteredOrCarried
<1>3. CASE BatchPublished(w)
  BY <1>3, EntryPublish DEF BatchPublished, Onward
<1>4. CASE BatchFails(w)
  BY <1>4, EntryPublish DEF BatchFails
<1>5. CASE Release(w)
  BY <1>5, EntryQuiet, PublisherAssumption DEF Release, TypeOK
<1> QED BY <1>1, <1>2, <1>3, <1>4, <1>5 DEF PageStep

LEMMA EntryRest ==
  ASSUME TypeOK, EnteredOrCarried,
         (\E u \in Urls : MarkerExpires(u) \/ SeenExpires(u)) \/ Death
  PROVE  EnteredOrCarried'
<1>1. ASSUME NEW u \in Urls, MarkerExpires(u)
      PROVE  EnteredOrCarried'
  BY <1>1 DEF MarkerExpires, TypeOK, EnteredOrCarried, worker
<1>2. ASSUME NEW u \in Urls, SeenExpires(u)
      PROVE  EnteredOrCarried'
  BY <1>2, EntryQuiet DEF SeenExpires, worker, ghost
<1>3. CASE Death
  BY <1>3 DEF Death, Dies, TypeOK, EnteredOrCarried
<1> QED BY <1>1, <1>2, <1>3

---------------------------------------------------------------------------
(* No marker without a cause                                               *)

Cause(u) == \/ \E w \in Workers : u \in batch[w]
            \/ u \in Articles /\ entered[u] > 0
            \/ u \in Seeds /\ UnderWay(u)

(* Marks that have a cause before a step, and new ones, have one after it. *)
CausesKept ==
  \A u \in marker' \ astray' : (u \in marker \ astray => Cause(u)) => Cause(u)'

LEMMA CausesSuffice == MarkedForAReason /\ CausesKept => MarkedForAReason'
BY DEF MarkedForAReason, Cause, CausesKept

LEMMA IdlePage ==
  ASSUME TypeOK, IdleIsEmpty,
         \/ \E s \in Seeds : SeedStep(s)
         \/ \E w \in Workers : PageStep(w) \/ \E u \in Urls : Asks(w, u)
         \/ (\E u \in Urls : MarkerExpires(u) \/ SeenExpires(u)) \/ Death
  PROVE  IdleIsEmpty'
<1>1. ASSUME NEW s \in Seeds, SeedStep(s)
      PROVE  IdleIsEmpty'
  BY <1>1 DEF SeedStep, SeedAcquires, SeedUnchecked, SeedPublished, SeedFails,
     SeedReleases,
              PageLost, worker, IdleIsEmpty
<1>2. ASSUME NEW w \in Workers, NEW u \in Urls, Asks(w, u)
      PROVE  IdleIsEmpty'
  BY <1>2 DEF Asks, KnownSeen, Acquired, AlreadyMarked, FailOpen, IdleIsEmpty
<1>3. ASSUME NEW w \in Workers, PageStep(w)
      PROVE  IdleIsEmpty'
  BY <1>3 DEF PageStep, Parse, ParseNothing, Cancelled, BatchPublished, BatchFails,
     Release,
              Onward, WGoto, TypeOK, IdleIsEmpty
<1>4. CASE (\E u \in Urls : MarkerExpires(u) \/ SeenExpires(u)) \/ Death
  BY <1>4 DEF MarkerExpires, SeenExpires, Death, Dies, worker, IdleIsEmpty
<1> QED BY <1>1, <1>2, <1>3, <1>4

LEMMA ReasonSeed ==
  ASSUME TypeOK, IdleIsEmpty, NEW s \in Seeds, SeedStep(s)
  PROVE  CausesKept
<1> SUFFICES ASSUME NEW u \in marker' \ astray', u \in marker \ astray => Cause(u)
             PROVE  Cause(u)'
  BY DEF CausesKept
<1>1. s \notin Articles /\ s \in Urls
  BY PublisherAssumption DEF Urls
<1>2. UNCHANGED <<batch, entered, page>>
  BY DEF SeedStep, SeedAcquires, SeedUnchecked, SeedPublished, SeedFails, SeedReleases,
         PageLost, worker, ghost
<1>3. CASE u = s /\ SeedAcquires(s)
  BY <1>3 DEF SeedAcquires, Cause, UnderWay
<1>4. CASE u = s /\ ~SeedAcquires(s)
  <2>1. u \in marker \ astray /\ (SeedReleases(s) => FALSE) /\ (PageLost(s) => FALSE)
    BY <1>4 DEF SeedStep, SeedUnchecked, SeedPublished, SeedFails, SeedReleases,
       Undo, PageLost, ghost
  <2>2. Cause(u)
    BY <2>1
  <2>3. CASE SeedPublished(s)
    BY <2>3, <1>4, PagesCounted DEF SeedPublished, Cause, UnderWay
  <2>4. CASE SeedUnchecked(s) \/ SeedFails(s)
    <3>1. guarded' = guarded /\ (pages[s] > 0 => pages'[s] > 0)
      BY <2>4, PagesCounted DEF SeedUnchecked, SeedFails
    <3> QED BY <3>1, <1>2, <1>4, <2>2 DEF Cause, UnderWay
  <2> QED BY <1>4, <2>1, <2>3, <2>4 DEF SeedStep
<1>5. CASE u # s
  <2>1. u \in marker \ astray
    BY <1>5 DEF SeedStep, SeedAcquires, SeedUnchecked, SeedPublished, SeedFails,
       SeedReleases,
                Undo, PageLost, ghost
  <2>2. Cause(u)
    BY <2>1
  <2>3. u \in guarded => u \in guarded'
    BY <1>5 DEF SeedStep, SeedAcquires, SeedUnchecked, SeedPublished, SeedFails,
       SeedReleases,
                PageLost, scheduler
  <2>4. u \in Seeds /\ pages[u] > 0 => pages'[u] > 0
    BY <1>5, PagesCounted DEF TypeOK, SeedStep, SeedAcquires, SeedUnchecked,
       SeedPublished,
                              SeedFails, SeedReleases, PageLost
  <2> QED BY <1>2, <2>2, <2>3, <2>4 DEF Cause, UnderWay
<1> QED BY <1>3, <1>4, <1>5

LEMMA ReasonAsk ==
  ASSUME TypeOK, IdleIsEmpty, NEW w \in Workers, NEW u \in Urls, Asks(w, u)
  PROVE  CausesKept
<1> SUFFICES ASSUME NEW x \in marker' \ astray', x \in marker \ astray => Cause(x)
             PROVE  Cause(x)'
  BY DEF CausesKept
<1>1. UNCHANGED <<entered, pages, guarded, page>>
  BY DEF Asks, KnownSeen, Acquired, AlreadyMarked, FailOpen, scheduler, ghost
<1>2. \A v \in Workers : batch[v] \subseteq batch'[v]
  BY DEF TypeOK, Asks, KnownSeen, Acquired, AlreadyMarked, FailOpen, LetThrough
<1>3. x \in batch'[w] \/ x \in marker \ astray
  BY DEF TypeOK, Asks, KnownSeen, Acquired, AlreadyMarked, FailOpen, LetThrough, ghost
<1>4. x \in marker \ astray => Cause(x)
  OBVIOUS
<1> QED BY <1>1, <1>2, <1>3, <1>4 DEF Cause, UnderWay

(* Of the marked URLs of a batch, S have been published; the others' fate  *)
(* is recorded.                                                            *)
LEMMA ReasonPublish ==
  ASSUME TypeOK, IdleIsEmpty, NEW w \in Workers, NEW S \in SUBSET batch[w],
         pages' = WithPages(S), entered' = WithEntered(S),
         batch' = [batch EXCEPT ![w] = {}],
         astray' = astray \cup (batch[w] \ S),
         UNCHANGED <<marker, guarded, page>>
  PROVE  CausesKept
<1> SUFFICES ASSUME NEW u \in marker' \ astray', u \in marker \ astray => Cause(u)
             PROVE  Cause(u)'
  BY DEF CausesKept
<1>1. Cause(u) /\ u \in Urls
  BY DEF TypeOK
<1>2. CASE u \in S
  <2>1. u \in Articles => entered'[u] > 0
    BY <1>2, EntriesCounted
  <2>2. u \in Seeds => pages'[u] > 0
    BY <1>2, PagesCounted
  <2> QED BY <1>1, <2>1, <2>2 DEF Cause, UnderWay, Urls
<1>3. CASE u \notin S
  <2>1. u \notin batch[w]
    BY <1>3
  <2>2. \A v \in Workers : u \in batch[v] => u \in batch'[v]
    BY <2>1 DEF TypeOK
  <2>3. u \in Articles => entered'[u] = entered[u]
    BY <1>3, EntriesCounted
  <2>4. u \in Seeds /\ pages[u] > 0 => pages'[u] > 0
    BY PagesCounted
  <2> QED BY <1>1, <2>2, <2>3, <2>4 DEF Cause, UnderWay
<1> QED BY <1>2, <1>3

LEMMA ReasonPage ==
  ASSUME TypeOK, IdleIsEmpty, NEW w \in Workers, PageStep(w)
  PROVE  CausesKept
<1>1. ASSUME NEW s \in Seeds, Parse(w, s) \/ ParseNothing(w, s)
      PROVE  CausesKept
  <2> SUFFICES ASSUME NEW u \in marker' \ astray', u \in marker \ astray => Cause(u)
             PROVE  Cause(u)'
    BY DEF CausesKept
  <2>1. UNCHANGED <<marker, astray, batch, entered, guarded>>
    BY <1>1 DEF Parse, ParseNothing, scheduler, ghost
  <2>2. Cause(u)
    BY <2>1
  <2>3. page' = [page EXCEPT ![w] = {s}] /\ page[w] = {}
    BY <1>1 DEF IdleIsEmpty, Parse, ParseNothing
  <2>4. u = s => u \in page'[w]
    BY <2>3 DEF TypeOK
  <2>5. u # s /\ u \in Seeds => pages'[u] = pages[u]
    BY <1>1 DEF TypeOK, Parse, ParseNothing
  <2>6. \A v \in Workers : u \in page[v] => u \in page'[v]
    BY <2>3 DEF TypeOK
  <2> QED BY <2>1, <2>2, <2>4, <2>5, <2>6 DEF Cause, UnderWay
<1>2. CASE Cancelled(w)
  <2>1. UNCHANGED <<marker, astray, pages, entered, guarded, page>>
    BY <1>2 DEF Cancelled, scheduler
  <2>2. \A v \in Workers : batch[v] \subseteq batch'[v]
    BY <1>2 DEF TypeOK, Cancelled
  <2> QED BY <2>1, <2>2 DEF CausesKept, Cause, UnderWay
<1>3. CASE BatchPublished(w)
  <2>1. astray' = astray \cup (batch[w] \ batch[w])
    BY <1>3 DEF BatchPublished
  <2> QED BY <1>3, <2>1, ReasonPublish DEF BatchPublished, Onward, scheduler
<1>4. CASE BatchFails(w)
  BY <1>4, ReasonPublish DEF BatchFails, scheduler
<1>5. CASE Release(w)
  <2> SUFFICES ASSUME NEW u \in marker' \ astray', u \in marker \ astray => Cause(u)
             PROVE  Cause(u)'
    BY DEF CausesKept
  <2>1. /\ u \in marker \ astray /\ u \notin page[w]
        /\ page' = [page EXCEPT ![w] = {}]
        /\ UNCHANGED <<batch, entered, guarded>>
    BY <1>5 DEF Release, scheduler
  <2>2. Cause(u)
    BY <2>1
  <2>3. u \in Seeds /\ pages[u] > 0 => pages'[u] > 0
    BY <1>5, PagesCounted DEF Release
  <2>4. \A v \in Workers : u \in page[v] => u \in page'[v]
    BY <2>1 DEF TypeOK
  <2> QED BY <2>1, <2>2, <2>3, <2>4 DEF Cause, UnderWay
<1> QED BY <1>1, <1>2, <1>3, <1>4, <1>5 DEF PageStep

LEMMA ReasonRest ==
  ASSUME TypeOK, IdleIsEmpty, (\E u \in Urls : MarkerExpires(u) \/ SeenExpires(u)) \/ Death
  PROVE  CausesKept
<1>1. ASSUME NEW u \in Urls, MarkerExpires(u)
      PROVE  CausesKept
  BY <1>1 DEF MarkerExpires, scheduler, worker, TypeOK, CausesKept, Cause, UnderWay
<1>2. ASSUME NEW u \in Urls, SeenExpires(u)
      PROVE  CausesKept
  BY <1>2 DEF SeenExpires, scheduler, worker, ghost, CausesKept, Cause, UnderWay
<1>3. CASE Death
  <2> SUFFICES ASSUME NEW u \in marker' \ astray', u \in marker \ astray => Cause(u)
             PROVE  Cause(u)'
    BY DEF CausesKept
  <2>1. /\ u \in marker \ astray /\ u \notin guarded
        /\ \A w \in Workers : u \notin batch[w]
        /\ pages' = WithPages(UNION {page[w] : w \in Workers}) /\ UNCHANGED entered
    BY <1>3 DEF Death, Dies
  <2>2. Cause(u)
    BY <2>1
  <2>3. u \in Seeds /\ (pages[u] > 0 \/ u \in UNION {page[w] : w \in Workers}) => pages'[u] > 0
    BY <2>1, PagesCounted
  <2> QED BY <2>1, <2>2, <2>3 DEF Cause, UnderWay
<1> QED BY <1>1, <1>2, <1>3

---------------------------------------------------------------------------
LEMMA NextIInv == IInv /\ [Next]_vars => IInv'
<1> SUFFICES ASSUME IInv, [Next]_vars PROVE IInv'
  OBVIOUS
<1>1. ASSUME NEW s \in Seeds, SeedStep(s)
      PROVE  TypeOK' /\ EnteredOrCarried' /\ MarkedForAReason'
  BY <1>1, TypeSeed, EntrySeed, ReasonSeed, CausesSuffice DEF IInv
<1>2. ASSUME NEW w \in Workers, NEW u \in Urls, Asks(w, u)
      PROVE  TypeOK' /\ EnteredOrCarried' /\ MarkedForAReason'
  BY <1>2, TypeAsk, EntryAsk, ReasonAsk, CausesSuffice DEF IInv
<1>3. ASSUME NEW w \in Workers, PageStep(w)
      PROVE  TypeOK' /\ EnteredOrCarried' /\ MarkedForAReason'
  BY <1>3, TypePage, EntryPage, ReasonPage, CausesSuffice DEF IInv
<1>4. ASSUME (\E u \in Urls : MarkerExpires(u) \/ SeenExpires(u)) \/ Death
      PROVE  TypeOK' /\ EnteredOrCarried' /\ MarkedForAReason'
  BY <1>4, TypeRest, EntryRest, ReasonRest, CausesSuffice DEF IInv
<1>5. CASE Next
  <2>1. Crash => Death
    BY DEF Crash, Death, IInv, TypeOK
  <2>2. \/ \E s \in Seeds : SeedStep(s)
        \/ \E w \in Workers, u \in Urls : Asks(w, u)
        \/ \E w \in Workers : PageStep(w)
        \/ (\E u \in Urls : MarkerExpires(u) \/ SeenExpires(u)) \/ Death
    BY <1>5, <2>1 DEF Next, Seeding, Chaining, SeedStep, Asks, PageStep
  <2>3. TypeOK' /\ EnteredOrCarried' /\ MarkedForAReason'
    BY <1>1, <1>2, <1>3, <1>4, <2>2
  <2>4. IdleIsEmpty'
    BY <2>2, IdlePage DEF IInv
  <2> QED BY <2>3, <2>4 DEF IInv
<1>6. CASE UNCHANGED vars
  BY <1>6 DEF vars, scheduler, worker, ghost, IInv, TypeOK, IdleIsEmpty,
     EnteredOrCarried,
              MarkedForAReason, UnderWay
<1> QED BY <1>5, <1>6

LEMMA IInvAlways == Spec => []IInv
BY InitIInv, NextIInv, PTL DEF Spec

(* An article enters the pipeline once at most per life of its marker,     *)
(* whatever workers, batches, redeliveries and deaths there are, unless a  *)
(* failed call of Redis let it through.                                    *)
THEOREM EntersOnce == Spec => []OneEntryPerMarker
<1>1. IInv => OneEntryPerMarker
  BY DEF IInv, TypeOK, EnteredOrCarried, OneEntryPerMarker
<1> QED BY <1>1, IInvAlways, PTL

(* Every marker stands for a URL in the pipeline or on its way into it, or *)
(* for a failed publication, job or release.                               *)
THEOREM MarkersHaveCause == Spec => [](TypeOK /\ MarkedForAReason)
<1>1. IInv => TypeOK /\ MarkedForAReason
  BY DEF IInv
<1> QED BY <1>1, IInvAlways, PTL

---------------------------------------------------------------------------
(* The scheduler's table: its own goroutines, and those it has cancelled   *)

GoneTypes ==
  /\ other \in [Seeds -> {"none", "cancelled", "last"}]
  /\ gspc \in [Seeds -> {"idle", "publish", "undo"}] /\ gguarded \subseteq Seeds

SchedulerIInv ==
  TypeOK /\ GoneTypes /\ IdleIsEmpty /\ EnteredOrCarried /\ CancelledLeaveNoMarker

(* A mark's cause, or the cancelled goroutine that holds it. *)
GoneCause(u) == Cause(u) \/ u \in gguarded

LEMMA GoneCauseOfMark ==
  GoneTypes => (CancelledLeaveNoMarker <=> \A u \in marker \ astray : GoneCause(u))
BY DEF GoneTypes, CancelledLeaveNoMarker, GoneCause, Cause

LEMMA GoneCauseOfMarkNext ==
  ASSUME GoneTypes', \A u \in marker' \ astray' : GoneCause(u)'
  PROVE  CancelledLeaveNoMarker'
BY DEF GoneTypes, CancelledLeaveNoMarker, GoneCause, Cause

LEMMA SchedulerInitIInv == SchedulerInit => SchedulerIInv
<1> SUFFICES ASSUME SchedulerInit PROVE SchedulerIInv
  OBVIOUS
<1>1. TypeOK /\ IdleIsEmpty /\ EnteredOrCarried /\ marker = {}
  BY InitIInv DEF SchedulerInit, IInv, Init
<1>2. GoneTypes /\ CancelledLeaveNoMarker
  BY <1>1 DEF SchedulerInit, GoneTypes, CancelledLeaveNoMarker
<1> QED BY <1>1, <1>2 DEF SchedulerIInv

(* A step of the publisher that leaves the cancelled goroutines alone. *)
PublisherStep ==
  \/ \E s \in Seeds : SeedStep(s)
  \/ \E w \in Workers : PageStep(w) \/ \E u \in Urls : Asks(w, u)
  \/ \E u \in Urls : MarkerExpires(u) \/ SeenExpires(u)

LEMMA PublisherStepIInv ==
  ASSUME SchedulerIInv, PublisherStep, UNCHANGED cancelled
  PROVE  SchedulerIInv'
<1>1. TypeOK' /\ EnteredOrCarried' /\ IdleIsEmpty'
  BY TypeSeed, TypeAsk, TypePage, TypeRest, EntrySeed, EntryAsk, EntryPage,
     EntryRest, IdlePage
     DEF SchedulerIInv, PublisherStep
<1>2. CausesKept
  BY ReasonSeed, ReasonAsk, ReasonPage, ReasonRest DEF SchedulerIInv, PublisherStep
<1>3. GoneTypes' /\ gguarded' = gguarded
  BY DEF SchedulerIInv, GoneTypes, cancelled
<1>4. \A u \in marker' \ astray' : GoneCause(u)'
  BY <1>2, <1>3, GoneCauseOfMark DEF SchedulerIInv, CausesKept, GoneCause
<1>5. CancelledLeaveNoMarker'
  BY <1>3, <1>4, GoneCauseOfMarkNext
<1> QED BY <1>1, <1>3, <1>5 DEF SchedulerIInv

(* A cancelled goroutine goes on as one in the table would, with a place   *)
(* and a marker of its own.                                                *)
LEMMA GoneStepIInv ==
  ASSUME SchedulerIInv, NEW s \in Seeds, GoneEmits(s) \/ GoneFails(s)
  PROVE  SchedulerIInv'
<1>0. s \notin Articles /\ s \in Urls
  BY PublisherAssumption DEF Urls
<1>1. /\ UNCHANGED <<seen, spc, guarded, worker, entered, loose, other>>
      /\ pages' \in {pages, WithPages({s})}
      /\ gspc' \in {[gspc EXCEPT ![s] = "idle"], [gspc EXCEPT ![s] = "undo"]}
      /\ faults' \in 0..MaxFaults
  BY PublisherAssumption
     DEF SchedulerIInv, TypeOK, GoneEmits, GoneFails, Gone!SeedPublished,
        Gone!SeedReleases,
         Gone!SeedFails, Gone!WithPages, WithPages, Gone!SGoto, Gone!Fault, Gone!worker,
         Gone!ghost, worker
<1>2. \/ UNCHANGED <<marker, astray, gguarded>>
      \/ /\ UNCHANGED <<marker, astray>>
         /\ gguarded' = gguarded \ {s} /\ pages' = WithPages({s})
      \/ marker' = marker \ {s} /\ UNCHANGED <<astray, pages>> /\ gguarded' = gguarded \ {s}
      \/ /\ astray' = astray \cup {s} /\ UNCHANGED <<marker, pages>>
         /\ gguarded' = gguarded \ {s}
  <2>1. CASE Gone!SeedPublished(s)
    BY <2>1 DEF Gone!SeedPublished, Gone!WithPages, WithPages, Gone!ghost
  <2>2. CASE Gone!SeedFails(s)
    BY <2>2 DEF Gone!SeedFails, Gone!ghost
  <2>3. CASE Gone!SeedReleases(s)
    BY <2>3 DEF Gone!SeedReleases, Gone!Undo
  <2> QED BY <2>1, <2>2, <2>3 DEF GoneEmits, GoneFails
<1>3. /\ WithPages({s}) \in [Seeds -> 0..MaxPages]
      /\ \A x \in Seeds : pages[x] > 0 \/ x \in {s} => WithPages({s})[x] > 0
  BY PagesCounted DEF SchedulerIInv
<1>4. TypeOK'
  <2>1. pages' \in [Seeds -> 0..MaxPages]
    BY <1>1, <1>3 DEF SchedulerIInv, TypeOK
  <2>2. marker' \subseteq Urls /\ astray' \subseteq Urls
    BY <1>0, <1>2 DEF SchedulerIInv, TypeOK
  <2> QED BY <1>1, <2>1, <2>2 DEF SchedulerIInv, TypeOK, worker
<1>5. EnteredOrCarried' /\ IdleIsEmpty'
  <2>1. marker \cap Articles \subseteq marker'
    BY <1>0, <1>2
  <2> QED BY <1>1, <2>1, EntryQuiet DEF SchedulerIInv, IdleIsEmpty, worker
<1>6. GoneTypes'
  BY <1>1, <1>2 DEF SchedulerIInv, GoneTypes
<1>7. \A u \in marker' \ astray' : GoneCause(u)'
  <2> SUFFICES ASSUME NEW u \in marker' \ astray' PROVE GoneCause(u)'
    OBVIOUS
  <2>1. u \in marker \ astray
    BY <1>2
  <2>2. GoneCause(u)
    BY <2>1, GoneCauseOfMark DEF SchedulerIInv
  <2>3. u \in Seeds /\ pages[u] > 0 => pages'[u] > 0
    BY <1>1, <1>3
  <2>4. u \in gguarded => u \in gguarded' \/ (u \in Seeds /\ pages'[u] > 0)
    BY <1>2, <1>3
  <2> QED BY <1>1, <2>2, <2>3, <2>4 DEF GoneCause, Cause, UnderWay, worker
<1>8. CancelledLeaveNoMarker'
  BY <1>6, <1>7, GoneCauseOfMarkNext
<1> QED BY <1>4, <1>5, <1>6, <1>8 DEF SchedulerIInv

(* A refresh hands what the goroutines it replaces hold to the cancelled ones. *)
LEMMA RefreshIInv ==
  ASSUME SchedulerIInv, Refresh
  PROVE  SchedulerIInv'
<1>1. UNCHANGED <<marker, seen, pages, worker, faults, ghost>>
  BY DEF Refresh
<1>2. PICK out \in SUBSET Seeds :
        /\ other' = [s \in Seeds |-> IF s \in out THEN "cancelled" ELSE other[s]]
        /\ gspc' = [s \in Seeds |-> IF s \in out THEN spc[s] ELSE gspc[s]]
        /\ gguarded' = gguarded \cup (guarded \cap out)
        /\ spc' = [s \in Seeds |-> IF s \in out THEN "idle" ELSE spc[s]]
        /\ guarded' = guarded \ out
  <2>1. PICK desired \in read :
          LET out == {s \in Seeds : running[s] # {} /\ ~Same(running[s], desired[s])} IN
          /\ other' = [s \in Seeds |-> IF s \in out THEN "cancelled" ELSE other[s]]
          /\ gspc' = [s \in Seeds |-> IF s \in out THEN spc[s] ELSE gspc[s]]
          /\ gguarded' = gguarded \cup (guarded \cap out)
          /\ spc' = [s \in Seeds |-> IF s \in out THEN "idle" ELSE spc[s]]
          /\ guarded' = guarded \ out
    BY DEF Refresh
  <2> DEFINE out == {s \in Seeds : running[s] # {} /\ ~Same(running[s], desired[s])}
  <2>2. out \in SUBSET Seeds
    OBVIOUS
  <2> QED BY <2>1, <2>2
<1>3. TypeOK' /\ GoneTypes'
  BY <1>1, <1>2 DEF SchedulerIInv, TypeOK, GoneTypes, worker, ghost
<1>4. EnteredOrCarried' /\ IdleIsEmpty'
  BY <1>1 DEF SchedulerIInv, EnteredOrCarried, IdleIsEmpty, worker, ghost
<1>5. \A u \in marker' \ astray' : GoneCause(u)'
  BY <1>1, <1>2, GoneCauseOfMark DEF SchedulerIInv, GoneCause, Cause, UnderWay,
     worker, ghost
<1> QED BY <1>3, <1>4, <1>5, GoneCauseOfMarkNext DEF SchedulerIInv

LEMMA RestartIInv ==
  ASSUME SchedulerIInv, Restart
  PROVE  SchedulerIInv'
<1>1. Death
  BY DEF Restart, Death, SchedulerIInv, TypeOK, GoneTypes
<1>2. TypeOK' /\ EnteredOrCarried' /\ IdleIsEmpty'
  BY <1>1, TypeRest, EntryRest, IdlePage DEF SchedulerIInv
<1>3. GoneTypes'
  BY DEF Restart, GoneTypes
<1>4. ASSUME NEW u \in marker' \ astray'
      PROVE  GoneCause(u)'
  <2>1. CausesKept
    BY <1>1, ReasonRest DEF SchedulerIInv
  <2>2. u \notin gguarded /\ u \in marker \ astray
    BY DEF Restart, Dies
  <2>3. Cause(u)
    BY <2>2, GoneCauseOfMark DEF SchedulerIInv, GoneCause
  <2> QED BY <2>1, <2>3 DEF CausesKept, GoneCause
<1> QED BY <1>2, <1>3, <1>4, GoneCauseOfMarkNext DEF SchedulerIInv

(* The rest changes the table, a count of faults or a goroutine's place. *)
LEMMA TableIInv ==
  ASSUME SchedulerIInv,
         \/ \E s \in Seeds : Edit(s) \/ GoneTicks(s) \/ GoneReturns(s)
         \/ Resolve \/ ResolveFails \/ UNCHANGED allvars
  PROVE  SchedulerIInv'
<1>1. UNCHANGED <<marker, seen, scheduler, pages, worker, ghost, gguarded>>
  BY DEF Edit, GoneTicks, GoneReturns, Resolve, ResolveFails, allvars, vars, cancelled
<1>2. faults' \in 0..MaxFaults
  BY PublisherAssumption DEF Edit, GoneTicks, GoneReturns, Resolve, ResolveFails, Fault,
                             allvars, vars, SchedulerIInv, TypeOK
<1>3. GoneTypes'
  BY DEF Edit, GoneTicks, GoneReturns, Resolve, ResolveFails, allvars, cancelled,
         SchedulerIInv, GoneTypes
<1>4. TypeOK' /\ EnteredOrCarried' /\ IdleIsEmpty'
  BY <1>1, <1>2
     DEF SchedulerIInv, TypeOK, EnteredOrCarried, IdleIsEmpty, scheduler, worker, ghost
<1>5. \A u \in marker' \ astray' : GoneCause(u)'
  BY <1>1, GoneCauseOfMark
     DEF SchedulerIInv, GoneCause, Cause, UnderWay, scheduler, worker, ghost
<1> QED BY <1>3, <1>4, <1>5, GoneCauseOfMarkNext DEF SchedulerIInv

LEMMA SchedulerNextIInv == SchedulerIInv /\ [SchedulerNext]_allvars => SchedulerIInv'
<1> SUFFICES ASSUME SchedulerIInv, [SchedulerNext]_allvars PROVE SchedulerIInv'
  OBVIOUS
<1>1. ASSUME NEW s \in Seeds, Emits(s) \/ Stumbles(s)
      PROVE  SchedulerIInv'
  BY <1>1, PublisherStepIInv DEF Emits, Stumbles, Seeding, SeedStep, PublisherStep
<1>2. CASE Pipeline
  <2>1. UNCHANGED cancelled /\ PublisherStep
    BY <1>2 DEF Pipeline, Chaining, PublisherStep, SeedStep, PageStep, Asks
  <2> QED BY <2>1, PublisherStepIInv
<1> QED
  BY <1>1, <1>2, GoneStepIInv, RefreshIInv, RestartIInv, TableIInv DEF SchedulerNext

LEMMA SchedulerIInvAlways == SchedulerSpec => []SchedulerIInv
BY SchedulerInitIInv, SchedulerNextIInv, PTL DEF SchedulerSpec

(* Scheduler.refresh and stop: whatever edits, refreshes and restarts      *)
(* cancel a goroutine between the marker and the publish, its marker is    *)
(* published, undone or recorded as astray, and keeps nobody out without   *)
(* a cause.                                                                *)
THEOREM CancelledMarkersHaveCause == SchedulerSpec => []CancelledLeaveNoMarker
<1>1. SchedulerIInv => CancelledLeaveNoMarker
  BY DEF SchedulerIInv
<1> QED BY <1>1, SchedulerIInvAlways, PTL

(* One entry per life of a marker, with cancelled goroutines beside those  *)
(* of the table.                                                           *)
THEOREM EntersOnceWhileEdited == SchedulerSpec => []OneEntryPerMarker
<1>1. SchedulerIInv => OneEntryPerMarker
  BY DEF SchedulerIInv, TypeOK, EnteredOrCarried, OneEntryPerMarker
<1> QED BY <1>1, SchedulerIInvAlways, PTL
=============================================================================
