---------------------------- MODULE EnrichFacts ----------------------------
(***************************************************************************)
(* The course of a page's enrichment: which of the four sessions the enrich *)
(* worker runs, one after another, for what the earlier ones have answered, *)
(* what of them the published message carries and which rows are written.   *)
(* Only the extraction is needed; every other failure leaves a part out.    *)
(***************************************************************************)
EXTENDS Naturals, FiniteSets

CONSTANT Enabled  \* sessions with a Claudegen implementation; the others are Noop

Sessions == {"extract", "verify", "context", "score"}

ASSUME EnrichFactsAssumption == Enabled \subseteq Sessions /\ "extract" \in Enabled

\* What a session comes back with: no answer, one that does not parse or lacks
\* a required field, one with nothing in it, one with some entity (or context,
\* verification, score), one with claims as well.
Replies == {"error", "garbled", "empty", "some", "claims"}

\* The replies of the sessions of one page.
Courses == [Sessions -> Replies]

Extracts(r) == r["extract"] \in {"empty", "some", "claims"}
HasClaims(r) == r["extract"] = "claims"
HasEntities(r) == r["extract"] \in {"some", "claims"}

\* A session that is not asked for, or is Noop, adds nothing.
Verifies(r) == Extracts(r) /\ HasClaims(r)
Verified(r) == Verifies(r) /\ "verify" \in Enabled /\ r["verify"] \in {"some", "claims"}

Contextualises(r) == Extracts(r) /\ HasEntities(r)
HasContext(r) == Contextualises(r) /\ "context" \in Enabled /\ r["context"] \in {"some", "claims"}

\* The scorer wants claims, verifications or a context; a score without
\* its rationale, or out of range, is none.
Scores(r) == HasClaims(r) \/ Verified(r) \/ HasContext(r)
Scored(r) == Scores(r) /\ "score" \in Enabled /\ r["score"] \in {"some", "claims"}

\* The sessions that are run.
Called(r) ==
  Enabled \cap ({"extract"} \cup (IF Verifies(r) THEN {"verify"} ELSE {})
                            \cup (IF Contextualises(r) THEN {"context"} ELSE {})
                            \cup (IF Scores(r) THEN {"score"} ELSE {}))

\* Only a scored page has a row in enriched_contents; any facts are published.
Published(r) ==
  IF Extracts(r)
  THEN {"extract"} \cup (IF Verified(r) THEN {"verify"} ELSE {})
                   \cup (IF HasContext(r) THEN {"context"} ELSE {})
                   \cup (IF Scored(r) THEN {"score"} ELSE {})
  ELSE {}
Persisted(r) == IF Scored(r) THEN Published(r) ELSE {}

-----------------------------------------------------------------------------
Order == [s \in Sessions |-> CASE s = "extract" -> 1 [] s = "verify" -> 2
                               [] s = "context" -> 3 [] s = "score" -> 4]

Answered(s, r) == s \in Published(r)

\* What may follow a session that has been answered, or has not: the sessions
\* run next, or "done".
NextIn(s, r) ==
  LET later == {t \in Called(r) : Order[t] > Order[s]} IN
  IF later = {} THEN {"done"} ELSE {t \in later : \A u \in later : Order[t] <= Order[u]}

Follow == [s \in Sessions |-> [ok \in BOOLEAN |->
  UNION {NextIn(s, r) : r \in {r \in Courses : s \in Called(r) /\ (Answered(s, r) <=> ok)}}]]
=============================================================================
