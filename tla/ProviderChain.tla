--------------------------- MODULE ProviderChain ---------------------------
(***************************************************************************)
(* One call of the LLM through pkg/llm: the policy orders the configured   *)
(* providers, the chain asks one after the other, and each provider is     *)
(* wrapped in retries of its own.  A request is abstracted to how it ends, *)
(* and Answers is every end that the caller of the chain may see.          *)
(***************************************************************************)
EXTENDS Naturals, Sequences, FiniteSets, SequencesExt

CONSTANTS Providers,       \* the providers with a key, in the order of fallbackOrder
          Policy,          \* LLM_POLICY: "fixed", "cheapest", "latency" or "hybrid"
          Cost,            \* what Capabilities says a provider costs
          RateAttempts,    \* RetryPolicy.MaxAttempts for rate limits
          NetworkAttempts  \* and for whatever else is retryable

ASSUME ProviderChainAssumption ==
  /\ IsInjective(Providers)
  /\ Policy \in {"fixed", "cheapest", "latency", "hybrid"}
  /\ Cost \in [ToSet(Providers) -> Nat]
  /\ {RateAttempts, NetworkAttempts} \subseteq Nat \ {0}

\* How a POST ends before its reply is there: the caller's context or the client's
\* own timeout has ended it, it has not got through, the body broke off.
Transport == {"canceled", "timed out", "unreachable", "broken off"}
\* The statuses that mapHTTPError tells apart, and what a provider makes of a 200;
\* a request that cannot be built is a 4xx, too.
Statuses == {"401", "429", "5xx", "400 too long", "4xx", "3xx", "garbled", "answered"}
Replies == Transport \cup Statuses

Code(reply) ==
  CASE reply = "answered" -> "ok"
    [] reply \in Transport -> "network"
    [] reply = "401" -> "auth"
    [] reply = "429" -> "rate_limit"
    [] reply = "5xx" -> "server"
    [] reply = "400 too long" -> "context_limit"
    [] reply = "4xx" -> "bad_request"
    [] OTHER -> "unknown"

\* The client's timeout is a context.DeadlineExceeded, too: it is not retried.
Retryable(reply) ==
  Code(reply) \in {"rate_limit", "server", "network"} /\ reply \notin {"canceled", "timed out"}

-----------------------------------------------------------------------------
(* RetryProvider.Generate. *)

RateLimited(s) == Cardinality({k \in DOMAIN s : Code(s[k]) = "rate_limit"})
OtherErrors(s) == Len(s) - RateLimited(s)

\* Each policy counts its own errors; after these replies it waits and asks again.
AsksAgain(s) ==
  /\ \A k \in DOMAIN s : Retryable(s[k])
  /\ RateLimited(s) < RateAttempts /\ OtherErrors(s) < NetworkAttempts

\* The sequences of replies that a call of one provider may get.
Tries ==
  LET asked == {s \in SeqOf(Replies, RateAttempts + NetworkAttempts - 2) : AsksAgain(s)}
  IN  {t \in {Append(s, reply) : s \in asked, reply \in Replies} : ~AsksAgain(t)}

\* The reply that is passed on: the last one.  The context may end the wait, too.
Outcomes == {Last(t) : t \in Tries} \cup {"canceled"}

-----------------------------------------------------------------------------
(* Policy.Select and the chain. *)

\* The cheapest first, where they cost the same in the order they come.
Cheapest(s) ==
  LET n == Len(s) earlier(a, b) == \/ Cost[s[a]] < Cost[s[b]]
                                   \/ Cost[s[a]] = Cost[s[b]] /\ a < b
  IN CHOOSE o \in SetToSeqs(ToSet(s)) : \A k, l \in 1..n :
       k < l => \E a, b \in 1..n : o[k] = s[a] /\ o[l] = s[b] /\ earlier(a, b)

\* Latencies and failure rates are measured: any order may come of them.
Orders == CASE Policy = "fixed" -> {Providers}
            [] Policy = "cheapest" -> {Cheapest(Providers)}
            [] OTHER -> SetToSeqs(ToSet(Providers))

ShouldDelegate(outcome) == Code(outcome) # "bad_request"

\* An answer, a fault of the request and the end of the context end the call.
Delegated(outcome) == outcome \notin {"answered", "canceled"} /\ ShouldDelegate(outcome)

\* Which of a call's outcomes the chain returns: the first one that is not
\* delegated, or the last.
Returned(outcomes) ==
  LET kept == {k \in DOMAIN outcomes : ~Delegated(outcomes[k])}
  IN  outcomes[Min(kept \cup {Len(outcomes)})]

\* The codes that the caller may get: the providers fail on their own, whatever
\* the order; without a provider it is a bad request.
Answers ==
  IF Providers = <<>> THEN {"bad_request"}
  ELSE {Code(Returned([k \in DOMAIN order |-> of[order[k]]])) :
          order \in Orders, of \in [ToSet(Providers) -> Outcomes]}
=============================================================================
