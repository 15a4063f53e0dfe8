---------------------------- MODULE SourceLimits ----------------------------
(***************************************************************************)
(* The rate limit before a request of one source                           *)
(* (internal/processor/fetcher/rate_limiter, called by Get and Post of     *)
(* core/http_client.go).  A call resolves its host's address and the       *)
(* host's requests per hour and waits at the limiter of the address, which *)
(* the first call for that address has made with the rate it had found.    *)
(* Every look-up fails open.  Calls of one host share one query, that of   *)
(* the first of them, under that one's context.                            *)
(***************************************************************************)
EXTENDS Naturals, FiniteSets

CONSTANTS Sites,     \* hosts of the source
          Addresses,
          AddressOf, \* the first address of a host
          Callers,   \* goroutines that fetch
          Burst,     \* defaultRateLimitBurst
          MaxUpsets  \* bound: failed look-ups, and edits of a rule

ASSUME SourceLimitsAssumption ==
  /\ AddressOf \in [Sites -> Addresses]
  /\ Burst \in Nat \ {0} /\ MaxUpsets \in Nat

VARIABLES limited,   \* sites whose row has a positive requests_per_hour
          config,    \* SourceConfigResolver's cache of a site: {}, or {whether limited}
          call,      \* each caller: its site and its place in Wait
          made,      \* addresses that have a limiter
          unlimited, \* those of them whose limiter lets everything through
          tokens,    \* what the others have
          inUse,     \* addresses whose limiter was used within the hour
          upsets,
          doubted,   \* callers whose rate comes from a query that failed
          opened,    \* addresses whose limiter such a caller has made
          everFree   \* sites whose row has been without a limit

limits == <<made, unlimited, tokens, inUse>>
why == <<doubted, opened, everFree>>
limitVars == <<limited, config, call, limits, upsets, why>>

NoSite == "none"
CallSteps == {"idle", "resolve", "config", "query", "follow", "limiter", "wait"}
NoCall == [step |-> "idle", site |-> NoSite, rate |-> FALSE]

LimitsTypeOK ==
  /\ limited \subseteq Sites
  /\ config \in [Sites -> SUBSET BOOLEAN]
  /\ call \in [Callers -> [step : CallSteps, site : Sites \cup {NoSite}, rate : BOOLEAN]]
  /\ unlimited \subseteq made /\ made \subseteq Addresses
  /\ tokens \in [Addresses -> 0..Burst] /\ inUse \subseteq made
  /\ upsets \in 0..MaxUpsets
  /\ doubted \subseteq Callers /\ opened \subseteq Addresses /\ everFree \subseteq Sites

(* AnalyzeSources starts a source only when its rows agree. *)
LimitsInit ==
  /\ limited \in {{}, Sites}
  /\ config = [s \in Sites |-> {}]
  /\ call = [c \in Callers |-> NoCall]
  /\ made = {} /\ unlimited = {} /\ inUse = {}
  /\ tokens = [a \in Addresses |-> 0]
  /\ upsets = 0
  /\ doubted = {} /\ opened = {} /\ everFree = Sites \ limited

Upset == upsets < MaxUpsets /\ upsets' = upsets + 1

CallAt(c, step) == call[c].step = step
Site(c) == call[c].site
Address(c) == AddressOf[Site(c)]
Moves(c, step) == call' = [call EXCEPT ![c].step = step]
Ends(c) == call' = [call EXCEPT ![c] = NoCall] /\ doubted' = doubted \ {c}

---------------------------------------------------------------------------
(* Wait                                                                    *)

Get(c, s) ==
  /\ CallAt(c, "idle")
  /\ call' = [call EXCEPT ![c] = [NoCall EXCEPT !.step = "resolve", !.site = s]]
  /\ UNCHANGED <<limited, config, limits, upsets, why>>

(* From the DNS cache or from the network. *)
Resolved(c) ==
  /\ CallAt(c, "resolve")
  /\ Moves(c, "config")
  /\ UNCHANGED <<limited, config, limits, upsets, why>>

(* The request goes out without a limit, or the caller's context has ended. *)
Unresolved(c) ==
  /\ CallAt(c, "resolve")
  /\ Upset
  /\ Ends(c)
  /\ UNCHANGED <<limited, config, limits, opened, everFree>>

Cached(c) ==
  /\ CallAt(c, "config")
  /\ \E rate \in config[Site(c)] :
       call' = [call EXCEPT ![c].step = "limiter", ![c].rate = rate]
  /\ UNCHANGED <<limited, config, limits, upsets, why>>

(* singleflight, with the host as its key: the first call asks, the others *)
(* of the host wait for its answer.                                        *)
AnyFlight(c, s) == TRUE
Flight(c, s) == Site(c) = s

Querying(s) == \E c \in Callers : CallAt(c, "query") /\ Flight(c, s)

Missed(c) ==
  /\ CallAt(c, "config") /\ config[Site(c)] = {}
  /\ Moves(c, IF Querying(Site(c)) THEN "follow" ELSE "query")
  /\ UNCHANGED <<limited, config, limits, upsets, why>>

Sharing(c) == {c} \cup {d \in Callers : CallAt(d, "follow") /\ Flight(c, Site(d))}

Answered(c, rate) ==
  call' = [d \in Callers |-> IF d \in Sharing(c)
                               THEN [call[d] EXCEPT !.step = "limiter", !.rate = rate]
                               ELSE call[d]]

(* A row that is not there is one without a limit. *)
RowRead(c) ==
  /\ CallAt(c, "query")
  /\ LET rate == Site(c) \in limited
     IN Answered(c, rate) /\ config' = [config EXCEPT ![Site(c)] = {rate}]
  /\ UNCHANGED <<limited, limits, upsets, why>>

(* The database fails, or the context of the call that asked has ended: no *)
(* limit for all that wait, and nothing is cached, as the comment in the   *)
(* branch says and the doc comment of Resolve does not.                    *)
QueryFails(c) ==
  /\ CallAt(c, "query")
  /\ Upset
  /\ Answered(c, FALSE)
  /\ doubted' = doubted \cup Sharing(c)
  /\ UNCHANGED <<limited, config, limits, opened, everFree>>

(* getOrCreate; only a new limiter has the registry look for unused ones. *)
GetLimiter(c) ==
  /\ CallAt(c, "limiter")
  /\ inUse' = inUse \cup {Address(c)}
  /\ IF Address(c) \in made
       THEN UNCHANGED <<made, unlimited, tokens, opened>>
       ELSE /\ made' = inUse'
            /\ unlimited' = (unlimited \cap inUse)
                              \cup (IF call[c].rate THEN {} ELSE {Address(c)})
            /\ tokens' = [a \in Addresses |->
                            IF a = Address(c) /\ call[c].rate THEN Burst
                            ELSE IF a \in inUse THEN tokens[a] ELSE 0]
            /\ opened' = (opened \cap inUse)
                            \cup (IF c \in doubted THEN {Address(c)} ELSE {})
  /\ Moves(c, "wait")
  /\ UNCHANGED <<limited, config, upsets, doubted, everFree>>

TakeToken(c) ==
  /\ CallAt(c, "wait") /\ tokens[Address(c)] > 0
  /\ tokens' = [tokens EXCEPT ![Address(c)] = @ - 1]
  /\ Ends(c)
  /\ UNCHANGED <<limited, config, made, unlimited, inUse, upsets, opened, everFree>>

NoLimit(c) ==
  /\ CallAt(c, "wait") /\ Address(c) \in unlimited
  /\ Ends(c)
  /\ UNCHANGED <<limited, config, limits, upsets, opened, everFree>>

(* The wait takes as long as the request may: Get returns an error. *)
WaitEnds(c) ==
  /\ CallAt(c, "wait") /\ Address(c) \notin unlimited /\ tokens[Address(c)] = 0
  /\ Ends(c)
  /\ UNCHANGED <<limited, config, limits, upsets, opened, everFree>>

---------------------------------------------------------------------------
(* Time and the operator                                                   *)

Refill(a) ==
  /\ a \in made \ unlimited /\ tokens[a] < Burst
  /\ tokens' = [tokens EXCEPT ![a] = @ + 1]
  /\ UNCHANGED <<limited, config, call, made, unlimited, inUse, upsets, why>>

(* An hour without a call: no wait takes as long. *)
Unused(a) ==
  /\ a \in inUse /\ \A c \in Callers : CallAt(c, "wait") => Address(c) # a
  /\ inUse' = inUse \ {a}
  /\ UNCHANGED <<limited, config, call, made, unlimited, tokens, upsets, why>>

CacheEnds(s) ==
  /\ config[s] # {} /\ config' = [config EXCEPT ![s] = {}]
  /\ UNCHANGED <<limited, call, limits, upsets, why>>

(* requests_per_hour of one host's row, from or to 0. *)
EditRate(s) ==
  /\ Upset
  /\ limited' = IF s \in limited THEN limited \ {s} ELSE limited \cup {s}
  /\ everFree' = everFree \cup (Sites \ limited')
  /\ UNCHANGED <<config, call, limits, doubted, opened>>

LimitsNext ==
  \/ \E c \in Callers : \/ \E s \in Sites : Get(c, s)
                        \/ Resolved(c) \/ Unresolved(c) \/ Cached(c) \/ Missed(c)
                        \/ RowRead(c) \/ QueryFails(c) \/ GetLimiter(c)
                        \/ TakeToken(c) \/ NoLimit(c) \/ WaitEnds(c)
  \/ \E a \in Addresses : Refill(a) \/ Unused(a)
  \/ \E s \in Sites : CacheEnds(s) \/ EditRate(s)

LimitsSpec == LimitsInit /\ [][LimitsNext]_limitVars

---------------------------------------------------------------------------
(* Properties                                                              *)

(* An address is without a limit only because the row of one of its hosts  *)
(* has been without one, or because the very call that made its limiter    *)
(* waited for a query that failed.  A failed query opens no other address, *)
(* nor the same one again once its limiter has been dropped.               *)
OpenForAReason ==
  \A a \in unlimited \ opened : \E s \in everFree : AddressOf[s] = a
=============================================================================
