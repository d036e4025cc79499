------------------------------ MODULE RateLimits ------------------------------
(***************************************************************************)
(* The rate limiters that count in Redis, for one tenant (every key bears  *)
(* the tenant): TenantRateLimiter of crates/kms-api/src/ratelimit.rs, in   *)
(* front of the REST routes, and SlidingWindowRateLimiter and              *)
(* ClusterRateLimiter of crates/kms-keystore/src/rate_limiter.rs, in their *)
(* two modes.                                                              *)
(*                                                                         *)
(* All of them name their Redis key after the window, now / window length, *)
(* so that a new window starts from nothing, the "sliding" ones as well.   *)
(***************************************************************************)
EXTENDS Naturals, FiniteSets

CONSTANTS
    Requesters,    \* concurrent requests
    RateLimit,     \* requests_per_second, or max_requests
    WindowLength,  \* seconds of a window
    FailOpen,      \* fail_mode = RateLimitFailMode::FailOpen
    LastSecond     \* bound: the clock

ASSUME RateLimitsAssumption ==
    /\ RateLimit \in Nat /\ LastSecond \in Nat
    /\ WindowLength \in Nat \ {0}
    /\ FailOpen \in BOOLEAN
    /\ IsFiniteSet(Requesters) /\ Requesters # {}

VARIABLES
    limiter,     \* "tenant", "fixed" or "sliding"
    second,      \* the clock
    counter,     \* the counter of this window
    entries,     \* the sorted set of this window: <<request, second>>
    asking,      \* requester -> "idle", or "counted" between ZCARD and ZADD
    served,      \* requests of this window so far (names the members of the sets)
    admitted     \* the requests let through: <<request, second>> (history)

limitVars == <<limiter, second, counter, entries, asking, served, admitted>>

WindowStart == (second \div WindowLength) * WindowLength

RateLimitsInit ==
    /\ limiter \in {"tenant", "fixed", "sliding"}
    /\ second = 0
    /\ counter = 0
    /\ entries = {}
    /\ asking = [r \in Requesters |-> "idle"]
    /\ served = 0
    /\ admitted = {}

Admit == admitted' = admitted \cup {<<served, second>>}
OverLimit_Late(n) == n > RateLimit + 1    \* mutant: one more
OverLimit(n) == n > RateLimit

\* TenantRateLimiter::check: one script increments and reads.  Without Redis the
\* fail mode decides.
check ==
    /\ limiter = "tenant"
    /\ served < RateLimit + 2
    /\ served' = served + 1
    /\ \/ /\ counter' = counter + 1
          /\ IF OverLimit(counter + 1) THEN UNCHANGED admitted ELSE Admit
       \/ UNCHANGED counter /\ IF FailOpen THEN Admit ELSE UNCHANGED admitted
    /\ UNCHANGED <<limiter, second, entries, asking>>

\* check_rate_limit with sliding_window off.
check_fixed ==
    /\ limiter = "fixed"
    /\ served < RateLimit + 2
    /\ served' = served + 1
    /\ counter' = counter + 1
    /\ IF OverLimit(counter + 1) THEN UNCHANGED admitted ELSE Admit
    /\ UNCHANGED <<limiter, second, entries, asking>>

\* With it on: ZREMRANGEBYSCORE up to and including the start of the window,
\* ZCARD, and, if there is room, ZADD in a call of its own.
Stale(e) == e[2] <= WindowStart
check_sliding(r) ==
    /\ limiter = "sliding"
    /\ asking[r] = "idle"
    /\ served < 2 * RateLimit + 2
    /\ entries' = {e \in entries : ~Stale(e)}
    /\ asking' = [asking EXCEPT ![r] = IF Cardinality(entries') >= RateLimit THEN "idle" ELSE "counted"]
    /\ UNCHANGED <<limiter, second, counter, served, admitted>>
add_request(r) ==
    /\ asking[r] = "counted"
    /\ entries' = entries \cup {<<served, second>>}
    /\ served' = served + 1
    /\ Admit
    /\ asking' = [asking EXCEPT ![r] = "idle"]
    /\ UNCHANGED <<limiter, second, counter>>

\* reset: the administrator deletes this window's key.
reset_limit ==
    /\ limiter \in {"fixed", "sliding"}
    /\ counter > 0 \/ entries # {}
    /\ counter' = 0 /\ entries' = {}
    /\ admitted' = {}
    /\ UNCHANGED <<limiter, second, asking, served>>

\* A second passes; a request does not wait for so long between its two calls.
SecondPasses ==
    /\ second < LastSecond
    /\ \A r \in Requesters : asking[r] = "idle"
    /\ second' = second + 1
    /\ IF (second + 1) % WindowLength = 0
       THEN counter' = 0 /\ entries' = {} /\ served' = 0
       ELSE UNCHANGED <<counter, entries, served>>
    /\ UNCHANGED <<limiter, asking, admitted>>

RateLimitsNext ==
    \/ check \/ check_fixed
    \/ \E r \in Requesters : check_sliding(r) \/ add_request(r)
    \/ reset_limit
    \/ SecondPasses

-----------------------------------------------------------------------------
(* Properties.                                                             *)

\* Requests let through in the seconds from..to.
Total(from, to) == Cardinality({a \in admitted : a[2] \in from..to})

\* The limiters that count in one command never let more through in a window
\* than the limit, however many requests come at once and whether Redis answers
\* or not, unless they are told to fail open.
WindowLimit ==
    ~FailOpen /\ limiter \in {"tenant", "fixed"} => Total(WindowStart, second) <= RateLimit

\* The sliding mode overruns its limit by the requests that were between their
\* two calls at the same time, and by those of the first second of the window,
\* whose entries it takes for those of the window before.
SlidingOverrun ==
    limiter = "sliding" =>
      Total(WindowStart + 1, second) <= RateLimit + (Cardinality(Requesters) - 1)

\* No limiter lets more through than its limit and what its own two-step
\* counting allows.
LimitsHold == WindowLimit /\ SlidingOverrun

=============================================================================
