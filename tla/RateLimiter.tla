---------------------------- MODULE RateLimiter ----------------------------
(***************************************************************************)
(* One tenant's token bucket (security/limits.py).  Any API process meters *)
(* a request in two steps: it reads the tenant's limit and its own clock,  *)
(* then runs the script, which Redis executes alone.  A minute is Minute   *)
(* ticks; tokens are counted in parts of which a request takes Minute, so  *)
(* that a limit of n requests a minute refills n parts a tick.             *)
(***************************************************************************)
EXTENDS Integers, Sequences, FiniteSets, FiniteSetsExt

CONSTANTS Servers,      \* API processes
          Limits,       \* requests per minute an operator may configure
          SkewOf,       \* how far each server's clock is ahead of Redis'
          Minute,       \* ticks in a minute
          TimeToLive,   \* per limit: ticks an idle bucket is kept
          MaxDelay,     \* bound: ticks between a reading and its script
          MaxClock      \* bound: ticks

ASSUME RateLimiterAssumption ==
    /\ IsFiniteSet(Servers) /\ Servers # {}
    /\ IsFiniteSet(Limits) /\ Limits # {} /\ Limits \subseteq Nat
    /\ SkewOf \in [Servers -> Nat]
    /\ TimeToLive \in [Limits -> Nat]
    /\ Minute \in Nat \ {0} /\ MaxDelay \in Nat /\ MaxClock \in Nat

(* How far one reading of the time may be from another's.                  *)
Uncertainty == Max({SkewOf[s] : s \in Servers}) + MaxDelay

(* "A bucket that has been idle longer than it takes to refill completely  *)
(* is indistinguishable from a fresh one": it is kept for two minutes, but *)
(* for a rounding, which leaves the clocks the rest of them to differ by.  *)
ASSUME ClocksAgree == \A l \in Limits : Minute + Uncertainty <= TimeToLive[l]

VARIABLES clock,        \* Redis' time
          limit,        \* the tenant's requests_per_minute
          bucket,       \* tokens, at and expiry; NoBucket when forgotten
          check,        \* per server: what it read, until the script ran
          admitted      \* when the requests were let in

limiterVars == <<clock, limit, bucket, check, admitted>>

NoBucket == [none |-> TRUE]
Idle == [idle |-> TRUE]

Lesser(a, b) == IF a <= b THEN a ELSE b

LimiterInit ==
    /\ clock = 0 /\ limit \in Limits /\ bucket = NoBucket
    /\ check = [s \in Servers |-> Idle]
    /\ admitted = <<>>

(* RateLimiter.check up to the call.                                       *)
ReadLimit(s) ==
    /\ check[s] = Idle
    /\ check' = [check EXCEPT ![s] =
                   [capacity |-> limit, now |-> clock + SkewOf[s], since |-> clock]]
    /\ UNCHANGED <<clock, limit, bucket, admitted>>

(* EXPIRE; a forgotten bucket is a full one.                               *)
Current(c) ==
    IF bucket = NoBucket \/ clock >= bucket.expires
    THEN [tokens |-> c.capacity * Minute, at |-> c.now]
    ELSE [tokens |-> bucket.tokens, at |-> bucket.at]

RefillEitherWay(b, c) ==                          \* mutant of Refill
    [tokens |-> IF c.now > b.at
                THEN Lesser(c.capacity * Minute,
                           b.tokens + (c.now - b.at) * c.capacity)
                ELSE b.tokens,
     at |-> c.now]

(* A clock that is behind the bucket's neither refills nor drains it.      *)
Refill(b, c) ==
    IF c.now > b.at
    THEN [tokens |-> Lesser(c.capacity * Minute,
                           b.tokens + (c.now - b.at) * c.capacity),
          at |-> c.now]
    ELSE b

(* The script.  Fewer than one request a minute admits none.               *)
RunScript(s) ==
    /\ check[s] # Idle
    /\ LET c == check[s]
           b == Refill(Current(c), c)
           allowed == b.tokens >= Minute
       IN IF c.capacity < 1
          THEN UNCHANGED <<bucket, admitted>>
          ELSE /\ bucket' = [tokens |-> IF allowed THEN b.tokens - Minute
                                        ELSE b.tokens,
                             at |-> b.at, expires |-> clock + TimeToLive[c.capacity]]
               /\ admitted' = IF allowed THEN Append(admitted, clock) ELSE admitted
    /\ check' = [check EXCEPT ![s] = Idle]
    /\ UNCHANGED <<clock, limit>>

(* LimiterUnavailable: the request is refused.                             *)
StoreUnreachable(s) ==
    /\ check[s] # Idle
    /\ check' = [check EXCEPT ![s] = Idle]
    /\ UNCHANGED <<clock, limit, bucket, admitted>>

SetLimit ==
    /\ limit' \in Limits \ {limit}
    /\ UNCHANGED <<clock, bucket, check, admitted>>

Tick ==
    /\ clock < MaxClock
    /\ \A s \in Servers : check[s] # Idle => clock < check[s].since + MaxDelay
    /\ clock' = clock + 1
    /\ UNCHANGED <<limit, bucket, check, admitted>>

LimiterNext ==
    \/ \E s \in Servers : ReadLimit(s) \/ RunScript(s) \/ StoreUnreachable(s)
    \/ SetLimit \/ Tick

LimiterSpec == LimiterInit /\ [][LimiterNext]_limiterVars

-----------------------------------------------------------------------------
(* Between any two admissions the tenant was let in at most one full       *)
(* bucket and what time added to it, at the highest limit in force:        *)
(* whichever servers metered it, with clocks that differ, scripts that     *)
(* arrive late and out of order, a bucket forgotten and a limit changed    *)
(* (ADR-021: "a per-process limiter is not a limit when there are two      *)
(* processes").                                                            *)
AdmissionsBounded ==
    \A i, j \in 1 .. Len(admitted) :
        i <= j => Minute * (j - i + 1)
                    <= Max(Limits)
                         * (Minute + admitted[j] - admitted[i] + Uncertainty)
=============================================================================
