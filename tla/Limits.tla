-------------------------------- MODULE Limits --------------------------------
(***************************************************************************)
(* The token bucket that limits how often one key (a user, an address) may *)
(* publish, sign up or log in.  RateLimiter keeps it in the memory of the  *)
(* one server there is; RedisLimiter keeps it in Redis for all replicas,   *)
(* and there a call takes two steps: the replica reads its own clock, and  *)
(* later a script runs in Redis with that reading.  Buckets of different   *)
(* keys never meet, so this is the bucket of one key.                      *)
(*                                                                         *)
(* A tick is the unit of time.  A request costs Cost units and a bucket    *)
(* earns one unit a tick, which is the rate burst/per of the code without  *)
(* its fractions.                                                          *)
(***************************************************************************)
EXTENDS Naturals, Sequences

CONSTANTS Callers,      \* requests being served at once
          Skew,         \* [Callers -> Nat], how far the clock of the replica
                        \* that serves a caller is ahead
          Burst, Cost,
          MaxDelay,     \* how long a call takes to reach Redis, at most
          Lateness,     \* what skew and delay make of a clock reading
          MaxTime, MaxCalls,    \* bounds on the clock and the calls, for TLC
          None

ASSUME LimitsAssumption ==
    /\ Burst \in Nat \ {0}
    /\ Cost \in Nat \ {0}
    /\ Skew \in [Callers -> Nat]
    /\ MaxDelay \in Nat
    /\ Lateness \in Nat
    /\ \A c, d \in Callers : Skew[c] + MaxDelay <= Skew[d] + Lateness
    /\ MaxTime \in Nat
    /\ MaxCalls \in Nat

Capacity == Burst * Cost

Buckets == [tokens : 0..Capacity,   \* units
            ts : Nat,               \* the clock reading of the last call
            touched : Nat]          \* when Redis ran the last call

ASSUME LimitsNoneAssumption == None \notin Nat /\ None \notin Buckets

VARIABLES
    driver,     \* "memory" or "redis", as the server is configured
    bucket,     \* the key's bucket, or None
    reading,    \* [Callers -> Nat \cup {None}], a clock reading on its way
    now,        \* the time
    calls,      \* how many calls were decided by the bucket
    grants      \* the calls it granted: when, and as which of the calls

vars == <<driver, bucket, reading, now, calls, grants>>

Init ==
    /\ driver \in {"memory", "redis"}
    /\ bucket = None
    /\ reading = [c \in Callers |-> None]
    /\ now = 0
    /\ calls = 0
    /\ grants = <<>>

\* (A bug: the key expires after burst seconds, whatever the rate.)
ExpiredEarly == driver = "redis" /\ now > bucket.touched + Burst

\* EXPIRE key, ceil(burst / rate) + 1
Expired == driver = "redis" /\ now > bucket.touched + Capacity + 1

\* (A bug: what a bucket earns is not capped.)
FilledUncapped(reads) ==
    IF bucket = None \/ Expired THEN Capacity
    ELSE bucket.tokens + (IF reads > bucket.ts THEN reads - bucket.ts ELSE 0)

\* What is in the bucket at a call that reads the time as reads.
Filled(reads) ==
    IF bucket = None \/ Expired THEN Capacity
    ELSE LET earned == IF reads > bucket.ts THEN reads - bucket.ts ELSE 0
             sum == bucket.tokens + earned
         IN IF sum > Capacity THEN Capacity ELSE sum

Grant == grants' = Append(grants, [at |-> now, calls |-> calls + 1])

\* (A bug: a refused call still moves lastFill, but loses what was earned.)
DecideForgetful(reads) ==
    LET tokens == Filled(reads) IN
    /\ calls < MaxCalls
    /\ calls' = calls + 1
    /\ IF tokens < Cost
         THEN /\ bucket' = [tokens |-> IF bucket = None THEN tokens ELSE bucket.tokens,
                            ts |-> reads, touched |-> now]
              /\ UNCHANGED grants
         ELSE /\ bucket' = [tokens |-> tokens - Cost, ts |-> reads, touched |-> now]
              /\ Grant

\* The bucket decides, and remembers the reading it was asked with.
Decide(reads) ==
    LET tokens == Filled(reads) IN
    /\ calls < MaxCalls
    /\ calls' = calls + 1
    /\ IF tokens < Cost
         THEN /\ bucket' = [tokens |-> tokens, ts |-> reads, touched |-> now]
              /\ UNCHANGED grants
         ELSE /\ bucket' = [tokens |-> tokens - Cost, ts |-> reads, touched |-> now]
              /\ Grant

\* RateLimiter.Allow, under its mutex.
AllowInMemory ==
    /\ driver = "memory"
    /\ Decide(now)
    /\ UNCHANGED <<driver, reading, now>>

\* RedisLimiter.Allow: time.Now() in the replica ...
ReadClock(c) ==
    /\ driver = "redis"
    /\ reading[c] = None
    /\ reading' = [reading EXCEPT ![c] = now + Skew[c]]
    /\ UNCHANGED <<driver, bucket, now, calls, grants>>

\* ... and the script in Redis, one call at a time.
Eval(c) ==
    /\ reading[c] # None
    /\ Decide(reading[c])
    /\ reading' = [reading EXCEPT ![c] = None]
    /\ UNCHANGED <<driver, now>>

\* Redis does not answer: the request passes, and the bucket knows nothing of it.
FailOpen(c) ==
    /\ reading[c] # None
    /\ reading' = [reading EXCEPT ![c] = None]
    /\ UNCHANGED <<driver, bucket, now, calls, grants>>

\* The server restarts and its memory is gone: nothing is promised across that.
Restart ==
    /\ driver = "memory"
    /\ bucket' = None
    /\ grants' = <<>>
    /\ UNCHANGED <<driver, reading, now, calls>>

\* Time passes, but no call to Redis takes longer than MaxDelay.
Tick ==
    /\ now < MaxTime
    /\ \A c \in Callers : reading[c] # None => now < reading[c] + MaxDelay - Skew[c]
    /\ now' = now + 1
    /\ UNCHANGED <<driver, bucket, reading, calls, grants>>

Next ==
    \/ AllowInMemory
    \/ \E c \in Callers : ReadClock(c) \/ Eval(c) \/ FailOpen(c)
    \/ Restart
    \/ Tick

Spec == Init /\ [][Next]_vars

-----------------------------------------------------------------------------
(***************************************************************************)
(* Properties                                                              *)
(***************************************************************************)

\* The bucket never holds more than the burst, and every variable has its type.
LimitsTypeOK ==
    /\ driver \in {"memory", "redis"}
    /\ bucket \in Buckets \cup {None}
    /\ reading \in [Callers -> Nat \cup {None}]
    /\ now \in Nat
    /\ calls \in Nat
    /\ grants \in Seq([at : Nat, calls : Nat])

\* What each call may gain by carrying a reading of another time than its own.
Late == IF driver = "memory" THEN 0 ELSE Lateness

\* In no interval does a key get more than the burst and what the interval
\* earns ("up to burst requests, refilling continuously", redislimiter.go:64).
\* The memory keeps to that exactly.  Redis does not: ts goes back to a late or
\* a slow clock, and the next call earns the same time again.  It keeps to it
\* up to Lateness for each later call of the interval, which is little where
\* clocks agree to less than what a request costs; a key that expires, a refill
\* that is capped and a refused call add nothing to that.
Budget ==
    \A i \in 1..Len(grants) :
        (Len(grants) - i + 1) * Cost
            <= Capacity + (now - grants[i].at) + Late * (calls - grants[i].calls)

\* One more request now would fit into the burst and the refill of every
\* interval that ends now.
Fits == \A i \in 1..Len(grants) :
            (Len(grants) - i + 2) * Cost <= Capacity + (now - grants[i].at)

\* In memory a call is granted whenever it fits, and only then: refusals and
\* the cap of the bucket lose nothing a client has earned.
MemoryIsExact ==
    [][driver = "memory" /\ calls' # calls => (grants' # grants <=> Fits)]_vars
=============================================================================
