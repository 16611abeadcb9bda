----------------------------- MODULE RateLimits -----------------------------
(***************************************************************************)
(* The limiters in front of the API: the token bucket of the v1 routes,    *)
(* kept in Redis with a copy in the process to fall back on, the token     *)
(* bucket and the sliding window of the v2 routes.                         *)
(*                                                                         *)
(* Buckets of different keys share nothing, so one key is followed.  Time  *)
(* is counted in ticks; tokens are counted in units, Unit of them to the   *)
(* token, of which Rate are refilled in a tick.  The fixed window of the   *)
(* remaining endpoint is slowapi's.                                        *)
(***************************************************************************)
EXTENDS Integers, Sequences, FiniteSets

CONSTANTS
  Capacity,     \* tokens a bucket holds
  Unit, Rate,   \* units in a token, units refilled in a tick
  Limit,        \* requests the sliding window admits
  Window,       \* ticks it covers
  MaxClock,     \* bound: ticks that pass
  MaxRequests   \* bound: admissions of the buckets, and of the window

Stores == {"redis", "process", "v2"}
None == -1

VARIABLES
  clock,
  cacheEnabled, \* settings.cache_enabled
  client,       \* there is a Redis client
  bucket,       \* store -> units and time of the last refill, None before use
  window,       \* deque of the sliding window
  reply,        \* status of the latest answer
  admitted,     \* history: store -> times of the requests it admitted
  passed,       \* history: times of the requests the window admitted
  promise       \* history: store -> time that the latest Retry-After names

vars == <<clock, cacheEnabled, client, bucket, window, reply, admitted, passed, promise>>

Least(a, b) == IF a < b THEN a ELSE b
Full == Capacity * Unit
CeilDiv(a, b) == (a + b - 1) \div b

\* EXPIRE of the Redis hash: twice the time that fills an empty bucket.
Ttl == LET t == CeilDiv(Full * 2, Rate) IN IF t < 1 THEN 1 ELSE t

\* A bucket nobody used, and in Redis one that expired, is full.
Fresh(s) == \/ bucket[s].last = None
            \/ s = "redis" /\ clock >= bucket[s].last + Ttl

\* Mutant: the refill is not capped.
Refilled_NoCap(s) ==
  IF Fresh(s) THEN Full ELSE bucket[s].units + (clock - bucket[s].last) * Rate

Refilled(s) ==
  IF Fresh(s) THEN Full
  ELSE Least(Full, bucket[s].units + (clock - bucket[s].last) * Rate)

\* Mutant: rounded down.
RetryAfter_Floor(units) == (Unit - units) \div Rate

\* seconds_until_token rounded up, and the script's retry_after.
RetryAfter(units) == CeilDiv(Unit - units, Rate)

\* TokenBucketLimiter.consume and _TOKEN_BUCKET_LUA: one token or nothing, and
\* in both cases the refill is recorded.
ConsumeFrom(s) ==
  LET units == Refilled(s)
      allowed == units >= Unit
  IN /\ bucket' = [bucket EXCEPT ![s] = [units |-> IF allowed THEN units - Unit ELSE units,
                                         last |-> clock]]
     /\ admitted' = IF allowed THEN [admitted EXCEPT ![s] = Append(@, clock)] ELSE admitted
     /\ promise' = [promise EXCEPT ![s] = IF allowed THEN None
                                          ELSE clock + RetryAfter(units)]
     /\ reply' = IF allowed THEN "admitted" ELSE "429"

MayRecord == Len(admitted["redis"]) + Len(admitted["process"]) + Len(admitted["v2"])
               < MaxRequests

\* _consume, for enforce_v1_token_bucket and enforce_public_v1_token_bucket:
\* without a client the request is refused, a failing script is replaced by
\* the bucket of the process.
Consume ==
  /\ MayRecord
  /\ \/ ~cacheEnabled /\ ConsumeFrom("process")
     \/ /\ cacheEnabled /\ ~client
        /\ reply' = "503"
        /\ UNCHANGED <<bucket, admitted, promise>>
     \/ cacheEnabled /\ client /\ (ConsumeFrom("redis") \/ ConsumeFrom("process"))
  /\ UNCHANGED <<clock, cacheEnabled, client, window, passed>>

\* create_observation_token_bucket: a bucket of its own in the process; the
\* jitter it adds to Retry-After may name an earlier time than promise does.
CreateObservationTokenBucket ==
  /\ MayRecord
  /\ ConsumeFrom("v2")
  /\ UNCHANGED <<clock, cacheEnabled, client, window, passed>>

-----------------------------------------------------------------------------
(* SlidingWindowLimiter.                                                    *)

\* Mutant: the edge of the window belongs to it.
Outdated_Inclusive(t) == t <= clock - Window

Outdated(t) == t < clock - Window

\* popleft while the oldest is outdated.
Kept ==
  LET n == CHOOSE n \in 0..Len(window) :
             /\ \A i \in 1..n : Outdated(window[i])
             /\ n < Len(window) => ~Outdated(window[n + 1])
  IN SubSeq(window, n + 1, Len(window))

IsAllowed == Len(Kept) < Limit

ResetIn == IF window = <<>> THEN 0
           ELSE LET left == window[1] + Window - clock IN IF left < 0 THEN 0 ELSE left

CreateObservationSlidingWindow ==
  /\ Len(passed) < MaxRequests
  /\ IF IsAllowed
     THEN /\ window' = Append(Kept, clock)
          /\ passed' = Append(passed, clock)
          /\ reply' = "admitted"
     ELSE /\ window' = Kept
          /\ reply' = "429"
          /\ UNCHANGED passed
  /\ UNCHANGED <<clock, cacheEnabled, client, bucket, admitted, promise>>

-----------------------------------------------------------------------------
Tick == /\ clock < MaxClock
        /\ clock' = clock + 1
        /\ UNCHANGED <<cacheEnabled, client, bucket, window, reply, admitted, passed, promise>>

ClientComesOrGoes ==
  /\ cacheEnabled
  /\ client' = ~client
  /\ UNCHANGED <<clock, cacheEnabled, bucket, window, reply, admitted, passed, promise>>

Init ==
  /\ clock = 0 /\ cacheEnabled \in BOOLEAN /\ client = cacheEnabled
  /\ bucket = [s \in Stores |-> [units |-> 0, last |-> None]]
  /\ window = <<>> /\ reply = "none"
  /\ admitted = [s \in Stores |-> <<>>] /\ passed = <<>>
  /\ promise = [s \in Stores |-> None]

BucketStep == Consume \/ CreateObservationTokenBucket \/ ClientComesOrGoes
Next == BucketStep \/ CreateObservationSlidingWindow \/ Tick

Spec == Init /\ [][Next]_vars

-----------------------------------------------------------------------------
TypeOK ==
  /\ clock \in 0..MaxClock
  /\ \A s \in Stores : bucket[s].units \in 0..Full /\ bucket[s].last \in None..MaxClock
  /\ Len(window) <= Limit

\* Between any two requests that a bucket admitted it admitted at most its
\* capacity and what was refilled between them, also across the expiry of the
\* Redis hash, which starts a full bucket (consume, _TOKEN_BUCKET_LUA).
BurstIsBounded ==
  \A s \in Stores : \A j \in DOMAIN admitted[s] : \A i \in 1..j :
    (j - i + 1) * Unit <= Full + Rate * (admitted[s][j] - admitted[s][i])

\* A client that was refused and waits as long as Retry-After says is admitted
\* by the same bucket if nobody else used it (the Retry-After of _consume).
RetryAfterSuffices ==
  \A s \in Stores : promise[s] # None /\ clock >= promise[s] => Refilled(s) >= Unit

\* No span of Window ticks, wherever it begins, holds more admitted requests
\* than the limit: a full window is not emptied by a boundary
\* (SlidingWindowLimiter.is_allowed).
SlidingIsExact ==
  \A j \in DOMAIN passed :
    Cardinality({i \in 1..j : passed[i] >= passed[j] - Window}) <= Limit

LimitsHold == BurstIsBounded /\ RetryAfterSuffices /\ SlidingIsExact
=============================================================================
