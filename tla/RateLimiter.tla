----------------------------- MODULE RateLimiter -----------------------------
(***************************************************************************)
(* The client-side throttle of one tenant: RateLimiterRegistry, its token  *)
(* buckets, and the ERP requests that take a token before every attempt.   *)
(*                                                                         *)
(* Time is counted in ticks (milliseconds in the code).  A bucket for n    *)
(* requests a minute gains n/Minute tokens a tick, so tokens are counted   *)
(* in units of 1/Minute: a request costs Minute units, a tick brings n.    *)
(* The code computes in floating point; the model is exact.                *)
(***************************************************************************)
EXTENDS Integers, Sequences

CONSTANTS
  Limit,        \* the requests per minute a tenant may be configured with
  Minute,       \* ticks in a minute (60 000 in the code)
  MinSleep,     \* the shortest sleep (25 in the code)
  MaxRetries,   \* attempts after the first
  Call,         \* concurrent calls of the ERP client
  Absent,       \* no bucket yet
  MaxTime       \* bound: the clock of a run

ASSUME LimitAssumption == Limit \subseteq Nat \ {0} /\ Limit # {}
ASSUME MinuteAssumption == Minute \in Nat \ {0}
ASSUME SleepAssumption == MinSleep \in Nat /\ MaxRetries \in Nat /\ MaxTime \in Nat
ASSUME AbsentAssumption == Absent \notin [tokens: Nat, lastRefill: Nat]

VARIABLES
  now,       \* Date.now()
  limit,     \* the tenant's erp_rate_limit_per_minute
  buckets,   \* the registry: limit -> [tokens, lastRefill]
  call,      \* [step, limit, attempt, wake, seen]
  granted    \* per bucket, the times it gave a token out

vars == <<now, limit, buckets, call, granted>>

(* "seen", the tokens its bucket had given out when a call went to sleep,  *)
(* and granted are only observed.                                          *)
TypeOK ==
  /\ now \in Nat
  /\ limit \in Limit
  /\ buckets \in [Limit -> [tokens: Nat, lastRefill: Nat] \cup {Absent}]
  /\ \A n \in Limit : buckets[n] # Absent =>
       buckets[n].tokens <= n * Minute /\ buckets[n].lastRefill <= now
  /\ call \in [Call -> [step: {"idle", "asleep", "sent"}, limit: Limit,
                        attempt: 0 .. MaxRetries, wake: Nat, seen: Nat]]
  /\ granted \in [Limit -> Seq(Nat)]

Init ==
  /\ now = 0
  /\ limit \in Limit
  /\ buckets = [n \in Limit |-> Absent]
  /\ call = [c \in Call |-> [step |-> "idle", limit |-> limit, attempt |-> 0,
                             wake |-> 0, seen |-> 0]]
  /\ granted = [n \in Limit |-> <<>>]

-----------------------------------------------------------------------------
(* The bucket.                                                             *)

Least(a, b) == IF a < b THEN a ELSE b
Greatest(a, b) == IF a < b THEN b ELSE a

Full(n) == n * Minute

(* Mutant: the refill forgets the capacity.                                *)
TokensUncapped(n, b, t) == b.tokens + n * (t - b.lastRefill)

(* What refill() makes of a bucket's tokens at time t.                     *)
TokensAt(n, b, t) == Least(Full(n), b.tokens + n * (t - b.lastRefill))

(* Mutant: the refill forgets to move lastRefill.                          *)
BucketRefilledAgain(n) ==
  [tokens |-> IF buckets[n] = Absent THEN Full(n) ELSE TokensAt(n, buckets[n], now),
   lastRefill |-> IF buckets[n] = Absent THEN now ELSE buckets[n].lastRefill]

(* RateLimiterRegistry.for, then refill().                                 *)
Bucket(n) ==
  [tokens |-> IF buckets[n] = Absent THEN Full(n) ELSE TokensAt(n, buckets[n], now),
   lastRefill |-> now]

(* Mutant: the sleep is rounded down.                                      *)
SleepRoundedDown(n, tokens) == Greatest(MinSleep, (Minute - tokens) \div n)

(* How long to sleep until the missing tokens have come, rounded up.       *)
Sleep(n, tokens) == Greatest(MinSleep, (Minute - tokens + n - 1) \div n)

(* One pass of acquire()'s loop by an attempt: it takes a token and sends  *)
(* its request, or goes to sleep.                                          *)
Acquire(c, n, attempt) ==
  LET b == Bucket(n)
  IN  \/ /\ b.tokens >= Minute
         /\ buckets' = [buckets EXCEPT ![n] = [b EXCEPT !.tokens = @ - Minute]]
         /\ granted' = [granted EXCEPT ![n] = Append(@, now)]
         /\ call' = [call EXCEPT ![c] = [step |-> "sent", limit |-> n, attempt |-> attempt,
                                         wake |-> 0, seen |-> 0]]
      \/ /\ b.tokens < Minute
         /\ buckets' = [buckets EXCEPT ![n] = b]
         /\ call' = [call EXCEPT ![c] = [step |-> "asleep", limit |-> n, attempt |-> attempt,
                                         wake |-> now + Sleep(n, b.tokens),
                                         seen |-> Len(granted[n])]]
         /\ UNCHANGED granted

-----------------------------------------------------------------------------
(* The calls of the ERP client.  The limit is read once, before the        *)
(* attempts, and every attempt takes a token of the same bucket.           *)

Request(c) ==
  /\ call[c].step = "idle"
  /\ Acquire(c, limit, 0)
  /\ UNCHANGED <<now, limit>>

(* A timer fires when its time has come, or later.                         *)
Wake(c) ==
  /\ call[c].step = "asleep"
  /\ now >= call[c].wake
  /\ Acquire(c, call[c].limit, call[c].attempt)
  /\ UNCHANGED <<now, limit>>

(* A 429, a 5xx, a timeout or a broken answer, and the delay before the    *)
(* next attempt is over.                                                   *)
Retry(c) ==
  /\ call[c].step = "sent"
  /\ call[c].attempt < MaxRetries
  /\ Acquire(c, call[c].limit, call[c].attempt + 1)
  /\ UNCHANGED <<now, limit>>

(* The call returns or throws.                                             *)
Return(c) ==
  /\ call[c].step = "sent"
  /\ call' = [call EXCEPT ![c].step = "idle", ![c].attempt = 0]
  /\ UNCHANGED <<now, limit, buckets, granted>>

(* An administrator changes the tenant's limit.                            *)
Configure(n) ==
  /\ n # limit
  /\ limit' = n
  /\ UNCHANGED <<now, buckets, call, granted>>

Tick ==
  /\ now < MaxTime
  /\ now' = now + 1
  /\ UNCHANGED <<limit, buckets, call, granted>>

Next ==
  \/ \E c \in Call : Request(c) \/ Wake(c) \/ Retry(c) \/ Return(c)
  \/ \E n \in Limit : Configure(n)
  \/ Tick

Spec == Init /\ [][Next]_vars

-----------------------------------------------------------------------------
(* Between any two requests a bucket let through, it let through no more   *)
(* than a full bucket and what the time between them brought: n at once    *)
(* and n a minute after that ("We throttle on our side rather than relying *)
(* on their 429s").                                                        *)
RateIsBounded ==
  \A n \in Limit : \A i, j \in 1 .. Len(granted[n]) :
    i <= j => (j - i + 1) * Minute <= Full(n) + n * (granted[n][j] - granted[n][i])

(* A call sleeps long enough: when its timer fires there is a token for    *)
(* it, unless other calls have taken one since.                            *)
WakesToAToken ==
  \A c \in Call :
    LET n == call[c].limit
    IN  /\ call[c].step = "asleep"
        /\ call[c].seen = Len(granted[n])
        => TokensAt(n, buckets[n], Greatest(now, call[c].wake)) >= Minute
=============================================================================
