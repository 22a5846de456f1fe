-------------------------- MODULE RateLimiterProofs --------------------------
(***************************************************************************)
(* Theorems of RateLimiter, for every limit, every length of a minute and  *)
(* every number of calls and retries.                                      *)
(*                                                                         *)
(* RateIsBounded is not inductive: that the next token may be given out    *)
(* follows from what the bucket holds now.  EveryTokenIsEarned says it: of *)
(* a full bucket and what came in since any earlier request, what is left  *)
(* and what was given out since are at most the whole.                     *)
(* SleepersAreServed does the same for WakesToAToken.                      *)
(***************************************************************************)
EXTENDS RateLimiter, TLAPS

EveryTokenIsEarned ==
  \A n \in Limit : \A i \in 1 .. Len(granted[n]) :
    /\ buckets[n] # Absent
    /\ granted[n][i] <= buckets[n].lastRefill
    /\ (Len(granted[n]) - i + 1) * Minute + buckets[n].tokens
         <= Full(n) + n * (buckets[n].lastRefill - granted[n][i])

RateInv == TypeOK /\ EveryTokenIsEarned /\ RateIsBounded

-----------------------------------------------------------------------------
(* Arithmetic.                                                             *)

LEMMA ProductIsNat == \A a, b \in Nat : a * b \in Nat
  BY SMT

LEMMA TimesSplit == \A n, a, b, c \in Int : n * (c - a) = n * (b - a) + n * (c - b)
  BY SMT

LEMMA OneMore == \A k, m \in Int : (k + 1) * m = k * m + m
  BY SMT

LEMMA QuotientIsNat == \A a \in Nat, n \in Nat \ {0} : a \div n \in Nat
  BY SMT

(* The account of an earlier request at time t1, carried on to t2 by a     *)
(* refill, and then by a grant.                                            *)
LEMMA AccountAfterRefill ==
  ASSUME NEW n \in Nat, NEW m \in Nat, NEW k \in Nat, NEW whole \in Nat,
         NEW t0 \in Nat, NEW t1 \in Nat, NEW t2 \in Nat, t0 <= t1, t1 <= t2,
         NEW tokens \in Nat, NEW had \in Nat,
         k * m + tokens <= whole + n * (t1 - t0),
         had <= tokens + n * (t2 - t1)
  PROVE  k * m + had <= whole + n * (t2 - t0)
<1>1. n * (t2 - t0) = n * (t1 - t0) + n * (t2 - t1)
  BY TimesSplit
<1>2. t1 - t0 \in Nat /\ t2 - t1 \in Nat
  OBVIOUS
<1> DEFINE given == k * m
           before == n * (t1 - t0)
           since == n * (t2 - t1)
<1>3. given \in Nat /\ before \in Nat /\ since \in Nat
  BY <1>2, ProductIsNat
<1>4. /\ given + tokens <= whole + before
      /\ had <= tokens + since
      /\ n * (t2 - t0) = before + since
  BY <1>1
<1> HIDE DEF given, before, since
<1>5. given + had <= whole + (before + since)
  BY <1>3, <1>4
<1>6. given + had <= whole + n * (t2 - t0)
  BY <1>4, <1>5
<1> QED BY <1>6 DEF given

(* A grant moves a token from left to given out.                           *)
LEMMA AccountAfterGrant ==
  ASSUME NEW m \in Nat, NEW k \in Nat, NEW had \in Nat, NEW whole \in Nat,
         k * m + had <= whole, had >= m
  PROVE  /\ (k + 1) * m + (had - m) <= whole
         /\ (k + 1) * m <= whole
<1> DEFINE given == k * m
<1>1. (k + 1) * m = given + m /\ given \in Nat
  BY OneMore, ProductIsNat
<1>2. given + had <= whole
  OBVIOUS
<1> HIDE DEF given
<1> QED BY <1>1, <1>2

-----------------------------------------------------------------------------
(* The bucket after a refill: never more than it holds, never more than    *)
(* what it had and what the time brought.                                  *)

(* What a refill makes of a bucket.                                        *)
LEMMA RefilledBucket ==
  ASSUME TypeOK, NEW n \in Limit
  PROVE  /\ Bucket(n) \in [tokens: Nat, lastRefill: Nat]
         /\ Bucket(n).lastRefill = now
         /\ Bucket(n).tokens <= Full(n)
         /\ buckets[n] # Absent =>
              Bucket(n).tokens <= buckets[n].tokens + n * (now - buckets[n].lastRefill)
<1>1. n \in Nat /\ Minute \in Nat /\ now \in Nat /\ Full(n) \in Nat
  <2>1. n \in Nat /\ Minute \in Nat /\ now \in Nat
    BY LimitAssumption, MinuteAssumption DEF TypeOK
  <2> QED BY <2>1, ProductIsNat DEF Full
<1>2. CASE buckets[n] = Absent
  BY <1>1, <1>2 DEF Bucket
<1>3. CASE buckets[n] # Absent
  <2>1. /\ buckets[n].tokens \in Nat
        /\ buckets[n].lastRefill \in Nat
        /\ buckets[n].lastRefill <= now
    BY <1>3 DEF TypeOK
  <2>2. now - buckets[n].lastRefill \in Nat
    BY <1>1, <2>1
  <2>3. n * (now - buckets[n].lastRefill) \in Nat
    BY <1>1, <2>2, ProductIsNat
  <2> DEFINE came == n * (now - buckets[n].lastRefill)
  <2>4. Bucket(n) = [tokens |-> Least(Full(n), buckets[n].tokens + came), lastRefill |-> now]
    BY <1>3 DEF Bucket, TokensAt
  <2>5. came \in Nat
    BY <2>3
  <2> HIDE DEF came
  <2>6. /\ Least(Full(n), buckets[n].tokens + came) \in Nat
        /\ Least(Full(n), buckets[n].tokens + came) <= Full(n)
        /\ Least(Full(n), buckets[n].tokens + came) <= buckets[n].tokens + came
    BY <1>1, <2>1, <2>5 DEF Least
  <2>7. Bucket(n).tokens <= buckets[n].tokens + came
    BY <2>4, <2>6
  <2>8. Bucket(n).tokens <= buckets[n].tokens + n * (now - buckets[n].lastRefill)
    BY <2>7 DEF came
  <2> QED BY <1>1, <2>4, <2>6, <2>8
<1> QED BY <1>2, <1>3

(* How long a call sleeps is a number of ticks.                            *)
LEMMA SleepIsNat ==
  ASSUME NEW n \in Limit, NEW t \in Nat, t < Minute
  PROVE  Sleep(n, t) \in Nat
<1>1. n \in Nat \ {0} /\ Minute \in Nat /\ MinSleep \in Nat
  BY LimitAssumption, MinuteAssumption, SleepAssumption
<1>2. Minute - t + n - 1 \in Nat
  BY <1>1
<1>3. (Minute - t + n - 1) \div n \in Nat
  BY <1>1, <1>2, QuotientIsNat
<1> QED BY <1>1, <1>3 DEF Sleep, Greatest

-----------------------------------------------------------------------------
(* One pass of acquire().                                                  *)

(* What a pass does to the bucket and to the times it gave tokens out.     *)
LEMMA PassOfAcquire ==
  ASSUME TypeOK, NEW c \in Call, NEW n \in Limit, NEW attempt \in 0 .. MaxRetries,
         Acquire(c, n, attempt)
  PROVE  \/ /\ Bucket(n).tokens >= Minute
            /\ buckets' = [buckets EXCEPT ![n] = [tokens |-> Bucket(n).tokens - Minute,
                                                  lastRefill |-> now]]
            /\ granted' = [granted EXCEPT ![n] = Append(@, now)]
            /\ call' = [call EXCEPT ![c] = [step |-> "sent", limit |-> n,
                                            attempt |-> attempt, wake |-> 0, seen |-> 0]]
         \/ /\ Bucket(n).tokens < Minute
            /\ buckets' = [buckets EXCEPT ![n] = [tokens |-> Bucket(n).tokens,
                                                  lastRefill |-> now]]
            /\ granted' = granted
            /\ call' = [call EXCEPT ![c] = [step |-> "asleep", limit |-> n,
                                            attempt |-> attempt,
                                            wake |-> now + Sleep(n, Bucket(n).tokens),
                                            seen |-> Len(granted[n])]]
<1> DEFINE b == Bucket(n)
<1>1. b \in [tokens: Nat, lastRefill: Nat] /\ b.lastRefill = now
  BY RefilledBucket
<1>2. b = [tokens |-> b.tokens, lastRefill |-> now]
  BY <1>1
<1>3. \/ /\ b.tokens >= Minute
         /\ buckets' = [buckets EXCEPT ![n] = [b EXCEPT !.tokens = @ - Minute]]
         /\ granted' = [granted EXCEPT ![n] = Append(@, now)]
         /\ call' = [call EXCEPT ![c] = [step |-> "sent", limit |-> n,
                                         attempt |-> attempt, wake |-> 0, seen |-> 0]]
      \/ /\ b.tokens < Minute
         /\ buckets' = [buckets EXCEPT ![n] = b]
         /\ call' = [call EXCEPT ![c] = [step |-> "asleep", limit |-> n,
                                         attempt |-> attempt,
                                         wake |-> now + Sleep(n, b.tokens),
                                         seen |-> Len(granted[n])]]
         /\ UNCHANGED granted
  BY DEF Acquire
<1> HIDE DEF b
<1>4. [b EXCEPT !.tokens = @ - Minute] = [tokens |-> b.tokens - Minute, lastRefill |-> now]
  BY <1>1
<1>5. \/ /\ b.tokens >= Minute
         /\ buckets' = [buckets EXCEPT ![n] = [tokens |-> b.tokens - Minute,
                                               lastRefill |-> now]]
         /\ granted' = [granted EXCEPT ![n] = Append(@, now)]
         /\ call' = [call EXCEPT ![c] = [step |-> "sent", limit |-> n,
                                         attempt |-> attempt, wake |-> 0, seen |-> 0]]
      \/ /\ b.tokens < Minute
         /\ buckets' = [buckets EXCEPT ![n] = [tokens |-> b.tokens, lastRefill |-> now]]
         /\ granted' = granted
         /\ call' = [call EXCEPT ![c] = [step |-> "asleep", limit |-> n,
                                         attempt |-> attempt,
                                         wake |-> now + Sleep(n, b.tokens),
                                         seen |-> Len(granted[n])]]
  BY <1>2, <1>3, <1>4
<1> QED BY <1>5 DEF b

(* One pass of acquire keeps the types.                                    *)
LEMMA AcquireKeepsTypes ==
  ASSUME TypeOK, NEW c \in Call, NEW n \in Limit, NEW attempt \in 0 .. MaxRetries,
         Acquire(c, n, attempt), UNCHANGED <<now, limit>>
  PROVE  TypeOK'
<1> DEFINE had == Bucket(n).tokens
           left == IF had >= Minute THEN had - Minute ELSE had
<1>1. /\ now \in Nat /\ n \in Nat /\ Minute \in Nat
      /\ had \in Nat /\ had <= Full(n)
  BY RefilledBucket, LimitAssumption, MinuteAssumption DEF TypeOK
<1>2. Full(n) \in Nat
  BY <1>1, ProductIsNat DEF Full
<1>3. /\ buckets' = [buckets EXCEPT ![n] = [tokens |-> left, lastRefill |-> now]]
      /\ \/ granted' = granted
         \/ granted' = [granted EXCEPT ![n] = Append(@, now)]
  BY <1>1, PassOfAcquire
<1>4. \E r \in [step: {"idle", "asleep", "sent"}, limit: Limit, attempt: 0 .. MaxRetries,
                 wake: Nat, seen: Nat] : call' = [call EXCEPT ![c] = r]
  <2>1. CASE had >= Minute
    <3>1. call' = [call EXCEPT ![c] = [step |-> "sent", limit |-> n, attempt |-> attempt,
                                       wake |-> 0, seen |-> 0]]
      BY <1>1, <2>1, PassOfAcquire
    <3> QED BY <3>1
  <2>2. CASE had < Minute
    <3>1. call' = [call EXCEPT ![c] = [step |-> "asleep", limit |-> n, attempt |-> attempt,
                                       wake |-> now + Sleep(n, had),
                                       seen |-> Len(granted[n])]]
      BY <1>1, <2>2, PassOfAcquire
    <3>2. Sleep(n, had) \in Nat
      BY <1>1, <2>2, SleepIsNat
    <3>3. now + Sleep(n, had) \in Nat /\ Len(granted[n]) \in Nat
      BY <1>1, <3>2 DEF TypeOK
    <3> QED BY <3>1, <3>3
  <2> QED BY <1>1, <2>1, <2>2
<1>5. left \in Nat /\ left <= Full(n)
  BY <1>1, <1>2
<1> HIDE DEF had, left
<1>6. buckets' \in [Limit -> [tokens: Nat, lastRefill: Nat] \cup {Absent}]
  BY <1>1, <1>3, <1>5 DEF TypeOK
<1>7. \A m \in Limit : buckets'[m] # Absent =>
        buckets'[m].tokens <= m * Minute /\ buckets'[m].lastRefill <= now'
  <2> SUFFICES ASSUME NEW m \in Limit, buckets'[m] # Absent
               PROVE  buckets'[m].tokens <= m * Minute /\ buckets'[m].lastRefill <= now'
    OBVIOUS
  <2>1. CASE m = n
    BY <1>1, <1>3, <1>5, <2>1 DEF TypeOK, Full
  <2>2. CASE m # n
    <3>1. buckets'[m] = buckets[m] /\ now' = now
      BY <1>3, <2>2 DEF TypeOK
    <3> QED BY <3>1 DEF TypeOK
  <2> QED BY <2>1, <2>2
<1>8. granted' \in [Limit -> Seq(Nat)]
  <2>1. granted \in [Limit -> Seq(Nat)] /\ Append(granted[n], now) \in Seq(Nat)
    BY <1>1 DEF TypeOK
  <2> QED BY <1>3, <2>1
<1>9. call' \in [Call -> [step: {"idle", "asleep", "sent"}, limit: Limit,
                          attempt: 0 .. MaxRetries, wake: Nat, seen: Nat]]
  BY <1>4 DEF TypeOK
<1> QED BY <1>6, <1>7, <1>8, <1>9 DEF TypeOK

(* A pass that gives no token out and one that does keep the account of    *)
(* every earlier request.                                                  *)
LEMMA AcquireKeepsAccounts ==
  ASSUME RateInv, NEW c \in Call, NEW n \in Limit, NEW attempt \in 0 .. MaxRetries,
         Acquire(c, n, attempt), UNCHANGED <<now, limit>>
  PROVE  EveryTokenIsEarned' /\ RateIsBounded'
<1>0. TypeOK /\ EveryTokenIsEarned /\ RateIsBounded
  BY DEF RateInv
<1>1. PICK had \in Nat, g \in Seq(Nat), t \in Nat :
        had = Bucket(n).tokens /\ g = granted[n] /\ t = now
  BY <1>0, RefilledBucket DEF TypeOK
<1>2. /\ n \in Nat /\ Minute \in Nat /\ Len(g) \in Nat
      /\ Full(n) \in Nat /\ had <= Full(n)
  <2>1. n \in Nat /\ Minute \in Nat /\ Len(g) \in Nat
    BY <1>1, LimitAssumption, MinuteAssumption
  <2> QED BY <1>0, <1>1, <2>1, ProductIsNat, RefilledBucket DEF Full
<1>3. \A m \in Limit \ {n} : buckets'[m] = buckets[m] /\ granted'[m] = granted[m]
  <2>1. \E b : buckets' = [buckets EXCEPT ![n] = b]
    BY <1>0, PassOfAcquire
  <2>2. \/ granted' = granted
        \/ granted' = [granted EXCEPT ![n] = Append(@, now)]
    BY <1>0, PassOfAcquire
  <2>3. DOMAIN buckets = Limit /\ DOMAIN granted = Limit
    BY <1>0 DEF TypeOK
  <2> QED BY <2>1, <2>2, <2>3
<1>4. \/ /\ had >= Minute
         /\ buckets'[n] = [tokens |-> had - Minute, lastRefill |-> t]
         /\ granted'[n] = Append(g, t)
      \/ /\ had < Minute
         /\ buckets'[n] = [tokens |-> had, lastRefill |-> t]
         /\ granted'[n] = g
  <2>1. n \in DOMAIN buckets /\ n \in DOMAIN granted
    BY <1>0 DEF TypeOK
  <2> QED BY <1>0, <1>1, <2>1, PassOfAcquire
(* The accounts after the refill, then after a grant.                      *)
<1>5. \A i \in 1 .. Len(g) :
        /\ g[i] \in Nat /\ g[i] <= t
        /\ (Len(g) - i + 1) * Minute + had <= Full(n) + n * (t - g[i])
  <2> SUFFICES ASSUME NEW i \in 1 .. Len(g)
               PROVE  /\ g[i] \in Nat /\ g[i] <= t
                      /\ (Len(g) - i + 1) * Minute + had <= Full(n) + n * (t - g[i])
    OBVIOUS
  <2>1. /\ buckets[n] # Absent
        /\ g[i] <= buckets[n].lastRefill
        /\ (Len(g) - i + 1) * Minute + buckets[n].tokens
             <= Full(n) + n * (buckets[n].lastRefill - g[i])
    BY <1>0, <1>1 DEF EveryTokenIsEarned
  <2>2. g[i] \in Nat /\ Len(g) - i + 1 \in Nat
    BY <1>1, <1>2
  <2>3. PICK last \in Nat, tokens \in Nat :
          last = buckets[n].lastRefill /\ tokens = buckets[n].tokens /\ last <= t
    BY <1>0, <1>1, <2>1 DEF TypeOK
  <2>4. had <= tokens + n * (t - last)
    BY <1>0, <1>1, <2>1, <2>3, RefilledBucket
  <2>5. (Len(g) - i + 1) * Minute + had <= Full(n) + n * (t - g[i])
    BY <1>2, <2>1, <2>2, <2>3, <2>4, AccountAfterRefill
  <2>6. g[i] <= t
    BY <2>1, <2>2, <2>3
  <2> QED BY <2>2, <2>5, <2>6
<1>6. \A i \in 1 .. Len(g) : had >= Minute =>
        /\ (Len(g) + 1 - i + 1) * Minute + (had - Minute) <= Full(n) + n * (t - g[i])
        /\ (Len(g) + 1 - i + 1) * Minute <= Full(n) + n * (t - g[i])
  <2> SUFFICES ASSUME NEW i \in 1 .. Len(g), had >= Minute
               PROVE  /\ (Len(g) + 1 - i + 1) * Minute + (had - Minute)
                           <= Full(n) + n * (t - g[i])
                      /\ (Len(g) + 1 - i + 1) * Minute <= Full(n) + n * (t - g[i])
    OBVIOUS
  <2>0. Len(g) - i + 1 \in Nat
    BY <1>2
  <2>1. PICK k \in Nat : k = Len(g) - i + 1
    BY <2>0
  <2>2. Len(g) + 1 - i + 1 = k + 1
    BY <1>2, <2>1
  <2>3. t - g[i] \in Nat
    BY <1>5
  <2>4. PICK whole \in Nat : whole = Full(n) + n * (t - g[i])
    BY <1>2, <2>3, ProductIsNat
  <2>5. k * Minute + had <= whole
    BY <1>5, <2>1, <2>4
  <2> QED BY <1>2, <2>2, <2>4, <2>5, AccountAfterGrant
<1>7. EveryTokenIsEarned'
  <2> SUFFICES ASSUME NEW m \in Limit, NEW i \in 1 .. Len(granted'[m])
               PROVE  /\ buckets'[m] # Absent
                      /\ granted'[m][i] <= buckets'[m].lastRefill
                      /\ (Len(granted'[m]) - i + 1) * Minute + buckets'[m].tokens
                           <= Full(m) + m * (buckets'[m].lastRefill - granted'[m][i])
    BY DEF EveryTokenIsEarned, Full
  <2>1. CASE m # n
    BY <1>0, <1>3, <2>1 DEF EveryTokenIsEarned
  <2>2. CASE m = n /\ had < Minute
    <3>1. /\ granted'[n] = g /\ buckets'[n] = [tokens |-> had, lastRefill |-> t]
      BY <1>4, <2>2, <1>2
    <3>2. buckets'[n] # Absent
      BY <1>1, <3>1, AbsentAssumption
    <3> QED BY <1>5, <2>2, <3>1, <3>2
  <2>3. CASE m = n /\ had >= Minute
    <3>1. /\ granted'[n] = Append(g, t)
          /\ buckets'[n] = [tokens |-> had - Minute, lastRefill |-> t]
      BY <1>4, <2>3, <1>2
    <3>2. buckets'[n] # Absent
      <4>1. had - Minute \in Nat
        BY <1>2, <2>3
      <4> QED BY <1>1, <3>1, <4>1, AbsentAssumption
    <3>3. Len(granted'[n]) = Len(g) + 1
      BY <1>1, <3>1
    <3>4. CASE i \in 1 .. Len(g)
      <4>1. granted'[n][i] = g[i]
        BY <1>1, <3>1, <3>4
      <4> QED BY <1>5, <1>6, <2>3, <3>1, <3>2, <3>3, <3>4, <4>1
    <3>5. CASE i = Len(g) + 1
      <4>1. granted'[n][i] = t
        BY <1>1, <3>1, <3>5
      <4>2. n * (t - t) = 0
        BY <1>2
      <4>3. (Len(g) + 1 - i + 1) * Minute + (had - Minute) = had
        BY <1>2, <3>5
      <4>4. buckets'[n].lastRefill = t /\ buckets'[n].tokens = had - Minute
        BY <3>1
      <4>5. Full(n) + n * (buckets'[n].lastRefill - granted'[n][i]) = Full(n)
        <5>1. n * (buckets'[n].lastRefill - granted'[n][i]) = 0
          BY <4>1, <4>2, <4>4
        <5> QED BY <1>2, <5>1
      <4>6. (Len(granted'[n]) - i + 1) * Minute + buckets'[n].tokens = had
        BY <3>3, <4>3, <4>4
      <4>7. granted'[n][i] <= buckets'[n].lastRefill
        BY <1>1, <4>1, <4>4
      <4> QED BY <1>2, <2>3, <3>2, <4>5, <4>6, <4>7
    <3> QED BY <1>2, <2>3, <3>3, <3>4, <3>5
  <2> QED BY <1>2, <2>1, <2>2, <2>3
<1>8. RateIsBounded'
  <2> SUFFICES ASSUME NEW m \in Limit, NEW i \in 1 .. Len(granted'[m]),
                      NEW j \in 1 .. Len(granted'[m]), i <= j
               PROVE  (j - i + 1) * Minute
                        <= Full(m) + m * (granted'[m][j] - granted'[m][i])
    BY DEF RateIsBounded, Full
  <2>1. CASE granted'[m] = granted[m]
    BY <1>0, <2>1 DEF RateIsBounded
  <2>2. CASE m = n /\ had >= Minute
    <3>1. granted'[n] = Append(g, t)
      BY <1>4, <2>2, <1>2
    <3>2. Len(granted'[n]) = Len(g) + 1
      BY <1>1, <3>1
    <3>3. CASE j \in 1 .. Len(g)
      <4>1. i \in 1 .. Len(g)
        BY <1>2, <2>2, <3>2, <3>3
      <4>2. granted'[n][i] = g[i] /\ granted'[n][j] = g[j]
        BY <1>1, <3>1, <3>3, <4>1
      <4>3. (j - i + 1) * Minute <= Full(n) + n * (g[j] - g[i])
        BY <1>0, <1>1, <3>3, <4>1 DEF RateIsBounded
      <4> QED BY <2>2, <4>2, <4>3
    (* The last request: what the bucket still holds is at least nothing.  *)
    <3>4. CASE j = Len(g) + 1 /\ i \in 1 .. Len(g)
      <4>1. granted'[n][i] = g[i] /\ granted'[n][j] = t
        BY <1>1, <3>1, <3>4
      <4> QED BY <1>6, <2>2, <3>4, <4>1
    <3>5. CASE j = Len(g) + 1 /\ i = Len(g) + 1
      <4>1. granted'[n][i] = t /\ granted'[n][j] = t
        BY <1>1, <3>1, <3>5
      <4>2. n * (t - t) = 0
        BY <1>2
      <4>3. (j - i + 1) * Minute = Minute
        BY <1>2, <3>5
      <4>4. n * (granted'[n][j] - granted'[n][i]) = 0
        BY <4>1, <4>2
      <4>5. Minute <= Full(n)
        BY <1>2, <2>2
      <4>6. Full(n) + n * (granted'[n][j] - granted'[n][i]) = Full(n)
        BY <1>2, <4>4
      <4> QED BY <2>2, <4>3, <4>5, <4>6
    <3> QED BY <1>2, <2>2, <3>2, <3>3, <3>4, <3>5
  <2> QED BY <1>1, <1>2, <1>3, <1>4, <2>1, <2>2
<1> QED BY <1>7, <1>8

-----------------------------------------------------------------------------
(* No bucket, no request.                                                  *)
LEMMA InitRateInv == Init => RateInv
<1> SUFFICES ASSUME Init PROVE RateInv
  OBVIOUS
<1>1. TypeOK
  <2>1. 0 \in 0 .. MaxRetries /\ limit \in Limit /\ <<>> \in Seq(Nat)
    BY SleepAssumption DEF Init
  <2>2. call \in [Call -> [step: {"idle", "asleep", "sent"}, limit: Limit,
                           attempt: 0 .. MaxRetries, wake: Nat, seen: Nat]]
    BY <2>1 DEF Init
  <2>3. \A n \in Limit : buckets[n] = Absent
    BY DEF Init
  <2> QED BY <2>1, <2>2, <2>3 DEF Init, TypeOK
<1>2. \A n \in Limit : Len(granted[n]) = 0
  BY DEF Init
<1>3. EveryTokenIsEarned /\ RateIsBounded
  BY <1>2 DEF EveryTokenIsEarned, RateIsBounded
<1> QED BY <1>1, <1>3 DEF RateInv

(* One pass of acquire keeps the invariant.                                *)
LEMMA AcquireKeepsInv ==
  ASSUME RateInv, NEW c \in Call, NEW n \in Limit, NEW attempt \in 0 .. MaxRetries,
         Acquire(c, n, attempt), UNCHANGED <<now, limit>>
  PROVE  RateInv'
<1>1. TypeOK'
  BY AcquireKeepsTypes DEF RateInv
<1>2. EveryTokenIsEarned' /\ RateIsBounded'
  BY AcquireKeepsAccounts
<1> QED BY <1>1, <1>2 DEF RateInv

(* Steps that leave the buckets and the grants alone.                      *)
LEMMA AccountsStay ==
  ASSUME RateInv, TypeOK', UNCHANGED <<buckets, granted>>
  PROVE  RateInv'
  BY DEF RateInv, EveryTokenIsEarned, RateIsBounded, Full

(* RateInv is inductive.                                                   *)
LEMMA NextKeepsRateInv == RateInv /\ [Next]_vars => RateInv'
<1> SUFFICES ASSUME RateInv, [Next]_vars PROVE RateInv'
  OBVIOUS
<1>0. TypeOK
  BY DEF RateInv
<1>1. ASSUME NEW c \in Call, Request(c) PROVE RateInv'
  <2>1. PICK n \in Limit : n = limit
    BY <1>0 DEF TypeOK
  <2>2. 0 \in 0 .. MaxRetries
    BY SleepAssumption
  <2>3. Acquire(c, n, 0) /\ UNCHANGED <<now, limit>>
    BY <1>1, <2>1 DEF Request
  <2> QED BY <2>2, <2>3, AcquireKeepsInv
<1>2. ASSUME NEW c \in Call, Wake(c) PROVE RateInv'
  <2>1. PICK n \in Limit, attempt \in 0 .. MaxRetries :
          n = call[c].limit /\ attempt = call[c].attempt
    BY <1>0 DEF TypeOK
  <2>2. Acquire(c, n, attempt) /\ UNCHANGED <<now, limit>>
    BY <1>2, <2>1 DEF Wake
  <2> QED BY <2>2, AcquireKeepsInv
<1>3. ASSUME NEW c \in Call, Retry(c) PROVE RateInv'
  <2>1. call[c].limit \in Limit /\ call[c].attempt \in 0 .. MaxRetries
    BY <1>0 DEF TypeOK
  <2>2. PICK n \in Limit, attempt \in 0 .. MaxRetries :
          n = call[c].limit /\ attempt = call[c].attempt + 1
    BY <1>3, <2>1, SleepAssumption DEF Retry
  <2>3. Acquire(c, n, attempt) /\ UNCHANGED <<now, limit>>
    BY <1>3, <2>2 DEF Retry
  <2> QED BY <2>3, AcquireKeepsInv
<1>4. ASSUME NEW c \in Call, Return(c) PROVE RateInv'
  <2>1. TypeOK'
    <3>1. 0 \in 0 .. MaxRetries
      BY SleepAssumption
    <3>2. /\ call' = [call EXCEPT ![c].step = "idle", ![c].attempt = 0]
          /\ UNCHANGED <<now, limit, buckets, granted>>
      BY <1>4 DEF Return
    <3>3. call' \in [Call -> [step: {"idle", "asleep", "sent"}, limit: Limit,
                              attempt: 0 .. MaxRetries, wake: Nat, seen: Nat]]
      BY <1>0, <3>1, <3>2 DEF TypeOK
    <3> QED BY <1>0, <3>2, <3>3 DEF TypeOK
  <2> QED BY <1>4, <2>1, AccountsStay DEF Return
<1>5. ASSUME NEW n \in Limit, Configure(n) PROVE RateInv'
  <2>1. TypeOK'
    BY <1>0, <1>5 DEF TypeOK, Configure
  <2> QED BY <1>5, <2>1, AccountsStay DEF Configure
<1>6. CASE Tick
  <2>1. now \in Nat /\ now' = now + 1
    BY <1>0, <1>6 DEF TypeOK, Tick
  <2>2. \A n \in Limit : buckets[n] # Absent =>
          buckets[n].lastRefill \in Nat /\ buckets[n].lastRefill <= now'
    BY <1>0, <2>1 DEF TypeOK
  <2>3. TypeOK'
    BY <1>0, <1>6, <2>1, <2>2 DEF TypeOK, Tick
  <2> QED BY <1>6, <2>3, AccountsStay DEF Tick
<1>7. CASE UNCHANGED vars
  <2>1. TypeOK'
    BY <1>0, <1>7 DEF TypeOK, vars
  <2> QED BY <1>7, <2>1, AccountsStay DEF vars
<1> QED BY <1>1, <1>2, <1>3, <1>4, <1>5, <1>6, <1>7 DEF Next

(* RateInv is an invariant of every run.                                   *)
THEOREM RateSafety == Spec => []RateInv
  BY InitRateInv, NextKeepsRateInv, PTL DEF Spec

(* A bucket never holds more than its capacity, and every call is in one   *)
(* of its steps.                                                           *)
THEOREM RateTyping == Spec => []TypeOK
<1>1. RateInv => TypeOK
  BY DEF RateInv
<1> QED BY <1>1, RateSafety, PTL

(* However requests, sleeps and retries interleave and whatever the limit  *)
(* is changed to, between two requests a bucket let through no more than a *)
(* full bucket and what the time between them brought.                     *)
THEOREM NeverFasterThanTheLimit == Spec => []RateIsBounded
<1>1. RateInv => RateIsBounded
  BY DEF RateInv
<1> QED BY <1>1, RateSafety, PTL

-----------------------------------------------------------------------------
(* Sleeping calls.  WakesToAToken needs that a sleeper's bucket exists and *)
(* that it has not yet given out fewer tokens than the sleeper saw.        *)
SleepersAreServed ==
  \A c \in Call : call[c].step = "asleep" =>
    /\ buckets[call[c].limit] # Absent
    /\ call[c].seen <= Len(granted[call[c].limit])
    /\ call[c].seen = Len(granted[call[c].limit]) =>
         TokensAt(call[c].limit, buckets[call[c].limit], Greatest(now, call[c].wake))
           >= Minute

SleepInv == TypeOK /\ SleepersAreServed

(* A quotient rounded up, times its divisor, is at least the dividend.     *)
LEMMA CeilingIsEnough ==
  ASSUME NEW a \in Nat, NEW n \in Nat \ {0}
  PROVE  n * ((a + n - 1) \div n) >= a
<1> DEFINE q == (a + n - 1) \div n
<1>1. a + n - 1 \in Nat
  OBVIOUS
<1>2. q \in Nat
  BY <1>1, QuotientIsNat
<1>3. a + n - 1 = n * q + ((a + n - 1) % n) /\ (a + n - 1) % n \in 0 .. n - 1
  BY <1>1, SMT
<1> QED BY <1>2, <1>3

(* A product grows with its factor.                                        *)
LEMMA MoreTimeMoreTokens == \A n, a, b \in Nat : a <= b => n * a <= n * b
  BY SMT

(* Refilling at t1 and again at t2 is refilling at t2.                     *)
LEMMA RefillsCompose ==
  ASSUME NEW n \in Limit, NEW b \in [tokens: Nat, lastRefill: Nat],
         NEW t1 \in Nat, NEW t2 \in Nat, b.lastRefill <= t1, t1 <= t2
  PROVE  TokensAt(n, [tokens |-> TokensAt(n, b, t1), lastRefill |-> t1], t2)
           = TokensAt(n, b, t2)
<1>1. PICK had \in Nat, t0 \in Nat : had = b.tokens /\ t0 = b.lastRefill
  OBVIOUS
<1>2. n \in Nat /\ Minute \in Nat /\ Full(n) \in Nat
  <2>1. n \in Nat /\ Minute \in Nat
    BY LimitAssumption, MinuteAssumption
  <2> QED BY <2>1, ProductIsNat DEF Full
<1>3. t1 - t0 \in Nat /\ t2 - t1 \in Nat /\ t0 <= t1
  BY <1>1
<1>4. PICK x \in Nat, y \in Nat, z \in Nat :
        x = n * (t1 - t0) /\ y = n * (t2 - t1) /\ z = n * (t2 - t0)
  <2>1. t2 - t0 \in Nat
    BY <1>1, <1>3
  <2> QED BY <1>2, <1>3, <2>1, ProductIsNat
<1>5. z = x + y
  BY <1>2, <1>4, TimesSplit
<1>6. Least(Full(n), Least(Full(n), had + x) + y) = Least(Full(n), had + z)
  BY <1>2, <1>5 DEF Least
<1>7. TokensAt(n, b, t1) = Least(Full(n), had + x)
  BY <1>1, <1>4 DEF TokensAt
<1>8. TokensAt(n, b, t2) = Least(Full(n), had + z)
  BY <1>1, <1>4 DEF TokensAt
<1>9. TokensAt(n, [tokens |-> Least(Full(n), had + x), lastRefill |-> t1], t2)
        = Least(Full(n), Least(Full(n), had + x) + y)
  BY <1>4 DEF TokensAt
<1> QED BY <1>6, <1>7, <1>8, <1>9

(* Tokens are numbers.                                                     *)
LEMMA TokensAreInt ==
  ASSUME NEW n \in Limit, NEW b \in [tokens: Nat, lastRefill: Nat], NEW t \in Nat,
         b.lastRefill <= t
  PROVE  TokensAt(n, b, t) \in Int
<1>1. n \in Nat /\ Minute \in Nat /\ t - b.lastRefill \in Nat /\ b.tokens \in Nat
  BY LimitAssumption, MinuteAssumption
<1>2. PICK x \in Nat, f \in Nat : x = n * (t - b.lastRefill) /\ f = Full(n)
  BY <1>1, ProductIsNat DEF Full
<1>3. Least(f, b.tokens + x) \in Int
  BY <1>1 DEF Least
<1> QED BY <1>2, <1>3 DEF TokensAt

(* Waiting longer loses no tokens.                                         *)
LEMMA TokensGrow ==
  ASSUME NEW n \in Limit, NEW b \in [tokens: Nat, lastRefill: Nat],
         NEW t1 \in Nat, NEW t2 \in Nat, b.lastRefill <= t1, t1 <= t2
  PROVE  TokensAt(n, b, t1) <= TokensAt(n, b, t2)
<1>1. PICK had \in Nat, t0 \in Nat : had = b.tokens /\ t0 = b.lastRefill
  OBVIOUS
<1>2. n \in Nat /\ Minute \in Nat /\ Full(n) \in Nat
  <2>1. n \in Nat /\ Minute \in Nat
    BY LimitAssumption, MinuteAssumption
  <2> QED BY <2>1, ProductIsNat DEF Full
<1>3. t1 - t0 \in Nat /\ t2 - t0 \in Nat /\ t1 - t0 <= t2 - t0
  BY <1>1
<1>4. PICK x \in Nat, z \in Nat : x = n * (t1 - t0) /\ z = n * (t2 - t0)
  BY <1>2, <1>3, ProductIsNat
<1>5. x <= z
  BY <1>2, <1>3, <1>4, MoreTimeMoreTokens
<1>6. Least(Full(n), had + x) <= Least(Full(n), had + z)
  BY <1>2, <1>5 DEF Least
<1> QED BY <1>1, <1>4, <1>6 DEF TokensAt

(* A call that goes to sleep finds a token when it wakes.                  *)
LEMMA SleepIsEnough ==
  ASSUME NEW n \in Limit, NEW had \in Nat, had < Minute, NEW t \in Nat
  PROVE  /\ t + Sleep(n, had) \in Nat
         /\ TokensAt(n, [tokens |-> had, lastRefill |-> t], t + Sleep(n, had)) >= Minute
<1>1. n \in Nat \ {0} /\ Minute \in Nat /\ MinSleep \in Nat
  BY LimitAssumption, MinuteAssumption, SleepAssumption
<1>2. Full(n) \in Nat /\ Full(n) >= Minute
  <2>1. 1 * Minute <= n * Minute
    BY <1>1, SMT
  <2> QED BY <1>1, <2>1, ProductIsNat DEF Full
<1>3. PICK s \in Nat : s = Sleep(n, had)
  BY SleepIsNat
<1>4. PICK a \in Nat : a = Minute - had
  BY <1>1
<1>5. a + n - 1 = Minute - had + n - 1 /\ a + n - 1 \in Nat
  BY <1>1, <1>4
<1>6. PICK q \in Nat : q = (a + n - 1) \div n
  BY <1>1, <1>5, QuotientIsNat
<1>7. q <= s
  BY <1>1, <1>3, <1>5, <1>6 DEF Sleep, Greatest
<1>8. n * q >= a
  BY <1>1, <1>6, CeilingIsEnough
<1>9. PICK x \in Nat : x = n * s
  BY <1>1, <1>3, ProductIsNat
<1>10. x >= a
  <2>1. n * q <= n * s
    BY <1>1, <1>7, MoreTimeMoreTokens
  <2>2. n * q \in Nat
    BY <1>1, ProductIsNat
  <2> QED BY <1>8, <1>9, <2>1, <2>2
<1>11. Least(Full(n), had + x) >= Minute
  BY <1>1, <1>2, <1>4, <1>10 DEF Least
<1>12. t + s - t = s
  OBVIOUS
<1>13. TokensAt(n, [tokens |-> had, lastRefill |-> t], t + s) = Least(Full(n), had + x)
  BY <1>9, <1>12 DEF TokensAt
<1> QED BY <1>3, <1>11, <1>13

(* One pass of acquire keeps what sleepers rely on.                        *)
LEMMA AcquireKeepsSleepers ==
  ASSUME SleepInv, NEW c \in Call, NEW n \in Limit, NEW attempt \in 0 .. MaxRetries,
         Acquire(c, n, attempt), UNCHANGED <<now, limit>>
  PROVE  SleepInv'
<1>0. TypeOK /\ SleepersAreServed
  BY DEF SleepInv
<1>1. PICK had \in Nat, t \in Nat : had = Bucket(n).tokens /\ t = now /\ t = now'
  BY <1>0, RefilledBucket DEF TypeOK
<1>2. TypeOK'
  BY <1>0, AcquireKeepsTypes
<1>3. DOMAIN buckets = Limit /\ DOMAIN granted = Limit /\ DOMAIN call = Call
  BY <1>0 DEF TypeOK
<1>4. \A m \in Limit \ {n} : buckets'[m] = buckets[m] /\ granted'[m] = granted[m]
  <2>1. \E b : buckets' = [buckets EXCEPT ![n] = b]
    BY <1>0, PassOfAcquire
  <2>2. \/ granted' = granted
        \/ granted' = [granted EXCEPT ![n] = Append(@, now)]
    BY <1>0, PassOfAcquire
  <2> QED BY <1>3, <2>1, <2>2
<1>5. \A d \in Call \ {c} : call'[d] = call[d]
  <2>1. \E r : call' = [call EXCEPT ![c] = r]
    BY <1>0, PassOfAcquire
  <2> QED BY <1>3, <2>1
<1>6. \/ /\ had >= Minute
         /\ buckets'[n] = [tokens |-> had - Minute, lastRefill |-> t]
         /\ granted'[n] = Append(granted[n], t)
         /\ call'[c].step = "sent"
      \/ /\ had < Minute
         /\ buckets'[n] = [tokens |-> had, lastRefill |-> t]
         /\ granted'[n] = granted[n]
         /\ call'[c] = [step |-> "asleep", limit |-> n, attempt |-> attempt,
                        wake |-> t + Sleep(n, had), seen |-> Len(granted[n])]
  BY <1>0, <1>1, <1>3, PassOfAcquire
<1>7. Minute \in Nat
  BY MinuteAssumption
<1>8. buckets'[n] # Absent
  BY <1>1, <1>6, <1>7, AbsentAssumption
<1>9. SleepersAreServed'
  <2> SUFFICES ASSUME NEW d \in Call, call'[d].step = "asleep"
               PROVE  /\ buckets'[call'[d].limit] # Absent
                      /\ call'[d].seen <= Len(granted'[call'[d].limit])
                      /\ call'[d].seen = Len(granted'[call'[d].limit]) =>
                           TokensAt(call'[d].limit, buckets'[call'[d].limit],
                                    Greatest(now', call'[d].wake)) >= Minute
    BY DEF SleepersAreServed, TokensAt, Full, Least, Greatest
  (* The call that has just gone to sleep.                                 *)
  <2>1. CASE d = c
    <3>1. /\ had < Minute
          /\ buckets'[n] = [tokens |-> had, lastRefill |-> t]
          /\ granted'[n] = granted[n]
          /\ call'[c].limit = n /\ call'[c].wake = t + Sleep(n, had)
          /\ call'[c].seen = Len(granted[n])
      BY <1>6, <2>1
    <3>2. /\ t + Sleep(n, had) \in Nat /\ Sleep(n, had) \in Nat
          /\ TokensAt(n, [tokens |-> had, lastRefill |-> t], t + Sleep(n, had)) >= Minute
      BY <1>1, <3>1, SleepIsEnough, SleepIsNat
    <3>3. Greatest(now', call'[c].wake) = t + Sleep(n, had)
      BY <1>1, <3>1, <3>2 DEF Greatest
    <3>4. Len(granted[n]) \in Nat
      BY <1>0 DEF TypeOK
    <3> QED BY <1>8, <2>1, <3>1, <3>2, <3>3, <3>4
  <2>2. CASE d # c
    <3>1. call'[d] = call[d]
      BY <2>2, <1>5
    <3>2. PICK m \in Limit, wake \in Nat, seen \in Nat :
            m = call[d].limit /\ wake = call[d].wake /\ seen = call[d].seen
      BY <1>0 DEF TypeOK
    <3>3. /\ buckets[m] # Absent
          /\ seen <= Len(granted[m])
          /\ seen = Len(granted[m]) => TokensAt(m, buckets[m], Greatest(t, wake)) >= Minute
      BY <1>0, <1>1, <3>1, <3>2 DEF SleepersAreServed
    (* Its bucket is another one.                                          *)
    <3>4. CASE m # n
      <4>1. buckets'[m] = buckets[m] /\ granted'[m] = granted[m]
        BY <1>4, <3>4
      <4> QED BY <1>1, <3>1, <3>2, <3>3, <4>1
    (* Its bucket has given a token out: it is no longer as it was seen.   *)
    <3>5. CASE m = n /\ had >= Minute
      <4>1. granted'[n] = Append(granted[n], t) /\ granted[n] \in Seq(Nat)
        BY <1>0, <1>6, <1>7, <3>5 DEF TypeOK
      <4>2. Len(granted'[n]) = Len(granted[n]) + 1 /\ Len(granted[n]) \in Nat
        BY <4>1
      <4>3. seen <= Len(granted'[n]) /\ seen # Len(granted'[n])
        BY <3>3, <3>5, <4>2
      <4> QED BY <1>8, <3>1, <3>2, <3>5, <4>3
    (* Its bucket was only refilled.                                       *)
    <3>6. CASE m = n /\ had < Minute
      <4>1. buckets'[n] = [tokens |-> had, lastRefill |-> t] /\ granted'[n] = granted[n]
        BY <1>1, <1>6, <1>7, <3>6
      <4>2. buckets[n] \in [tokens: Nat, lastRefill: Nat] /\ buckets[n].lastRefill <= t
        BY <1>0, <1>1, <3>3, <3>6 DEF TypeOK
      <4>3. had = TokensAt(n, buckets[n], t)
        BY <1>1, <3>3, <3>6 DEF Bucket
      <4>4. PICK later \in Nat : later = Greatest(t, wake) /\ t <= later
        BY <1>1 DEF Greatest
      <4>5. TokensAt(n, buckets'[n], later) = TokensAt(n, buckets[n], later)
        BY <1>1, <4>1, <4>2, <4>3, <4>4, RefillsCompose
      <4> QED BY <1>1, <1>8, <3>1, <3>2, <3>3, <3>6, <4>1, <4>4, <4>5
    <3> QED BY <1>1, <1>7, <3>4, <3>5, <3>6
  <2> QED BY <2>1, <2>2
<1> QED BY <1>2, <1>9 DEF SleepInv

(* SleepInv is inductive, given RateInv.                                   *)
LEMMA NextKeepsSleepInv == RateInv /\ RateInv' /\ SleepInv /\ [Next]_vars => SleepInv'
<1> SUFFICES ASSUME RateInv', SleepInv, [Next]_vars PROVE SleepInv'
  OBVIOUS
<1>0. TypeOK /\ TypeOK' /\ SleepersAreServed
  BY DEF RateInv, SleepInv
<1>1. ASSUME NEW c \in Call, Request(c) PROVE SleepInv'
  <2>1. PICK n \in Limit : n = limit
    BY <1>0 DEF TypeOK
  <2>2. 0 \in 0 .. MaxRetries
    BY SleepAssumption
  <2>3. Acquire(c, n, 0) /\ UNCHANGED <<now, limit>>
    BY <1>1, <2>1 DEF Request
  <2> QED BY <2>2, <2>3, AcquireKeepsSleepers
<1>2. ASSUME NEW c \in Call, Wake(c) PROVE SleepInv'
  <2>1. PICK n \in Limit, attempt \in 0 .. MaxRetries :
          n = call[c].limit /\ attempt = call[c].attempt
    BY <1>0 DEF TypeOK
  <2>2. Acquire(c, n, attempt) /\ UNCHANGED <<now, limit>>
    BY <1>2, <2>1 DEF Wake
  <2> QED BY <2>2, AcquireKeepsSleepers
<1>3. ASSUME NEW c \in Call, Retry(c) PROVE SleepInv'
  <2>1. call[c].limit \in Limit /\ call[c].attempt \in 0 .. MaxRetries
    BY <1>0 DEF TypeOK
  <2>2. PICK n \in Limit, attempt \in 0 .. MaxRetries :
          n = call[c].limit /\ attempt = call[c].attempt + 1
    BY <1>3, <2>1, SleepAssumption DEF Retry
  <2>3. Acquire(c, n, attempt) /\ UNCHANGED <<now, limit>>
    BY <1>3, <2>2 DEF Retry
  <2> QED BY <2>3, AcquireKeepsSleepers
<1>4. ASSUME NEW c \in Call, Return(c) PROVE SleepInv'
  <2>1. /\ UNCHANGED <<now, buckets, granted>>
        /\ \A d \in Call : call'[d].step = "asleep" => call'[d] = call[d]
    BY <1>0, <1>4 DEF Return, TypeOK
  <2>2. SleepersAreServed'
    BY <1>0, <2>1 DEF SleepersAreServed, TokensAt, Full, Least, Greatest
  <2> QED BY <1>0, <2>2 DEF SleepInv
<1>5. ASSUME NEW n \in Limit, Configure(n) PROVE SleepInv'
  BY <1>0, <1>5 DEF Configure, SleepInv, SleepersAreServed, TokensAt, Full, Least, Greatest
<1>6. CASE Tick
  <2>1. PICK t \in Nat : t = now /\ now' = t + 1
    BY <1>0, <1>6 DEF TypeOK, Tick
  <2>2. UNCHANGED <<buckets, call, granted>>
    BY <1>6 DEF Tick
  <2> SUFFICES ASSUME NEW d \in Call, call[d].step = "asleep"
               PROVE  /\ buckets[call[d].limit] # Absent
                      /\ call[d].seen <= Len(granted[call[d].limit])
                      /\ call[d].seen = Len(granted[call[d].limit]) =>
                           TokensAt(call[d].limit, buckets[call[d].limit],
                                    Greatest(t + 1, call[d].wake)) >= Minute
    BY <1>0, <2>1, <2>2 DEF SleepInv, SleepersAreServed, TokensAt, Full, Least, Greatest
  <2>3. PICK m \in Limit, wake \in Nat, seen \in Nat :
          m = call[d].limit /\ wake = call[d].wake /\ seen = call[d].seen
    BY <1>0 DEF TypeOK
  <2>4. /\ buckets[m] # Absent
        /\ seen <= Len(granted[m])
        /\ seen = Len(granted[m]) => TokensAt(m, buckets[m], Greatest(t, wake)) >= Minute
    BY <1>0, <2>1, <2>3 DEF SleepersAreServed
  <2>5. buckets[m] \in [tokens: Nat, lastRefill: Nat] /\ buckets[m].lastRefill <= t
    BY <1>0, <2>1, <2>4 DEF TypeOK
  <2>6. PICK t1 \in Nat, t2 \in Nat :
          t1 = Greatest(t, wake) /\ t2 = Greatest(t + 1, wake) /\ t <= t1 /\ t1 <= t2
    BY DEF Greatest
  <2>7. TokensAt(m, buckets[m], t1) <= TokensAt(m, buckets[m], t2)
    BY <2>5, <2>6, TokensGrow
  <2>8. TokensAt(m, buckets[m], t1) \in Int /\ TokensAt(m, buckets[m], t2) \in Int
    BY <2>5, <2>6, TokensAreInt
  <2> QED BY <2>3, <2>4, <2>6, <2>7, <2>8, MinuteAssumption
<1>7. CASE UNCHANGED vars
  BY <1>0, <1>7 DEF vars, SleepInv, SleepersAreServed, TokensAt, Full, Least, Greatest
<1> QED BY <1>1, <1>2, <1>3, <1>4, <1>5, <1>6, <1>7 DEF Next

(* Whatever the limit and the length of a minute, a call that is woken     *)
(* finds a token unless another call of its bucket has taken one since.    *)
THEOREM SleepsAreLongEnough == Spec => []WakesToAToken
<1>1. Init => SleepInv
  <2>1. ASSUME Init PROVE \A c \in Call : call[c].step # "asleep"
    BY <2>1 DEF Init
  <2> QED BY <2>1, InitRateInv DEF RateInv, SleepInv, SleepersAreServed
<1>2. SleepInv => WakesToAToken
  BY DEF SleepInv, SleepersAreServed, WakesToAToken
<1> QED BY <1>1, <1>2, RateSafety, NextKeepsSleepInv, PTL DEF Spec
=============================================================================
