-------------------------- MODULE RateLimiterProofs --------------------------
(***************************************************************************)
(* Theorems about RateLimiter, for every set of clients, every capacity,   *)
(* refill interval and second, and a clock bounded by any number and set   *)
(* back by any amount.                                                     *)
(***************************************************************************)
EXTENDS RateLimiter, TLAPS

-----------------------------------------------------------------------------
\* Whole intervals, and the rest.
LEMMA Division ==
    ASSUME NEW n \in Nat, NEW R \in Nat \ {0}
    PROVE  /\ n \div R \in Nat
           /\ (n \div R) * R <= n
           /\ n < (n \div R) * R + R
OBVIOUS

\* Products of naturals, which the provers do not know to be monotone.
LEMMA Times ==
    ASSUME NEW m \in Nat, NEW n \in Nat, NEW R \in Nat, m <= n
    PROVE  m * R \in Nat /\ n * R \in Nat /\ m * R <= n * R
OBVIOUS

LEMMA Ceiling ==
    ASSUME NEW m \in Nat, NEW n \in Nat, NEW S \in Nat \ {0}, m <= n
    PROVE  /\ (m + S - 1) \div S \in Nat
           /\ m <= S * ((m + S - 1) \div S)
           /\ S * ((m + S - 1) \div S) <= S * ((n + S - 1) \div S)
OBVIOUS

-----------------------------------------------------------------------------
\* What the script makes of a bucket.

USE RateAssumption

\* What the client is taken to owe.  Less than its debt only when the clock has
\* been set back behind its bucket.
Clamped(c) ==
    Max2(0, Since(c) + (Capacity - Stored(c).tokens) * RefillInterval - clock)

LEMMA StoredType ==
    ASSUME TypeOK, NEW c \in Clients
    PROVE  /\ Stored(c).tokens \in 0 .. Capacity
           /\ Stored(c).tokens = Capacity => Since(c) = clock
           /\ Since(c) \in Nat /\ Since(c) <= clock
           /\ clock \in Nat
<1>1. clock \in Nat /\ (bucket[c] \in Bucket \/ bucket[c] = NoBucket)
  BY DEF TypeOK
<1>2. CASE Live(c)
  <2>1. bucket[c] \in Bucket
    BY <1>1, <1>2 DEF Live, NoBucket
  <2>2. /\ bucket[c].tokens \in 0 .. Capacity - 1
        /\ bucket[c].updated_at \in Nat
    BY <2>1 DEF Bucket
  <2> QED
    BY <1>1, <1>2, <2>2 DEF Stored, Since, Min2
<1>3. CASE ~Live(c)
  BY <1>1, <1>3 DEF Stored, Since, Min2
<1> QED
  BY <1>2, <1>3

\* Filling a bucket is no change of what it stands for.
LEMMA RefilledType ==
    ASSUME TypeOK, NEW c \in Clients
    PROVE  /\ Refilled(c).tokens \in 0 .. Capacity
           /\ Refilled(c).updated_at \in Nat
           /\ Since(c) <= Refilled(c).updated_at
           /\ Refilled(c).updated_at <= clock
           /\ clock < Refilled(c).updated_at + RefillInterval
           /\ Clamped(c) = Refilled(c).updated_at
                             + (Capacity - Refilled(c).tokens) * RefillInterval - clock
<1> DEFINE C == Capacity
           R == RefillInterval
           t == Stored(c).tokens
           s == Since(c)
           q == Refill(c)
<1>1. /\ t \in 0 .. C /\ s \in Nat /\ s <= clock /\ clock \in Nat
      /\ t = C => s = clock
  BY StoredType
<1>2. /\ q \in Nat /\ q * R <= clock - s /\ clock - s < q * R + R
  <2>1. clock - s \in Nat
    BY <1>1
  <2> QED
    BY <2>1, Division DEF Refill
<1>3. Clamped(c) = Max2(0, s + (C - t) * R - clock)
  BY DEF Clamped
<1> HIDE DEF t, s, q
<1>4. CASE q = 0
  <2>1. Refilled(c) = [tokens |-> t, updated_at |-> s]
    BY <1>4 DEF Refilled, t, s, q
  <2>2. s + (C - t) * R - clock >= 0
    <3>1. CASE t = C
      BY <3>1, <1>1
    <3>2. CASE t < C
      <4>1. 1 * R <= (C - t) * R
        BY <3>2, <1>1, Times
      <4> QED
        BY <4>1, <1>1, <1>2, <1>4
    <3> QED
      BY <3>1, <3>2, <1>1
  <2> QED
    BY <2>1, <2>2, <1>1, <1>2, <1>3, <1>4 DEF Max2, s
<1>5. CASE q > 0 /\ t + q >= C
  <2>1. Refilled(c) = [tokens |-> C, updated_at |-> clock]
    <3>1. Min2(C, t + q) = C
      BY <1>1, <1>2, <1>5 DEF Min2
    <3> QED
      BY <3>1, <1>1, <1>2, <1>5 DEF Refilled, t, s, q
  <2>2. (C - t) * R <= q * R
    BY <1>1, <1>2, <1>5, Times
  <2>3. Clamped(c) = 0
    BY <2>2, <1>1, <1>2, <1>3 DEF Max2
  <2> QED
    BY <2>1, <2>3, <1>1 DEF s
<1>6. CASE q > 0 /\ t + q < C
  <2>1. Refilled(c) = [tokens |-> t + q, updated_at |-> s + q * R]
    <3>1. Min2(C, t + q) = t + q /\ t + q # C
      BY <1>1, <1>2, <1>6 DEF Min2
    <3> QED
      BY <3>1, <1>1, <1>2, <1>6 DEF Refilled, t, s, q
  <2>2. (q + 1) * R <= (C - t) * R
    BY <1>1, <1>2, <1>6, Times
  <2>3. Clamped(c) = s + (C - t) * R - clock
    BY <2>2, <1>1, <1>2, <1>3 DEF Max2
  <2>4. (C - t) * R = q * R + (C - (t + q)) * R
    BY <1>1, <1>2
  <2> QED
    BY <2>1, <2>3, <2>4, <1>1, <1>2, <1>6 DEF s
<1> QED
  BY <1>1, <1>2, <1>4, <1>5, <1>6

\* Who finds a token owes so little that one more interval is within the limit.
LEMMA ClampedBound ==
    ASSUME TypeOK, NEW c \in Clients
    PROVE  /\ Clamped(c) \in Nat
           /\ Clamped(c) <= Capacity * RefillInterval
           /\ Allowed(c) => Clamped(c) + RefillInterval <= Capacity * RefillInterval
           /\ ~Allowed(c) => /\ Refilled(c).tokens = 0
                             /\ Clamped(c) + RefillInterval > Capacity * RefillInterval
<1> DEFINE t == Refilled(c).tokens
           u == Refilled(c).updated_at
<1>1. /\ t \in 0 .. Capacity /\ u \in Nat /\ u <= clock /\ clock < u + RefillInterval
      /\ Clamped(c) = u + (Capacity - t) * RefillInterval - clock
      /\ clock \in Nat
  BY RefilledType, StoredType
<1>2. /\ (Capacity - t) * RefillInterval \in Nat
      /\ (Capacity - t) * RefillInterval <= Capacity * RefillInterval
  BY <1>1, Times
<1>3. Clamped(c) >= 0
  BY StoredType DEF Clamped, Max2
<1>4. ASSUME Allowed(c)
      PROVE  Clamped(c) + RefillInterval <= Capacity * RefillInterval
  <2>1. Capacity - t + 1 <= Capacity /\ Capacity - t + 1 \in Nat
    BY <1>1, <1>4 DEF Allowed
  <2>2. (Capacity - t + 1) * RefillInterval <= Capacity * RefillInterval
    BY <2>1, Times
  <2> QED
    BY <2>2, <1>1
<1>5. ASSUME ~Allowed(c)
      PROVE  t = 0 /\ Clamped(c) + RefillInterval > Capacity * RefillInterval
  BY <1>1, <1>5 DEF Allowed
<1> QED
  BY <1>1, <1>2, <1>3, <1>4, <1>5

\* The client is taken to owe its debt, unless its bucket is ahead of the clock.
LEMMA ClampedIsDebt ==
    ASSUME TypeOK, NEW c \in Clients
    PROVE  /\ DebtOf(c) \in Nat
           /\ Clamped(c) <= DebtOf(c)
           /\ bucket[c] = NoBucket => Clamped(c) = 0 /\ DebtOf(c) = 0
           /\ bucket[c].updated_at <= clock => Clamped(c) = DebtOf(c)
<1>1. clock \in Nat /\ (bucket[c] \in Bucket \/ bucket[c] = NoBucket)
  BY DEF TypeOK
<1>2. CASE Live(c)
  <2>1. bucket[c] \in Bucket /\ bucket[c] # NoBucket
    BY <1>1, <1>2 DEF Live, NoBucket
  <2>2. /\ bucket[c].tokens \in 0 .. Capacity - 1
        /\ bucket[c].updated_at \in Nat
    BY <2>1 DEF Bucket
  <2>3. (Capacity - bucket[c].tokens) * RefillInterval \in Nat
    BY <2>2
  <2>4. /\ Stored(c).tokens = bucket[c].tokens
        /\ Since(c) = Min2(bucket[c].updated_at, clock)
    BY <1>2 DEF Stored, Since
  <2>5. DebtOf(c) = Max2(0, bucket[c].updated_at
                            + (Capacity - bucket[c].tokens) * RefillInterval - clock)
    BY <1>2 DEF DebtOf
  <2>6. Clamped(c) = Max2(0, Since(c)
                             + (Capacity - bucket[c].tokens) * RefillInterval - clock)
    BY <2>4 DEF Clamped
  <2> QED
    BY <1>1, <2>1, <2>2, <2>3, <2>4, <2>5, <2>6 DEF Min2, Max2
<1>3. CASE ~Live(c)
  BY <1>1, <1>3 DEF Stored, Since, Min2, Max2, Clamped, DebtOf
<1>4. bucket[c] = NoBucket => ~Live(c)
  BY <1>1 DEF Live, NoBucket
<1> QED
  BY <1>2, <1>3, <1>4

\* A run of the script: the new bucket, and what it stands for.
LEMMA RunType ==
    ASSUME TypeOK, NEW c \in Clients, RunScript(c), UNCHANGED clock
    PROVE  /\ bucket' \in [Clients -> Bucket \cup {NoBucket}]
           /\ \A d \in Clients : d # c => bucket'[d] = bucket[d]
           /\ bucket'[c] # NoBucket
           /\ bucket'[c].updated_at = Refilled(c).updated_at
           /\ bucket'[c].updated_at <= clock
           /\ bucket'[c].updated_at + (Capacity - bucket'[c].tokens) * RefillInterval
                <= bucket'[c].expires
<1> DEFINE t == IF Allowed(c) THEN Refilled(c).tokens - 1 ELSE Refilled(c).tokens
           u == Refilled(c).updated_at
           new == [tokens |-> t, updated_at |-> u, expires |-> clock + Lifetime]
<1>1. /\ t \in 0 .. Capacity - 1
      /\ u \in Nat /\ u <= clock /\ clock \in Nat
  BY RefilledType, StoredType DEF Allowed
<1>2. /\ (Capacity - t) * RefillInterval <= Capacity * RefillInterval
      /\ Lifetime = Capacity * RefillInterval /\ Lifetime \in Nat
  BY <1>1, Times DEF Lifetime
<1>3. bucket \in [Clients -> Bucket \cup {NoBucket}]
  BY DEF TypeOK
<1>4. bucket'[c] = new /\ \A d \in Clients : d # c => bucket'[d] = bucket[d]
  BY <1>3 DEF RunScript
<1> HIDE DEF t, u
<1>5. new \in Bucket /\ new.expires # -1
  BY <1>1, <1>2 DEF Bucket
<1>6. bucket'[c] # NoBucket
  BY <1>4, <1>5 DEF NoBucket
<1>7. bucket' \in [Clients -> Bucket \cup {NoBucket}]
  BY <1>3, <1>5, <1>4 DEF RunScript, t, u
<1>8. u + (Capacity - t) * RefillInterval <= clock + Lifetime
  BY <1>1, <1>2
<1> QED
  BY <1>1, <1>4, <1>6, <1>7, <1>8 DEF u

LEMMA RunDebt ==
    ASSUME TypeOK, NEW c \in Clients, RunScript(c), UNCHANGED clock
    PROVE  /\ DebtOf(c)' = IF Allowed(c) THEN Clamped(c) + RefillInterval ELSE Clamped(c)
           /\ \A d \in Clients : d # c => DebtOf(d)' = DebtOf(d)
<1> DEFINE t == IF Allowed(c) THEN Refilled(c).tokens - 1 ELSE Refilled(c).tokens
           u == Refilled(c).updated_at
<1>1. /\ t \in 0 .. Capacity - 1
      /\ Refilled(c).tokens \in 0 .. Capacity
      /\ u \in Nat /\ clock \in Nat /\ clock < u + RefillInterval
      /\ Clamped(c) = u + (Capacity - Refilled(c).tokens) * RefillInterval - clock
  BY RefilledType, StoredType DEF Allowed
<1>2. /\ bucket'[c].tokens = t /\ bucket'[c].updated_at = u
      /\ bucket'[c].expires = clock + Lifetime
      /\ \A d \in Clients : d # c => bucket'[d] = bucket[d]
  BY DEF RunScript, TypeOK
<1>3. Lifetime \in Nat
  BY Times DEF Lifetime
<1>4. Live(c)'
  BY <1>1, <1>2, <1>3 DEF Live
<1>5. DebtOf(c)' = Max2(0, u + (Capacity - t) * RefillInterval - clock)
  BY <1>2, <1>4 DEF DebtOf
<1>6. Clamped(c) \in Nat
  BY ClampedBound
<1>7. u + (Capacity - t) * RefillInterval - clock
        = IF Allowed(c) THEN Clamped(c) + RefillInterval ELSE Clamped(c)
  BY <1>1
<1>8. DebtOf(c)' = IF Allowed(c) THEN Clamped(c) + RefillInterval ELSE Clamped(c)
  BY <1>5, <1>6, <1>7 DEF Max2
<1>9. \A d \in Clients : d # c => DebtOf(d)' = DebtOf(d)
  BY <1>2 DEF DebtOf, Live
<1> QED
  BY <1>8, <1>9

-----------------------------------------------------------------------------
\* What the properties rest on: three relations between a bucket and the
\* histories, which every step keeps.

\* A bucket was written before the latest time, and outlives its debt.
BucketsOutliveDebts ==
    \A c \in Clients : bucket[c] # NoBucket =>
        /\ bucket[c].updated_at <= latest
        /\ bucket[c].updated_at + (Capacity - bucket[c].tokens) * RefillInterval
             <= bucket[c].expires

\* Each admission but for the time since then is still owed.
AdmissionsAreOwed ==
    \A c \in Clients :
        /\ admitted[c] # <<>> => bucket[c].updated_at <= clock
        /\ \A i \in 1 .. Len(admitted[c]) :
              /\ admitted[c][i] <= clock
              /\ (Len(admitted[c]) - i + 1) * RefillInterval
                   <= DebtOf(c) + clock - admitted[c][i]

\* The next token is due by the time the client has been told.
TokenIsDue ==
    \A c \in Clients : told[c] # 0 =>
        bucket[c] = NoBucket \/ bucket[c].updated_at + RefillInterval <= told[c]

RateInv ==
    /\ TypeOK /\ BucketsOutliveDebts /\ AdmissionsAreOwed /\ TokenIsDue
    /\ WindowIsBounded /\ WaitIsShort

\* Debts under the steps that are no run of the script.

LEMMA TickDebt ==
    ASSUME TypeOK, BucketsOutliveDebts, Tick, NEW c \in Clients
    PROVE  DebtOf(c)' = IF DebtOf(c) = 0 THEN 0 ELSE DebtOf(c) - 1
<1>1. /\ clock \in Nat /\ clock' = clock + 1 /\ bucket' = bucket
      /\ bucket[c] \in Bucket \/ bucket[c] = NoBucket
  BY DEF TypeOK, Tick
<1>2. CASE bucket[c] = NoBucket
  BY <1>1, <1>2 DEF DebtOf, Live, NoBucket
<1>3. CASE bucket[c] \in Bucket /\ bucket[c] # NoBucket
  <2> DEFINE v == bucket[c].updated_at + (Capacity - bucket[c].tokens) * RefillInterval
             e == bucket[c].expires
  <2>1. /\ v \in Nat /\ e \in Nat /\ v <= e
        /\ bucket[c].updated_at \in Nat /\ bucket[c].tokens \in Nat
    BY <1>3 DEF BucketsOutliveDebts, Bucket
  <2>2. DebtOf(c) = IF Live(c) THEN Max2(0, v - clock) ELSE 0
    BY <1>1, <2>1 DEF DebtOf, Max2
  <2>3. DebtOf(c)' = IF Live(c)' THEN Max2(0, v - clock') ELSE 0
    BY <1>1, <2>1 DEF DebtOf, Max2
  <2>4. (Live(c) <=> clock <= e) /\ (Live(c)' <=> clock' <= e)
    BY <1>1 DEF Live
  <2> HIDE DEF v, e
  <2> QED
    BY <1>1, <2>1, <2>2, <2>3, <2>4 DEF Max2
<1> QED
  BY <1>1, <1>2, <1>3

LEMMA SetBackDebt ==
    ASSUME TypeOK, BucketsOutliveDebts, NEW d \in 1 .. MaxSetBack, SetBack(d),
           NEW c \in Clients
    PROVE  DebtOf(c) <= DebtOf(c)' /\ DebtOf(c)' <= DebtOf(c) + d /\ DebtOf(c)' \in Nat
<1>1. /\ clock \in Nat /\ d <= clock /\ clock' = clock - d /\ bucket' = bucket
      /\ bucket[c] \in Bucket \/ bucket[c] = NoBucket
  BY DEF TypeOK, SetBack
<1>2. CASE bucket[c] = NoBucket
  BY <1>1, <1>2 DEF DebtOf, Live, NoBucket
<1>3. CASE bucket[c] \in Bucket /\ bucket[c] # NoBucket
  <2> DEFINE v == bucket[c].updated_at + (Capacity - bucket[c].tokens) * RefillInterval
             e == bucket[c].expires
  <2>1. /\ v \in Nat /\ e \in Nat /\ v <= e
        /\ bucket[c].updated_at \in Nat /\ bucket[c].tokens \in Nat
    BY <1>3 DEF BucketsOutliveDebts, Bucket
  <2>2. DebtOf(c) = IF Live(c) THEN Max2(0, v - clock) ELSE 0
    BY <1>1, <2>1 DEF DebtOf, Max2
  <2>3. DebtOf(c)' = IF Live(c)' THEN Max2(0, v - clock') ELSE 0
    BY <1>1, <2>1 DEF DebtOf, Max2
  <2>4. (Live(c) <=> clock <= e) /\ (Live(c)' <=> clock' <= e)
    BY <1>1 DEF Live
  <2> HIDE DEF v, e
  <2> QED
    BY <1>1, <2>1, <2>2, <2>3, <2>4 DEF Max2
<1> QED
  BY <1>1, <1>2, <1>3

LEMMA ExpireDebt ==
    ASSUME TypeOK, NEW c \in Clients, Expire(c), NEW e \in Clients
    PROVE  DebtOf(e)' = DebtOf(e)
<1>1. clock \in Nat /\ clock' = clock /\ bucket' = [bucket EXCEPT ![c] = NoBucket]
  BY DEF TypeOK, Expire
<1>2. CASE e = c
  BY <1>1, <1>2 DEF DebtOf, Live, NoBucket, Expire, TypeOK
<1>3. CASE e # c
  BY <1>1, <1>3 DEF DebtOf, Live, TypeOK
<1> QED
  BY <1>2, <1>3

LEMMA RetryFacts ==
    ASSUME TypeOK, NEW c \in Clients, ~Allowed(c)
    PROVE  LET wait == Second * RetryAfterSeconds(RetryAfter(c))
           IN  /\ wait \in Nat
               /\ Refilled(c).updated_at + RefillInterval <= clock + wait
               /\ wait <= Second * RetryAfterSeconds(RefillInterval)
<1>1. /\ Refilled(c).updated_at \in Nat /\ Refilled(c).updated_at <= clock
      /\ clock < Refilled(c).updated_at + RefillInterval /\ clock \in Nat
  BY RefilledType, StoredType
<1>2. /\ RetryAfter(c) = Refilled(c).updated_at + RefillInterval - clock
      /\ RetryAfter(c) \in Nat /\ RetryAfter(c) <= RefillInterval
  BY <1>1 DEF RetryAfter, Max2
<1>3. /\ RetryAfterSeconds(RetryAfter(c)) \in Nat
      /\ RetryAfter(c) <= Second * RetryAfterSeconds(RetryAfter(c))
      /\ Second * RetryAfterSeconds(RetryAfter(c)) <= Second * RetryAfterSeconds(RefillInterval)
  BY <1>2, Ceiling DEF RetryAfterSeconds
<1> QED
  BY <1>1, <1>2, <1>3

-----------------------------------------------------------------------------
\* The invariant holds.

LEMMA InitInv == Init => RateInv
<1> SUFFICES ASSUME Init PROVE RateInv
  OBVIOUS
<1>1. TypeOK
  BY DEF Init, TypeOK
<1>2. \A c \in Clients : admitted[c] = <<>> /\ told[c] = 0 /\ bucket[c] = NoBucket
  BY DEF Init
<1>3. BucketsOutliveDebts /\ AdmissionsAreOwed /\ TokenIsDue /\ WindowIsBounded
  BY <1>2 DEF BucketsOutliveDebts, AdmissionsAreOwed, TokenIsDue, WindowIsBounded
<1>4. WaitIsShort
  <2>1. /\ RetryAfterSeconds(RefillInterval) \in Nat
        /\ Second * RetryAfterSeconds(RefillInterval) \in Nat
    BY Ceiling DEF RetryAfterSeconds
  <2>2. clock = 0
    BY DEF Init
  <2> DEFINE most == Second * RetryAfterSeconds(RefillInterval)
  <2>3. 0 <= clock + most
    BY <2>1, <2>2
  <2> QED
    BY <1>2, <2>3 DEF WaitIsShort
<1> QED
  BY <1>1, <1>3, <1>4 DEF RateInv

LEMMA NextTypeOK == ASSUME TypeOK, Next PROVE TypeOK'
<1>1. ASSUME NEW c \in Clients, Ask(c) PROVE TypeOK'
  BY <1>1 DEF TypeOK, Ask, Answer, history
<1>2. ASSUME NEW c \in Clients, Admit(c) PROVE TypeOK'
  <2>1. bucket' \in [Clients -> Bucket \cup {NoBucket}]
    BY <1>2, RunType DEF Admit
  <2>2. admitted' \in [Clients -> Seq(Nat)]
    BY <1>2 DEF TypeOK, Admit
  <2> QED
    BY <1>2, <2>1, <2>2 DEF TypeOK, Admit, Answer
<1>3. ASSUME NEW c \in Clients, Refuse(c) PROVE TypeOK'
  <2>1. bucket' \in [Clients -> Bucket \cup {NoBucket}]
    BY <1>3, RunType DEF Refuse
  <2>2. clock + Second * RetryAfterSeconds(RetryAfter(c)) \in Nat
    BY <1>3, RetryFacts, StoredType DEF Refuse
  <2> QED
    BY <1>3, <2>1, <2>2 DEF TypeOK, Refuse, Answer
<1>4. ASSUME NEW c \in Clients, StoreFails(c) PROVE TypeOK'
  <2>1. bucket' \in [Clients -> Bucket \cup {NoBucket}]
    BY <1>4, RunType DEF StoreFails, TypeOK
  <2>2. told' \in [Clients -> Nat]
    <3>1. told' = told \/ told' = [told EXCEPT ![c] = 0]
      BY <1>4 DEF StoreFails
    <3> QED
      BY <3>1 DEF TypeOK
  <2> QED
    BY <1>4, <2>1, <2>2 DEF TypeOK, StoreFails, Answer
<1>5. ASSUME NEW c \in Clients, Expire(c) PROVE TypeOK'
  BY <1>5 DEF TypeOK, Expire, history
<1>6. ASSUME Tick PROVE TypeOK'
  BY <1>6 DEF TypeOK, Tick, Max2
<1>7. ASSUME NEW d \in 1 .. MaxSetBack, SetBack(d) PROVE TypeOK'
  BY <1>7 DEF TypeOK, SetBack
<1> QED
  BY <1>1, <1>2, <1>3, <1>4, <1>5, <1>6, <1>7 DEF Next

LEMMA NextBuckets == ASSUME RateInv, Next PROVE BucketsOutliveDebts'
<1> USE DEF RateInv
<1>1. ASSUME NEW c \in Clients, RunScript(c), UNCHANGED <<clock, latest>>
      PROVE  BucketsOutliveDebts'
  <2>1. clock <= latest /\ clock \in Nat /\ latest \in Nat
    BY DEF TypeOK
  <2>2. Refilled(c).updated_at \in Nat
    BY RefilledType
  <2> QED
    BY <1>1, <2>1, <2>2, RunType DEF BucketsOutliveDebts
<1>2. ASSUME UNCHANGED <<bucket, latest>> PROVE BucketsOutliveDebts'
  BY <1>2 DEF BucketsOutliveDebts
<1>3. ASSUME NEW c \in Clients, Expire(c) PROVE BucketsOutliveDebts'
  BY <1>3 DEF BucketsOutliveDebts, Expire, TypeOK, history
<1>4. ASSUME Tick PROVE BucketsOutliveDebts'
  <2>1. latest <= latest' /\ bucket' = bucket
    BY <1>4 DEF Tick, Max2, TypeOK
  <2>2. \A c \in Clients : bucket[c] # NoBucket => bucket[c].updated_at \in Nat
    BY DEF TypeOK, Bucket
  <2>3. latest \in Nat /\ latest' \in Nat
    BY <1>4, NextTypeOK DEF TypeOK, Next
  <2> QED
    BY <2>1, <2>2, <2>3 DEF BucketsOutliveDebts
<1> QED
  BY <1>1, <1>2, <1>3, <1>4 DEF Next, Ask, Admit, Refuse, StoreFails, SetBack, history

LEMMA NextTokens == ASSUME RateInv, Next PROVE TokenIsDue'
<1> USE DEF RateInv
<1>1. ASSUME NEW c \in Clients, RunScript(c), UNCHANGED clock,
             told'[c] = 0 \/ (/\ ~Allowed(c)
                             /\ told'[c] = clock + Second * RetryAfterSeconds(RetryAfter(c))),
             \A e \in Clients : e # c => told'[e] = told[e]
      PROVE  TokenIsDue'
  BY <1>1, RunType, RetryFacts DEF TokenIsDue
<1>2. ASSUME NEW c \in Clients, Admit(c) PROVE TokenIsDue'
  BY <1>1, <1>2 DEF Admit, TypeOK
<1>3. ASSUME NEW c \in Clients, Refuse(c) PROVE TokenIsDue'
  BY <1>1, <1>3 DEF Refuse, TypeOK
<1>4. ASSUME NEW c \in Clients, StoreFails(c) PROVE TokenIsDue'
  <2>1. CASE UNCHANGED <<bucket, told>>
    BY <2>1 DEF TokenIsDue
  <2>2. CASE RunScript(c) /\ told' = [told EXCEPT ![c] = 0]
    BY <1>1, <1>4, <2>2 DEF StoreFails, TypeOK
  <2> QED
    BY <1>4, <2>1, <2>2 DEF StoreFails
<1>5. ASSUME NEW c \in Clients, Expire(c) PROVE TokenIsDue'
  BY <1>5 DEF TokenIsDue, Expire, TypeOK, history
<1>6. ASSUME NEW d \in 1 .. MaxSetBack, SetBack(d) PROVE TokenIsDue'
  BY <1>6 DEF TokenIsDue, SetBack
<1>7. ASSUME UNCHANGED <<bucket, told>> PROVE TokenIsDue'
  BY <1>7 DEF TokenIsDue
<1> QED
  BY <1>2, <1>3, <1>4, <1>5, <1>6, <1>7 DEF Next, Ask, Tick, history

LEMMA NextWait == ASSUME RateInv, Next PROVE WaitIsShort'
<1> USE DEF RateInv
<1> DEFINE most == Second * RetryAfterSeconds(RefillInterval)
<1>1. most \in Nat
  BY Ceiling DEF RetryAfterSeconds
<1>2. /\ \A e \in Clients : told[e] \in Nat /\ told[e] <= clock + most
      /\ clock \in Nat
  BY DEF WaitIsShort, TypeOK
<1> SUFFICES ASSUME NEW e \in Clients PROVE told'[e] <= clock' + most
  BY DEF WaitIsShort
<1> HIDE DEF most
<1>3. CASE told'[e] = told[e] /\ clock' \in Nat /\ clock <= clock'
  BY <1>1, <1>2, <1>3
<1>4. CASE told'[e] = 0 /\ clock' \in Nat
  <2>1. \A n \in Nat : 0 <= n + most
    BY <1>1
  <2> QED
    BY <1>4, <2>1
<1>5. ASSUME NEW c \in Clients, Ask(c) PROVE told'[e] <= clock' + most
  BY <1>2, <1>3, <1>5 DEF Ask, history
<1>6. ASSUME NEW c \in Clients, Admit(c) PROVE told'[e] <= clock' + most
  BY <1>2, <1>3, <1>4, <1>6 DEF Admit, TypeOK
<1>7. ASSUME NEW c \in Clients, Refuse(c) PROVE told'[e] <= clock' + most
  <2>1. CASE e = c
    <3>1. told'[c] = clock + Second * RetryAfterSeconds(RetryAfter(c)) /\ clock' = clock
      BY <1>7 DEF Refuse, TypeOK
    <3>2. /\ Second * RetryAfterSeconds(RetryAfter(c)) \in Nat
          /\ Second * RetryAfterSeconds(RetryAfter(c)) <= most
      BY <1>7, RetryFacts DEF Refuse, most
    <3> QED
      BY <1>1, <1>2, <2>1, <3>1, <3>2
  <2>2. CASE e # c
    BY <1>2, <1>3, <1>7, <2>2 DEF Refuse, TypeOK
  <2> QED
    BY <2>1, <2>2
<1>8. ASSUME NEW c \in Clients, StoreFails(c) PROVE told'[e] <= clock' + most
  <2>1. told' = told \/ told' = [told EXCEPT ![c] = 0]
    BY <1>8 DEF StoreFails
  <2>2. told'[e] = told[e] \/ told'[e] = 0
    BY <2>1 DEF TypeOK
  <2> QED
    BY <1>2, <1>3, <1>4, <1>8, <2>2 DEF StoreFails
<1>9. ASSUME NEW c \in Clients, Expire(c) PROVE told'[e] <= clock' + most
  BY <1>2, <1>3, <1>9 DEF Expire, history
<1>10. ASSUME Tick PROVE told'[e] <= clock' + most
  BY <1>2, <1>3, <1>10 DEF Tick
<1>11. ASSUME NEW d \in 1 .. MaxSetBack, SetBack(d) PROVE told'[e] <= clock' + most
  BY <1>2, <1>4, <1>11 DEF SetBack
<1> QED
  BY <1>5, <1>6, <1>7, <1>8, <1>9, <1>10, <1>11 DEF Next

\* What is owed for admissions stays owed when the debt grows, ...
LEMMA MoreIsOwed ==
    ASSUME NEW p \in Nat, NEW a \in Nat, NEW now \in Nat, NEW debt \in Nat,
           NEW more \in Nat, NEW debt2 \in Nat, debt + more <= debt2, p <= debt + now - a
    PROVE  p + more <= debt2 + now - a
OBVIOUS

\* ... and when it shrinks with time.
LEMMA LessIsOwed ==
    ASSUME NEW p \in Nat, NEW a \in Nat, NEW now \in Nat, NEW debt \in Nat,
           a <= now, p <= debt + now - a
    PROVE  p <= (IF debt = 0 THEN 0 ELSE debt - 1) + (now + 1) - a /\ a <= now + 1
OBVIOUS

\* A run of the script lowers no debt, and does not know what was admitted.
LEMMA RunOwed ==
    ASSUME RateInv, NEW c \in Clients, RunScript(c), UNCHANGED clock, NEW e \in Clients,
           admitted[e] # <<>>
    PROVE  /\ bucket'[e].updated_at <= clock
           /\ DebtOf(e) <= DebtOf(e)' /\ DebtOf(e)' \in Nat
           /\ e = c /\ Allowed(c) => DebtOf(e)' = DebtOf(e) + RefillInterval
<1> USE DEF RateInv
<1>1. bucket[e].updated_at <= clock
  BY DEF AdmissionsAreOwed
<1>2. DebtOf(e) \in Nat /\ Clamped(e) = DebtOf(e)
  BY <1>1, ClampedIsDebt
<1>3. CASE e = c
  BY <1>2, <1>3, RunType, RunDebt
<1>4. CASE e # c
  BY <1>1, <1>2, <1>4, RunType, RunDebt
<1> QED
  BY <1>3, <1>4

LEMMA NextOwed == ASSUME RateInv, Next PROVE AdmissionsAreOwed'
<1> USE DEF RateInv
<1>1. /\ clock \in Nat
      /\ \A e \in Clients : /\ admitted[e] \in Seq(Nat)
                            /\ DebtOf(e) \in Nat
  BY ClampedIsDebt DEF TypeOK
<1>2. \A e \in Clients :
        /\ admitted[e] # <<>> => bucket[e].updated_at <= clock
        /\ \A i \in 1 .. Len(admitted[e]) :
              /\ admitted[e][i] <= clock
              /\ (Len(admitted[e]) - i + 1) * RefillInterval
                   <= DebtOf(e) + clock - admitted[e][i]
  BY DEF AdmissionsAreOwed
<1>3. ASSUME UNCHANGED <<clock, admitted>>,
             \A e \in Clients : admitted[e] # <<>> =>
                /\ bucket'[e].updated_at <= clock
                /\ DebtOf(e)' \in Nat /\ DebtOf(e) <= DebtOf(e)'
      PROVE  AdmissionsAreOwed'
  <2> SUFFICES ASSUME NEW e \in Clients, admitted[e] # <<>>, NEW i \in 1 .. Len(admitted[e])
               PROVE  (Len(admitted[e]) - i + 1) * RefillInterval
                        <= DebtOf(e)' + clock - admitted[e][i]
    BY <1>1, <1>2, <1>3 DEF AdmissionsAreOwed
  <2> DEFINE p == (Len(admitted[e]) - i + 1) * RefillInterval
  <2>1. admitted[e][i] \in Nat /\ Len(admitted[e]) \in Nat
    BY <1>1
  <2>2. p \in Nat
    BY <2>1
  <2>3. p <= DebtOf(e) + clock - admitted[e][i]
    BY <1>2
  <2>4. DebtOf(e) \in Nat /\ DebtOf(e)' \in Nat /\ DebtOf(e) + 0 <= DebtOf(e)'
    BY <1>1, <1>3
  <2> HIDE DEF p
  <2>5. p + 0 <= DebtOf(e)' + clock - admitted[e][i]
    BY <1>1, <2>1, <2>2, <2>3, <2>4, MoreIsOwed
  <2>6. p <= DebtOf(e)' + clock - admitted[e][i]
    BY <2>2, <2>5
  <2> QED
    BY <2>6 DEF p
<1>4. ASSUME NEW c \in Clients, Admit(c) PROVE AdmissionsAreOwed'
  <2>1. /\ admitted' = [admitted EXCEPT ![c] = Append(@, clock)]
        /\ clock' = clock /\ RunScript(c) /\ Allowed(c)
    BY <1>4 DEF Admit
  <2>2. ASSUME NEW e \in Clients, e # c
        PROVE  /\ admitted'[e] = admitted[e]
               /\ bucket'[e] = bucket[e] /\ DebtOf(e)' = DebtOf(e)
    BY <2>1, <2>2, RunType, RunDebt DEF TypeOK
  <2>3. admitted'[c] = Append(admitted[c], clock)
    BY <2>1 DEF TypeOK
  <2>4. /\ bucket'[c].updated_at <= clock
        /\ DebtOf(c)' \in Nat /\ RefillInterval <= DebtOf(c)'
        /\ admitted[c] # <<>> => DebtOf(c)' = DebtOf(c) + RefillInterval
    <3>1. DebtOf(c)' = Clamped(c) + RefillInterval /\ Clamped(c) \in Nat
      BY <2>1, RunDebt, ClampedBound
    <3>2. bucket'[c].updated_at <= clock
      BY <2>1, RunType
    <3>3. admitted[c] # <<>> => DebtOf(c)' = DebtOf(c) + RefillInterval
      BY <2>1, RunOwed
    <3> QED
      BY <3>1, <3>2, <3>3
  <2>5. ASSUME NEW i \in 1 .. Len(admitted'[c])
        PROVE  /\ admitted'[c][i] <= clock
               /\ (Len(admitted'[c]) - i + 1) * RefillInterval
                    <= DebtOf(c)' + clock - admitted'[c][i]
    <3>1. Len(admitted'[c]) = Len(admitted[c]) + 1 /\ Len(admitted[c]) \in Nat
      BY <1>1, <2>3
    <3>2. CASE i \in 1 .. Len(admitted[c])
      <4>1. /\ admitted'[c][i] = admitted[c][i] /\ admitted[c][i] \in Nat
            /\ admitted[c] # <<>>
        BY <1>1, <2>3, <3>2
      <4>2. (Len(admitted[c]) - i + 1) * RefillInterval
              <= DebtOf(c) + clock - admitted[c][i]
        BY <1>2, <3>2
      <4> DEFINE p == (Len(admitted[c]) - i + 1) * RefillInterval
      <4>3. (Len(admitted'[c]) - i + 1) * RefillInterval = p + RefillInterval
        BY <3>1, <3>2
      <4>4. p \in Nat
        BY <3>1, <3>2
      <4>5. DebtOf(c)' = DebtOf(c) + RefillInterval /\ DebtOf(c) \in Nat /\ DebtOf(c)' \in Nat
        BY <1>1, <2>4, <4>1
      <4>6. admitted[c][i] <= clock
        BY <1>2, <3>2
      <4> HIDE DEF p
      <4>7. DebtOf(c) + RefillInterval <= DebtOf(c)'
        BY <4>5
      <4>8. p <= DebtOf(c) + clock - admitted[c][i]
        BY <4>2 DEF p
      <4>9. p + RefillInterval <= DebtOf(c)' + clock - admitted[c][i]
        BY <1>1, <4>1, <4>4, <4>5, <4>7, <4>8, MoreIsOwed
      <4> QED
        BY <4>1, <4>3, <4>6, <4>9
    <3>3. CASE i = Len(admitted[c]) + 1
      BY <1>1, <2>3, <2>4, <3>1, <3>3
    <3> QED
      BY <3>1, <3>2, <3>3
  <2> QED
    BY <1>2, <2>1, <2>2, <2>4, <2>5 DEF AdmissionsAreOwed
<1>5. ASSUME NEW c \in Clients, RunScript(c), UNCHANGED <<clock, admitted>>
      PROVE  AdmissionsAreOwed'
  BY <1>3, <1>5, RunOwed
<1>6. ASSUME UNCHANGED <<clock, admitted, bucket>> PROVE AdmissionsAreOwed'
  <2>1. \A e \in Clients : DebtOf(e)' = DebtOf(e)
    BY <1>6 DEF DebtOf, Live
  <2> QED
    BY <1>1, <1>2, <1>3, <1>6, <2>1
<1>7. ASSUME NEW c \in Clients, Expire(c) PROVE AdmissionsAreOwed'
  <2>1. \A e \in Clients : DebtOf(e)' = DebtOf(e)
    BY <1>7, ExpireDebt
  <2>2. \A e \in Clients : bucket'[e] = bucket[e] \/ bucket'[e] = NoBucket
    BY <1>7 DEF Expire, TypeOK
  <2>3. \A e \in Clients : admitted[e] # <<>> => bucket'[e].updated_at <= clock
    BY <1>1, <1>2, <2>2 DEF NoBucket
  <2> QED
    BY <1>1, <1>3, <1>7, <2>1, <2>3 DEF Expire, history
<1>8. ASSUME Tick PROVE AdmissionsAreOwed'
  <2>1. clock' = clock + 1 /\ admitted' = admitted /\ bucket' = bucket
    BY <1>8 DEF Tick
  <2>2. \A e \in Clients : DebtOf(e)' = IF DebtOf(e) = 0 THEN 0 ELSE DebtOf(e) - 1
    BY <1>8, TickDebt
  <2>3. \A e \in Clients : bucket[e].updated_at \in Nat
    BY DEF TypeOK, Bucket, NoBucket
  <2> SUFFICES ASSUME NEW e \in Clients
               PROVE  /\ admitted[e] # <<>> => bucket[e].updated_at <= clock'
                      /\ \A i \in 1 .. Len(admitted[e]) :
                           /\ admitted[e][i] <= clock'
                           /\ (Len(admitted[e]) - i + 1) * RefillInterval
                                <= DebtOf(e)' + clock' - admitted[e][i]
    BY <2>1 DEF AdmissionsAreOwed
  <2>4. admitted[e] # <<>> => bucket[e].updated_at <= clock'
    BY <1>1, <1>2, <2>1, <2>3
  <2>5. ASSUME NEW i \in 1 .. Len(admitted[e])
        PROVE  /\ admitted[e][i] <= clock'
               /\ (Len(admitted[e]) - i + 1) * RefillInterval
                    <= DebtOf(e)' + clock' - admitted[e][i]
    <3>1. admitted[e][i] \in Nat /\ Len(admitted[e]) \in Nat
      BY <1>1
    <3> DEFINE p == (Len(admitted[e]) - i + 1) * RefillInterval
    <3>2. p \in Nat
      BY <3>1
    <3>3. admitted[e][i] <= clock /\ p <= DebtOf(e) + clock - admitted[e][i]
      BY <1>2
    <3> HIDE DEF p
    <3>4. p <= DebtOf(e)' + clock' - admitted[e][i] /\ admitted[e][i] <= clock'
      BY <1>1, <2>1, <2>2, <3>1, <3>2, <3>3, LessIsOwed
    <3> QED
      BY <3>4 DEF p
  <2> QED
    BY <2>4, <2>5
<1>9. ASSUME NEW d \in 1 .. MaxSetBack, SetBack(d) PROVE AdmissionsAreOwed'
  BY <1>9 DEF SetBack, AdmissionsAreOwed
<1>10. ASSUME NEW c \in Clients, StoreFails(c) PROVE AdmissionsAreOwed'
  BY <1>5, <1>6, <1>10 DEF StoreFails
<1>11. ASSUME NEW c \in Clients, Refuse(c) PROVE AdmissionsAreOwed'
  BY <1>5, <1>11 DEF Refuse
<1>12. ASSUME NEW c \in Clients, Ask(c) PROVE AdmissionsAreOwed'
  BY <1>6, <1>12 DEF Ask, history
<1> QED
  BY <1>4, <1>7, <1>8, <1>9, <1>10, <1>11, <1>12 DEF Next

LEMMA NextWindow == ASSUME RateInv, Next PROVE WindowIsBounded'
<1> USE DEF RateInv
<1>1. ASSUME NEW c \in Clients, Admit(c) PROVE WindowIsBounded'
  <2>1. /\ admitted' = [admitted EXCEPT ![c] = Append(@, clock)]
        /\ clock' = clock /\ clock \in Nat /\ RunScript(c) /\ Allowed(c)
        /\ admitted[c] \in Seq(Nat)
    BY <1>1 DEF Admit, TypeOK
  <2>2. ASSUME NEW e \in Clients, e # c PROVE admitted'[e] = admitted[e]
    BY <2>1, <2>2 DEF TypeOK
  <2>3. /\ admitted'[c] = Append(admitted[c], clock)
        /\ Len(admitted'[c]) = Len(admitted[c]) + 1 /\ Len(admitted[c]) \in Nat
        /\ DOMAIN admitted'[c] = 1 .. Len(admitted[c]) + 1
        /\ DOMAIN admitted[c] = 1 .. Len(admitted[c])
    BY <2>1 DEF TypeOK
  <2>4. DebtOf(c)' \in Nat /\ DebtOf(c)' <= Capacity * RefillInterval
    <3>1. DebtOf(c)' = Clamped(c) + RefillInterval
      BY <2>1, RunDebt
    <3> QED
      BY <2>1, <3>1, ClampedBound
  <2>5. ASSUME NEW i \in 1 .. Len(admitted[c]) + 1, NEW j \in 1 .. Len(admitted[c]) + 1, i <= j
        PROVE  (j - i + 1 - Capacity) * RefillInterval <= admitted'[c][j] - admitted'[c][i]
    <3>1. CASE j <= Len(admitted[c])
      <4>1. admitted'[c][j] = admitted[c][j] /\ admitted'[c][i] = admitted[c][i]
        BY <2>1, <2>3, <2>5, <3>1
      <4>2. i \in DOMAIN admitted[c] /\ j \in DOMAIN admitted[c]
        BY <2>3, <2>5, <3>1
      <4>3. (j - i + 1 - Capacity) * RefillInterval <= admitted[c][j] - admitted[c][i]
        BY <2>5, <4>2 DEF WindowIsBounded
      <4> QED
        BY <4>1, <4>3
    <3>2. CASE j = Len(admitted[c]) + 1
      <4> DEFINE p == (j - i + 1) * RefillInterval
                 limit == Capacity * RefillInterval
                 a == admitted'[c][i]
      <4>1. admitted'[c][j] = clock /\ a \in Nat
        BY <2>1, <2>3, <3>2
      <4>2. p <= DebtOf(c)' + clock' - a
        BY <2>3, <3>2, NextOwed DEF AdmissionsAreOwed
      <4>3. /\ p \in Nat /\ limit \in Nat
            /\ (j - i + 1 - Capacity) * RefillInterval = p - limit
        BY <2>3, <2>5, SMTT(30)
      <4>4. DebtOf(c)' <= limit
        BY <2>4
      <4> HIDE DEF p, limit, a
      <4>5. p - limit <= clock - a
        BY <2>1, <2>4, <4>1, <4>2, <4>3, <4>4
      <4> QED
        BY <4>1, <4>3, <4>5 DEF a
    <3> QED
      BY <2>3, <3>1, <3>2
  <2> QED
    BY <2>2, <2>3, <2>5 DEF WindowIsBounded
<1>2. ASSUME UNCHANGED admitted PROVE WindowIsBounded'
  BY <1>2 DEF WindowIsBounded
<1>3. ASSUME NEW d \in 1 .. MaxSetBack, SetBack(d) PROVE WindowIsBounded'
  BY <1>3 DEF SetBack, WindowIsBounded
<1> QED
  BY <1>1, <1>2, <1>3 DEF Next, Ask, Refuse, StoreFails, Expire, Tick, history

LEMMA StutterInv == ASSUME RateInv, UNCHANGED vars PROVE RateInv'
BY DEF RateInv, vars, history, TypeOK, BucketsOutliveDebts, AdmissionsAreOwed, TokenIsDue,
       WindowIsBounded, WaitIsShort, DebtOf, Live

LEMMA Invariance == Spec => []RateInv
<1>1. RateInv /\ [Next]_vars => RateInv'
  BY NextTypeOK, NextBuckets, NextOwed, NextTokens, NextWindow, NextWait, StutterInv DEF RateInv
<1> QED
  BY InitInv, <1>1, PTL DEF Spec

-----------------------------------------------------------------------------
\* The state keeps its shape; a bucket in Redis holds less than its capacity.
THEOREM Typing == Spec => []TypeOK
BY Invariance, PTL DEF RateInv

\* No window of time admits more than the capacity and what flows in, whatever
\* replies are lost and whenever keys expire (the script's refill, HSET, PEXPIRE).
THEOREM WindowsAreBounded == Spec => []WindowIsBounded
BY Invariance, PTL DEF RateInv

\* Nobody is told to wait longer than for one token (the script's next_refill).
THEOREM WaitsAreShort == Spec => []WaitIsShort
BY Invariance, PTL DEF RateInv

\* Who has waited as told finds a token (the script's next_refill and its
\* rounding in retryAfterSeconds).
THEOREM RetriesAreAdmitted == Spec => []RetryIsAdmitted
<1>1. RateInv => RetryIsAdmitted
  <2> SUFFICES ASSUME RateInv, NEW c \in Clients, told[c] # 0, told[c] <= clock
               PROVE  Allowed(c)
    BY DEF RetryIsAdmitted
  <2> USE DEF RateInv
  <2>1. CASE bucket[c] = NoBucket
    <3>1. DebtOf(c) = 0 /\ Clamped(c) = 0
      BY <2>1, ClampedIsDebt
    <3> QED
      BY <3>1, ClampedBound, Times
  <2>2. CASE bucket[c] # NoBucket
    <3>1. bucket[c].updated_at + RefillInterval <= told[c]
      BY <2>2 DEF TokenIsDue
    <3>2. /\ bucket[c].updated_at \in Nat /\ clock \in Nat /\ told[c] \in Nat
          /\ bucket[c].tokens \in 0 .. Capacity - 1
      BY <2>2 DEF TypeOK, Bucket
    <3>3. CASE Live(c)
      <4>1. /\ Since(c) = bucket[c].updated_at
            /\ Stored(c).tokens = bucket[c].tokens
        BY <3>1, <3>2, <3>3 DEF Since, Stored, Min2
      <4>2. Refill(c) \in Nat /\ Refill(c) > 0
        <5>1. clock - Since(c) \in Nat /\ clock - Since(c) >= RefillInterval
          BY <3>1, <3>2, <4>1
        <5> QED
          BY <5>1, Division DEF Refill
      <4> QED
        BY <3>2, <4>1, <4>2 DEF Allowed, Refilled, Min2
    <3>4. CASE ~Live(c)
      <4>1. Stored(c).tokens = Capacity /\ Since(c) = clock
        BY <3>2, <3>4 DEF Stored, Since, Min2
      <4> QED
        BY <3>2, <4>1, RefilledType, Division DEF Allowed, Refilled, Refill, Min2
    <3> QED
      BY <3>3, <3>4
  <2> QED
    BY <2>1, <2>2
<1> QED
  BY <1>1, Invariance, PTL

-----------------------------------------------------------------------------
\* The refinement: each step is a step of RateMeter or none.

debts == [c \in Clients |-> DebtOf(c)]

LEMMA MeterInit == Init => Meter!Init
<1> SUFFICES ASSUME Init PROVE Meter!Init
  OBVIOUS
<1>1. TypeOK
  BY InitInv DEF RateInv
<1>2. \A c \in Clients : DebtOf(c) = 0
  BY <1>1, ClampedIsDebt DEF Init
<1> QED
  BY <1>2 DEF Init, Meter!Init

LEMMA TickIsTick == ASSUME RateInv, Tick PROVE Meter!Tick
<1>1. \A c \in Clients : DebtOf(c)' = IF DebtOf(c) = 0 THEN 0 ELSE DebtOf(c) - 1
  BY TickDebt DEF RateInv
<1>2. latest' = IF clock < latest THEN latest ELSE clock'
  BY DEF RateInv, TypeOK, Tick, Max2
<1> QED
  BY <1>1, <1>2 DEF Tick, Meter!Tick

LEMMA SetBackIsSetBack ==
    ASSUME RateInv, NEW d \in 1 .. MaxSetBack, SetBack(d)
    PROVE  d \in 1 .. clock /\ Meter!SetBack(d)
<1>1. \A c \in Clients :
        DebtOf(c) <= DebtOf(c)' /\ DebtOf(c)' <= DebtOf(c) + d /\ DebtOf(c)' \in Nat
  BY SetBackDebt DEF RateInv
<1>2. d \in 1 .. clock
  BY DEF RateInv, TypeOK, SetBack
<1> QED
  BY <1>1, <1>2 DEF SetBack, Meter!SetBack

\* What the script decides, it decides on a debt the meter may take.
LEMMA RunIsOwed ==
    ASSUME RateInv, NEW c \in Clients, RunScript(c), UNCHANGED clock
    PROVE  /\ Clamped(c) \in Meter!Owed(c)
           /\ Allowed(c) => /\ Clamped(c) + RefillInterval <= Meter!Limit
                            /\ Meter!Owes(c, Clamped(c) + RefillInterval)
           /\ ~Allowed(c) => /\ Clamped(c) + RefillInterval > Meter!Limit
                             /\ Meter!Owes(c, Clamped(c))
<1> USE DEF RateInv
<1>1. /\ Clamped(c) \in Nat /\ Clamped(c) <= Meter!Limit
      /\ Allowed(c) => Clamped(c) + RefillInterval <= Meter!Limit
      /\ ~Allowed(c) => Clamped(c) + RefillInterval > Meter!Limit
  BY ClampedBound DEF Meter!Limit
<1>2. DebtOf(c) \in Nat /\ Clamped(c) <= DebtOf(c)
  BY ClampedIsDebt
<1>3. Clamped(c) = DebtOf(c) \/ clock < latest
  <2>1. CASE bucket[c] = NoBucket
    BY <2>1, ClampedIsDebt
  <2>2. CASE bucket[c] # NoBucket
    <3>1. /\ bucket[c].updated_at <= latest /\ bucket[c].updated_at \in Nat
          /\ clock \in Nat /\ latest \in Nat
      BY <2>2 DEF BucketsOutliveDebts, TypeOK, Bucket
    <3>2. bucket[c].updated_at <= clock \/ clock < latest
      BY <3>1
    <3> QED
      BY <3>2, ClampedIsDebt
  <2> QED
    BY <2>1, <2>2
<1>4. Clamped(c) \in Meter!Owed(c)
  <2>1. Clamped(c) \in 0 .. DebtOf(c)
    BY <1>1, <1>2
  <2> QED
    BY <1>1, <1>3, <2>1 DEF Meter!Owed
<1>5. debts' = [debts EXCEPT ![c] = IF Allowed(c) THEN Clamped(c) + RefillInterval
                                    ELSE Clamped(c)]
  BY RunDebt DEF debts
<1> QED
  BY <1>1, <1>4, <1>5 DEF Meter!Owes, debts

LEMMA SameDebts == ASSUME UNCHANGED <<clock, bucket>> PROVE debts' = debts
BY DEF debts, DebtOf, Live

LEMMA ClientSteps ==
    ASSUME RateInv, NEW c \in Clients
    PROVE  /\ Ask(c) => Meter!Ask(c)
           /\ Admit(c) => Meter!Admit(c)
           /\ Refuse(c) => Meter!Refuse(c)
           /\ StoreFails(c) => Meter!Fail(c)
           /\ Expire(c) => UNCHANGED Meter!vars
<1>1. ASSUME Ask(c) PROVE Meter!Ask(c)
  BY <1>1, SameDebts DEF Ask, Answer, Meter!Ask, history, debts
<1>2. ASSUME Admit(c) PROVE Meter!Admit(c)
  <2>1. RunScript(c) /\ UNCHANGED clock /\ Allowed(c)
    BY <1>2 DEF Admit
  <2> QED
    BY <1>2, <2>1, RunIsOwed DEF Admit, Answer, Meter!Admit
<1>3. ASSUME Refuse(c) PROVE Meter!Refuse(c)
  <2>1. RunScript(c) /\ UNCHANGED clock /\ ~Allowed(c)
    BY <1>3 DEF Refuse
  <2> QED
    BY <1>3, <2>1, RunIsOwed DEF Refuse, Answer, Meter!Refuse
<1>4. ASSUME StoreFails(c) PROVE Meter!Fail(c)
  <2>1. CASE UNCHANGED bucket
    BY <1>4, <2>1, SameDebts DEF StoreFails, Answer, Meter!Fail, debts
  <2>2. CASE RunScript(c)
    BY <1>4, <2>2, RunIsOwed DEF StoreFails, Answer, Meter!Fail
  <2> QED
    BY <1>4, <2>1, <2>2 DEF StoreFails
<1>5. ASSUME Expire(c) PROVE UNCHANGED Meter!vars
  <2>1. debts' = debts
    BY <1>5, ExpireDebt DEF RateInv, debts
  <2> QED
    BY <1>5, <2>1 DEF Expire, history, Meter!vars, debts
<1> QED
  BY <1>1, <1>2, <1>3, <1>4, <1>5

\* The limiter is a meter of debts: tokens, whole intervals, expiry and the clamp
\* of the clock change nothing a client could tell from it (rateLimitScript).
THEOREM LimiterImplementsMeter == Spec => MeterSpec
<1>1. RateInv /\ [Next]_vars => [Meter!Next]_Meter!vars
  <2> SUFFICES ASSUME RateInv, [Next]_vars PROVE [Meter!Next]_Meter!vars
    OBVIOUS
  <2>1. CASE Tick
    BY <2>1, TickIsTick DEF Meter!Next
  <2>2. ASSUME NEW d \in 1 .. MaxSetBack, SetBack(d) PROVE [Meter!Next]_Meter!vars
    BY <2>2, SetBackIsSetBack DEF Meter!Next
  <2>3. ASSUME NEW c \in Clients,
               Ask(c) \/ Admit(c) \/ Refuse(c) \/ StoreFails(c) \/ Expire(c)
        PROVE  [Meter!Next]_Meter!vars
    BY <2>3, ClientSteps DEF Meter!Next
  <2>4. CASE UNCHANGED vars
    BY <2>4, SameDebts DEF vars, history, Meter!vars, debts
  <2> QED
    BY <2>1, <2>2, <2>3, <2>4 DEF Next
<1> QED
  BY <1>1, MeterInit, Invariance, PTL DEF Spec, MeterSpec, Meter!Spec
=============================================================================
