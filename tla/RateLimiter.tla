----------------------------- MODULE RateLimiter -----------------------------
(***************************************************************************)
(* The rate limiter of the gateway: rateLimitScript and the middleware     *)
(* around it in internal/gateway/rate_limiter.go.  A client has a bucket of*)
(* tokens in Redis, filled by whole refill intervals of Redis's own clock. *)
(* The script is atomic; the request that calls it waits for its reply,    *)
(* which may be lost.  The bucket of a client that stays away expires, and *)
(* the clock may be set back.  OPTIONS requests do not come here.          *)
(*                                                                         *)
(* A definition commented "Bug:" is not part of the specification.  It is  *)
(* the next one with a plausible mistake, which a property must reject.    *)
(***************************************************************************)
EXTENDS Integers, Sequences

CONSTANTS Clients,          \* as clientIdentifier tells them apart
          Capacity,         \* bucket_size
          RefillInterval,   \* in ticks of the clock; the code's are milliseconds
          Second,           \* ticks in a second: Retry-After has whole seconds
          MaxTime,          \* bounds the clock
          MaxSetBack        \* bounds how far the clock is set back, 0 for never

ASSUME RateAssumption ==
    /\ Capacity \in Nat \ {0} /\ RefillInterval \in Nat \ {0} /\ Second \in Nat \ {0}
    /\ MaxTime \in Nat /\ MaxSetBack \in Nat

VARIABLES clock,      \* what TIME returns
          bucket,     \* client -> its hash in Redis, or NoBucket
          answer,     \* client -> what has become of its last request
          latest,     \* history: the latest time the clock has shown
          admitted,   \* history: client -> when it was admitted since the last set-back
          told        \* history: client -> the time its last refusal told it to wait
                      \* for, 0 for none or when the promise no longer counts

history == <<latest, admitted, told>>
vars == <<clock, bucket, answer, history>>

NoBucket == [tokens |-> Capacity, updated_at |-> 0, expires |-> -1]

Bucket == [tokens : 0 .. Capacity - 1, updated_at : Nat, expires : Nat]

\* One per module: the shape of the state.  A bucket in Redis is never full.
TypeOK ==
    /\ clock \in Nat /\ latest \in Nat /\ clock <= latest
    /\ bucket \in [Clients -> Bucket \cup {NoBucket}]
    /\ answer \in [Clients -> {"none", "asked", "admitted", "refused", "unavailable"}]
    /\ admitted \in [Clients -> Seq(Nat)]
    /\ told \in [Clients -> Nat]

Init ==
    /\ clock = 0 /\ latest = 0
    /\ bucket = [c \in Clients |-> NoBucket]
    /\ answer = [c \in Clients |-> "none"]
    /\ admitted = [c \in Clients |-> <<>>]
    /\ told = [c \in Clients |-> 0]

Min2(m, n) == IF m <= n THEN m ELSE n
Max2(m, n) == IF m <= n THEN n ELSE m

-----------------------------------------------------------------------------
\* The script.

\* A key that has expired is not there, deleted or not.
Live(c) == clock <= bucket[c].expires

\* HMGET, and a full bucket for a client without one.
Stored(c) ==
    IF Live(c) THEN [tokens |-> bucket[c].tokens, updated_at |-> bucket[c].updated_at]
               ELSE [tokens |-> Capacity, updated_at |-> clock]

\* Bug: the clock is trusted never to step back.
SinceUnclamped(c) == Stored(c).updated_at

\* When the bucket was filled last, as far as the clock of today can tell.
Since(c) == Min2(Stored(c).updated_at, clock)

\* Whole intervals only.
Refill(c) == (clock - Since(c)) \div RefillInterval

\* Bug: the part of an interval that has passed is forgotten.
RefilledNow(c) ==
    IF Refill(c) <= 0
    THEN [tokens |-> Stored(c).tokens, updated_at |-> Since(c)]
    ELSE [tokens |-> Min2(Capacity, Stored(c).tokens + Refill(c)), updated_at |-> clock]

\* Bug: the bucket overflows.
RefilledOver(c) ==
    IF Refill(c) <= 0
    THEN [tokens |-> Stored(c).tokens, updated_at |-> Since(c)]
    ELSE [tokens |-> Stored(c).tokens + Refill(c),
          updated_at |-> Since(c) + Refill(c) * RefillInterval]

Refilled(c) ==
    IF Refill(c) <= 0
    THEN [tokens |-> Stored(c).tokens, updated_at |-> Since(c)]
    ELSE LET tokens == Min2(Capacity, Stored(c).tokens + Refill(c))
         IN  [tokens |-> tokens,
              updated_at |-> IF tokens = Capacity THEN clock
                             ELSE Since(c) + Refill(c) * RefillInterval]

Allowed(c) == Refilled(c).tokens >= 1

\* Bug: the key expires when the next token is due.
LifetimeOfOneToken == RefillInterval

\* PEXPIRE: the time an empty bucket takes to fill.
Lifetime == Capacity * RefillInterval

\* HSET and PEXPIRE.
RunScript(c) ==
    bucket' = [bucket EXCEPT ![c] =
                 [tokens |-> IF Allowed(c) THEN Refilled(c).tokens - 1 ELSE Refilled(c).tokens,
                  updated_at |-> Refilled(c).updated_at,
                  expires |-> clock + Lifetime]]

\* next_refill - now, for a bucket that is found empty.
RetryAfter(c) == Max2(Refilled(c).updated_at + RefillInterval, clock) - clock

\* Bug: a part of a second is cut off.
RetryAfterSecondsDown(n) == n \div Second

\* A part of a second counts as a whole one.
RetryAfterSeconds(n) == (n + Second - 1) \div Second

-----------------------------------------------------------------------------
Answer(c, a) == answer' = [answer EXCEPT ![c] = a]

\* A request of the client reaches the middleware.
Ask(c) ==
    /\ answer[c] # "asked" /\ Answer(c, "asked")
    /\ UNCHANGED <<clock, bucket, history>>

\* The request is handed on.
Admit(c) ==
    /\ answer[c] = "asked" /\ Allowed(c) /\ Answer(c, "admitted") /\ RunScript(c)
    /\ admitted' = [admitted EXCEPT ![c] = Append(@, clock)]
    /\ told' = [told EXCEPT ![c] = 0]
    /\ UNCHANGED <<clock, latest>>

\* 429, with a Retry-After.
Refuse(c) ==
    /\ answer[c] = "asked" /\ ~Allowed(c) /\ Answer(c, "refused") /\ RunScript(c)
    /\ told' = [told EXCEPT ![c] = clock + Second * RetryAfterSeconds(RetryAfter(c))]
    /\ UNCHANGED <<clock, latest, admitted>>

\* 503: Redis was not reached, or its reply is lost and a token with it.
StoreFails(c) ==
    /\ answer[c] = "asked" /\ Answer(c, "unavailable")
    /\ \/ UNCHANGED <<bucket, told>>
       \/ RunScript(c) /\ told' = [told EXCEPT ![c] = 0]
    /\ UNCHANGED <<clock, latest, admitted>>

\* Redis deletes a key that has expired.
Expire(c) ==
    /\ bucket[c] # NoBucket /\ ~Live(c)
    /\ bucket' = [bucket EXCEPT ![c] = NoBucket]
    /\ UNCHANGED <<clock, answer, history>>

Tick ==
    /\ clock < MaxTime /\ clock' = clock + 1
    /\ latest' = Max2(latest, clock')
    /\ UNCHANGED <<bucket, answer, admitted, told>>

\* The clock of the machine is corrected.  The histories start anew.
SetBack(d) ==
    /\ d <= clock /\ clock' = clock - d
    /\ admitted' = [c \in Clients |-> <<>>]
    /\ told' = [c \in Clients |-> 0]
    /\ UNCHANGED <<bucket, answer, latest>>

Next ==
    \/ Tick
    \/ \E d \in 1 .. MaxSetBack : SetBack(d)
    \/ \E c \in Clients : Ask(c) \/ Admit(c) \/ Refuse(c) \/ StoreFails(c) \/ Expire(c)

Spec == Init /\ [][Next]_vars

-----------------------------------------------------------------------------
\* Between any two admissions of a client there is an interval for each token
\* beyond its capacity, although the bucket is filled by whole intervals and
\* comes back full when its key has expired (rate_limiter.go:48).
WindowIsBounded ==
    \A c \in Clients : \A i, j \in DOMAIN admitted[c] :
        i <= j => (j - i + 1 - Capacity) * RefillInterval <= admitted[c][j] - admitted[c][i]

\* Who asks again after the time in Retry-After, and did nothing else, finds a
\* token (rate_limiter.go:280).
RetryIsAdmitted ==
    \A c \in Clients : told[c] # 0 /\ told[c] <= clock => Allowed(c)

\* Nobody is told to wait for more than one interval, not even when the clock
\* has been set back behind the time in the bucket (rate_limiter.go:43).
WaitIsShort ==
    \A c \in Clients :
        told[c] <= clock + Second * RetryAfterSeconds(RefillInterval)

\* The limiter keeps what RateMeter promises.  A bucket stands for the time its
\* client has to wait until it is full.
DebtOf(c) ==
    IF Live(c)
    THEN Max2(0, bucket[c].updated_at + (Capacity - bucket[c].tokens) * RefillInterval - clock)
    ELSE 0

Meter == INSTANCE RateMeter WITH debt <- [c \in Clients |-> DebtOf(c)]

\* Tokens, whole intervals, expiry and the clamp of the clock amount to a debt
\* that grows with each admission and shrinks with time (rate_limiter.go:21).
MeterSpec == Meter!Spec
=============================================================================
