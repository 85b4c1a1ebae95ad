---------------------------- MODULE GatewayProofs ----------------------------
(***************************************************************************)
(* Theorems about Gateway, for every number of clusters, backends and      *)
(* requests.                                                               *)
(***************************************************************************)
EXTENDS Gateway, TLAPS

USE ClusterAssumption

-----------------------------------------------------------------------------
\* What a request has read so far lies before where it reads.

ReadBefore(q) ==
    /\ q.place \in {"scan", "choose"} => q.seen \in Seq(Backends)
    /\ q.place = "scan" =>
          \A n \in DOMAIN q.seen :
             \E m \in 1 .. q.at - 1 : q.seen[n] = Destinations[q.cluster][m]

RequestInv ==
    /\ request = [r \in Requests |-> request[r]]
    /\ \A r \in Requests : IsRequest(request[r]) /\ ReadBefore(request[r])

TypeInv ==
    /\ up \subseteq Backends /\ healthy \subseteq Backends /\ wasUp \subseteq Backends
    /\ probe \in [Backends -> {"none", "sent", "ok", "failed"}]
    /\ checking \in BOOLEAN /\ serving \in BOOLEAN
    /\ next \in [Clusters -> 0 .. Turns - 1]
    /\ share \in [Backends -> Nat]
    /\ RequestInv

LEMMA TurnsArePositive ==
    ASSUME NEW cl \in Clusters
    PROVE  Turns \in Nat \ {0}
<1>1. Destinations[cl] \in Seq(Backends) /\ Destinations[cl] # <<>>
  OBVIOUS
<1>2. 1 \in DOMAIN Destinations[cl]
  BY <1>1
<1> QED
  BY <1>2

\* Where a request may be, case by case.
LEMMA Places ==
    ASSUME NEW q, IsRequest(q)
    PROVE  /\ q.place \in {"idle", "scan", "choose", "proxied"}
           /\ q.place = "scan" =>
                /\ q.cluster \in Clusters /\ q.at \in DOMAIN Destinations[q.cluster]
                /\ q = Scanning(q.cluster, q.at, q.seen)
                /\ IsInjective(q.seen) /\ ToSet(q.seen) \subseteq ToSet(Destinations[q.cluster])
           /\ q.place = "choose" =>
                /\ q.cluster \in Clusters /\ q.seen # <<>>
                /\ IsInjective(q.seen) /\ ToSet(q.seen) \subseteq ToSet(Destinations[q.cluster])
           /\ q.place = "proxied" => q.backend \in Backends
BY DEF IsRequest, Idle, Scanning, Choosing, Proxied

LEMMA IdleIsRequest == IsRequest(Idle) /\ ReadBefore(Idle)
BY DEF IsRequest, ReadBefore, Idle

LEMMA ProxiedIsRequest ==
    ASSUME NEW b \in Backends PROVE IsRequest(Proxied(b)) /\ ReadBefore(Proxied(b))
BY DEF IsRequest, ReadBefore, Proxied

LEMMA ScanningIsRequest ==
    ASSUME NEW cl \in Clusters, NEW at \in DOMAIN Destinations[cl], NEW seen,
           IsInjective(seen), ToSet(seen) \subseteq ToSet(Destinations[cl])
    PROVE  IsRequest(Scanning(cl, at, seen))
BY DEF IsRequest, Scanning

LEMMA ChoosingIsRequest ==
    ASSUME NEW cl \in Clusters, NEW seen \in Seq(Backends), seen # <<>>,
           IsInjective(seen), ToSet(seen) \subseteq ToSet(Destinations[cl])
    PROVE  IsRequest(Choosing(cl, seen)) /\ ReadBefore(Choosing(cl, seen))
BY DEF IsRequest, ReadBefore, Choosing

\* A backend that is read now has not been read before.
LEMMA ReadNext ==
    ASSUME NEW cl \in Clusters, NEW at \in DOMAIN Destinations[cl], NEW seen,
           IsRequest(Scanning(cl, at, seen)), ReadBefore(Scanning(cl, at, seen)),
           NEW more, more = seen \/ more = Append(seen, Destinations[cl][at])
    PROVE  /\ more \in Seq(Backends) /\ IsInjective(more)
           /\ ToSet(more) \subseteq ToSet(Destinations[cl])
           /\ \A n \in DOMAIN more : \E m \in 1 .. at : more[n] = Destinations[cl][m]
<1> DEFINE b == Destinations[cl][at]
<1>1. Destinations[cl] \in Seq(Backends) /\ DOMAIN Destinations[cl] = 1 .. Len(Destinations[cl])
  OBVIOUS
<1>2. /\ seen \in Seq(Backends) /\ IsInjective(seen)
      /\ ToSet(seen) \subseteq ToSet(Destinations[cl])
  <2> DEFINE q == Scanning(cl, at, seen)
  <2>1. q.place = "scan" /\ q.cluster = cl /\ q.seen = seen
    BY DEF Scanning
  <2>2. q.seen \in Seq(Backends)
    BY <2>1 DEF ReadBefore
  <2>3. IsInjective(q.seen) /\ ToSet(q.seen) \subseteq ToSet(Destinations[q.cluster])
    <3> HIDE DEF q
    <3> QED
      BY <2>1, Places DEF q
  <2> QED
    BY <2>1, <2>2, <2>3
<1>3. \A n \in DOMAIN seen : \E m \in 1 .. at - 1 : seen[n] = Destinations[cl][m]
  BY DEF ReadBefore, Scanning
<1>4. \A n \in DOMAIN seen : seen[n] # b
  <2> SUFFICES ASSUME NEW n \in DOMAIN seen, seen[n] = b PROVE FALSE
    OBVIOUS
  <2>1. PICK m \in 1 .. at - 1 : seen[n] = Destinations[cl][m]
    BY <1>3
  <2>2. m \in DOMAIN Destinations[cl] /\ m # at
    BY <1>1
  <2> QED
    BY <2>1, <2>2
<1>5. CASE more = seen
  BY <1>1, <1>2, <1>3, <1>5
<1>6. CASE more = Append(seen, b)
  <2>1. b \in Backends
    BY <1>1
  <2>2. /\ more \in Seq(Backends)
        /\ DOMAIN more = 1 .. Len(seen) + 1 /\ DOMAIN seen = 1 .. Len(seen)
        /\ more[Len(seen) + 1] = b
        /\ \A n \in DOMAIN seen : more[n] = seen[n]
    BY <1>2, <1>6, <2>1, SMTT(30)
  <2>3. \A n \in DOMAIN more : n \in DOMAIN seen \/ n = Len(seen) + 1
    BY <1>2, <2>2
  <2>4. IsInjective(more)
    BY <1>2, <1>4, <2>2, <2>3 DEF IsInjective
  <2>5. \A n \in DOMAIN more : \E m \in 1 .. at : more[n] = Destinations[cl][m]
    <3> SUFFICES ASSUME NEW n \in DOMAIN more
                 PROVE  \E m \in 1 .. at : more[n] = Destinations[cl][m]
      OBVIOUS
    <3>1. CASE n \in DOMAIN seen
      <4>1. PICK m \in 1 .. at - 1 : seen[n] = Destinations[cl][m]
        BY <1>3, <3>1
      <4>2. m \in 1 .. at /\ more[n] = seen[n]
        BY <1>1, <2>2, <3>1
      <4> QED
        BY <4>1, <4>2
    <3>2. CASE n = Len(seen) + 1
      <4>1. at \in 1 .. at /\ more[n] = b
        BY <1>1, <2>2, <3>2
      <4> QED
        BY <4>1
    <3> QED
      BY <2>3, <3>1, <3>2
  <2>6. ToSet(more) \subseteq ToSet(Destinations[cl])
    <3>1. \A n \in DOMAIN more : \E m \in DOMAIN Destinations[cl] : more[n] = Destinations[cl][m]
      <4>1. 1 .. at \subseteq DOMAIN Destinations[cl]
        BY <1>1
      <4> QED
        BY <2>5, <4>1
    <3> QED
      BY <3>1 DEF ToSet
  <2> QED
    BY <2>2, <2>4, <2>5, <2>6
<1> QED
  BY <1>5, <1>6

-----------------------------------------------------------------------------
\* The invariant of the shape.

LEMMA InitTypes == Init => TypeInv
<1> SUFFICES ASSUME Init PROVE TypeInv
  OBVIOUS
<1>1. next \in [Clusters -> 0 .. Turns - 1]
  BY TurnsArePositive DEF Init
<1>2. RequestInv
  BY IdleIsRequest DEF Init, RequestInv
<1> QED
  BY <1>1, <1>2 DEF Init, TypeInv

\* The flags and the history of the turns, in the steps that touch them.
LEMMA CountAnewType == ASSUME TypeInv, CountAnew PROVE share' \in [Backends -> Nat]
BY DEF TypeInv, CountAnew, FreshShare

LEMMA CountTurnType ==
    ASSUME TypeInv, NEW cl, NEW seen, NEW b \in Backends, CountTurn(cl, seen, b)
    PROVE  share' \in [Backends -> Nat]
<1> DEFINE more == [share EXCEPT ![b] = @ + 1]
<1>1. more \in [Backends -> Nat]
  BY DEF TypeInv
<1>2. CASE seen # HealthyOf(cl)
  BY <1>2 DEF CountTurn, TypeInv
<1>3. CASE seen = HealthyOf(cl) /\ \A d \in ToSet(seen) : more[d] > 0
  <2>1. share' = [d \in Backends |-> IF d \in ToSet(seen) THEN more[d] - 1 ELSE more[d]]
    BY <1>3 DEF CountTurn
  <2> HIDE DEF more
  <2>2. \A d \in Backends : (IF d \in ToSet(seen) THEN more[d] - 1 ELSE more[d]) \in Nat
    BY <1>1, <1>3
  <2> QED
    BY <2>1, <2>2
<1>4. CASE seen = HealthyOf(cl) /\ ~ \A d \in ToSet(seen) : more[d] > 0
  BY <1>1, <1>4 DEF CountTurn
<1> QED
  BY <1>2, <1>3, <1>4

\* A request that moves to another place.
LEMMA GotoType ==
    ASSUME TypeInv, NEW r \in Requests, NEW q, Goto(r, q), IsRequest(q), ReadBefore(q)
    PROVE  RequestInv'
<1>1. request' = [request EXCEPT ![r] = q]
  BY DEF Goto
<1>2. \A s \in Requests : request'[s] = IF s = r THEN q ELSE request[s]
  BY <1>1 DEF TypeInv, RequestInv
<1>3. request' = [s \in Requests |-> request'[s]]
  BY <1>1 DEF TypeInv, RequestInv
<1>4. \A s \in Requests : IsRequest(request'[s]) /\ ReadBefore(request'[s])
  BY <1>2 DEF TypeInv, RequestInv
<1> QED
  BY <1>3, <1>4 DEF RequestInv, IsRequest, ReadBefore

\* A request elsewhere stays where it is when it does not move.
LEMMA SameRequests == ASSUME TypeInv, UNCHANGED request PROVE RequestInv'
BY DEF TypeInv, RequestInv

LEMMA LoadHealthType ==
    ASSUME TypeInv, NEW r \in Requests, LoadHealth(r)
    PROVE  RequestInv'
<1> DEFINE q == request[r]
           cl == q.cluster
           at == q.at
           b == Destinations[cl][at]
           more == IF b \in healthy THEN Append(q.seen, b) ELSE q.seen
<1>1. IsRequest(q) /\ ReadBefore(q) /\ q.place = "scan"
  BY DEF TypeInv, RequestInv, LoadHealth
<1>2. /\ cl \in Clusters /\ at \in DOMAIN Destinations[cl]
      /\ q = Scanning(cl, at, q.seen)
  <2> HIDE DEF q
  <2> QED
    BY <1>1, Places
<1>3. /\ more \in Seq(Backends) /\ IsInjective(more)
      /\ ToSet(more) \subseteq ToSet(Destinations[cl])
      /\ \A n \in DOMAIN more : \E m \in 1 .. at : more[n] = Destinations[cl][m]
  <2>1. more = q.seen \/ more = Append(q.seen, Destinations[cl][at])
    OBVIOUS
  <2>2. IsRequest(Scanning(cl, at, q.seen)) /\ ReadBefore(Scanning(cl, at, q.seen))
    BY <1>1, <1>2
  <2>3. cl \in Clusters /\ at \in DOMAIN Destinations[cl]
    BY <1>2
  <2> DEFINE old == q.seen
  <2> HIDE DEF old, q, more, cl, at
  <2>4. more = old \/ more = Append(old, Destinations[cl][at])
    BY <2>1 DEF old
  <2>5. IsRequest(Scanning(cl, at, old)) /\ ReadBefore(Scanning(cl, at, old))
    BY <2>2 DEF old
  <2> QED
    BY <2>3, <2>4, <2>5, ReadNext, SMTT(30)
<1>4. Destinations[cl] \in Seq(Backends) /\ DOMAIN Destinations[cl] = 1 .. Len(Destinations[cl])
  BY <1>2
<1>5. Goto(r, IF at < Len(Destinations[cl]) THEN Scanning(cl, at + 1, more)
              ELSE IF more = <<>> THEN Idle ELSE Choosing(cl, more))
  BY DEF LoadHealth
<1> HIDE DEF more, cl, at
<1>6. CASE at < Len(Destinations[cl])
  <2>1. at + 1 \in DOMAIN Destinations[cl] /\ at \in Nat
    BY <1>2, <1>4, <1>6
  <2>2. IsRequest(Scanning(cl, at + 1, more))
    BY <1>2, <1>3, <2>1, ScanningIsRequest
  <2>3. ReadBefore(Scanning(cl, at + 1, more))
    <3> DEFINE p == Scanning(cl, at + 1, more)
    <3>1. p.place = "scan" /\ p.cluster = cl /\ p.seen = more /\ p.at - 1 = at
      BY <2>1 DEF Scanning
    <3> HIDE DEF p
    <3>2. ReadBefore(p)
      BY <1>3, <3>1 DEF ReadBefore
    <3> QED
      BY <3>2 DEF p
  <2> QED
    <3>1. Goto(r, Scanning(cl, at + 1, more))
      BY <1>5, <1>6
    <3> QED
      BY <2>2, <2>3, <3>1, GotoType
<1>7. CASE ~(at < Len(Destinations[cl])) /\ more = <<>>
  <2>1. Goto(r, Idle)
    BY <1>5, <1>7
  <2> QED
    BY <2>1, IdleIsRequest, GotoType
<1>8. CASE ~(at < Len(Destinations[cl])) /\ more # <<>>
  <2>1. IsRequest(Choosing(cl, more)) /\ ReadBefore(Choosing(cl, more))
    BY <1>2, <1>3, <1>8, ChoosingIsRequest
  <2>2. Goto(r, Choosing(cl, more))
    BY <1>5, <1>8
  <2> HIDE DEF q, b
  <2> QED
    BY <2>1, <2>2, GotoType
<1> QED
  BY <1>6, <1>7, <1>8

LEMMA TakeTurnType ==
    ASSUME TypeInv, NEW r \in Requests, TakeTurn(r)
    PROVE  TypeInv'
<1> DEFINE q == request[r]
           cl == q.cluster
           seen == q.seen
           b == seen[(next[cl] % Len(seen)) + 1]
<1>1. IsRequest(q) /\ ReadBefore(q) /\ q.place = "choose"
  BY DEF TypeInv, RequestInv, TakeTurn
<1>2. cl \in Clusters /\ seen \in Seq(Backends) /\ seen # <<>>
  <2> HIDE DEF q
  <2> QED
    BY <1>1, Places DEF ReadBefore
<1>3. /\ next' = [next EXCEPT ![cl] = (@ + 1) % Turns]
      /\ Goto(r, Proxied(b)) /\ CountTurn(cl, seen, b)
      /\ UNCHANGED <<up, healthy, checkVars>>
  BY DEF TakeTurn
<1> HIDE DEF cl, seen
<1>4. next[cl] \in Nat /\ Len(seen) \in Nat \ {0} /\ DOMAIN seen = 1 .. Len(seen)
  BY <1>2, TurnsArePositive DEF TypeInv
<1>5. (next[cl] % Len(seen)) + 1 \in DOMAIN seen
  BY <1>4
<1>6. b \in Backends
  BY <1>2, <1>5
<1>7. next' \in [Clusters -> 0 .. Turns - 1]
  <2>1. Turns \in Nat \ {0} /\ (next[cl] + 1) % Turns \in 0 .. Turns - 1
    BY <1>2, <1>4, TurnsArePositive, SMTT(30)
  <2> QED
    BY <1>2, <1>3, <2>1 DEF TypeInv
<1>8. share' \in [Backends -> Nat]
  BY <1>3, <1>6, CountTurnType
<1>9. RequestInv'
  BY <1>3, <1>6, ProxiedIsRequest, GotoType
<1> QED
  BY <1>3, <1>7, <1>8, <1>9 DEF TypeInv, checkVars

LEMMA NextTypes == ASSUME TypeInv, [Next]_vars PROVE TypeInv'
<1>1. ASSUME StartRound \/ EndRound PROVE TypeInv'
  BY <1>1, SameRequests DEF TypeInv, StartRound, EndRound
<1>2. ASSUME NEW b \in Backends, ProbeOk(b) \/ ProbeFails(b) PROVE TypeInv'
  BY <1>2, SameRequests DEF TypeInv, ProbeOk, ProbeFails
<1>3. ASSUME NEW b \in Backends, SetHealth(b) PROVE TypeInv'
  <2>1. share' \in [Backends -> Nat]
    BY <1>3, CountAnewType DEF SetHealth
  <2>2. healthy' \subseteq Backends
    BY <1>3 DEF SetHealth, SetHealthy, SetUnhealthy, TypeInv
  <2>3. RequestInv'
    BY <1>3, SameRequests DEF SetHealth
  <2> QED
    BY <1>3, <2>1, <2>2, <2>3 DEF SetHealth, TypeInv
<1>4. ASSUME NEW b \in Backends, GoesDown(b) \/ ComesUp(b) PROVE TypeInv'
  BY <1>4, SameRequests DEF TypeInv, GoesDown, ComesUp, checkVars
<1>5. ASSUME NEW r \in Requests, NEW cl \in Clusters, Receive(r, cl) PROVE TypeInv'
  <2>1. Destinations[cl] \in Seq(Backends) /\ 1 \in DOMAIN Destinations[cl]
    OBVIOUS
  <2>2. IsInjective(<<>>) /\ ToSet(<<>>) \subseteq ToSet(Destinations[cl])
    BY DEF IsInjective, ToSet
  <2>3. IsRequest(Scanning(cl, 1, <<>>))
    BY <2>1, <2>2, ScanningIsRequest
  <2>4. ReadBefore(Scanning(cl, 1, <<>>))
    BY DEF ReadBefore, Scanning
  <2>5. RequestInv'
    BY <1>5, <2>3, <2>4, GotoType DEF Receive
  <2> QED
    BY <1>5, <2>5 DEF Receive, TypeInv, checkVars
<1>6. ASSUME NEW r \in Requests, LoadHealth(r) PROVE TypeInv'
  BY <1>6, LoadHealthType DEF LoadHealth, TypeInv, checkVars
<1>7. ASSUME NEW r \in Requests, Respond(r) PROVE TypeInv'
  <2>1. RequestInv'
    BY <1>7, IdleIsRequest, GotoType DEF Respond
  <2> QED
    BY <1>7, <2>1 DEF Respond, TypeInv, checkVars
<1>8. ASSUME NEW r \in Requests, ProxyFails(r) PROVE TypeInv'
  <2>1. RequestInv'
    BY <1>8, IdleIsRequest, GotoType DEF ProxyFails
  <2>2. share' \in [Backends -> Nat]
    BY <1>8, CountAnewType DEF ProxyFails
  <2> QED
    BY <1>8, <2>1, <2>2 DEF ProxyFails, SetUnhealthy, TypeInv, checkVars
<1>9. CASE UNCHANGED vars
  BY <1>9, SameRequests DEF vars, checkVars, TypeInv
<1> QED
  BY <1>1, <1>2, <1>3, <1>4, <1>5, <1>6, <1>7, <1>8, <1>9, TakeTurnType DEF Next, CheckStep

\* The state keeps its shape: no request is sent on without a backend it has seen
\* healthy, and none sees a backend twice (NextBackend).
THEOREM Typing == Spec => []TypeOK
<1>1. TypeInv => TypeOK
  BY DEF TypeInv, TypeOK, RequestInv
<1>2. TypeInv /\ [Next]_vars => TypeInv'
  BY NextTypes
<1> QED
  BY <1>1, <1>2, InitTypes, PTL DEF Spec

-----------------------------------------------------------------------------
\* The flags.

\* What is up has been up since each probe was sent, and a probe that was answered
\* well was answered by a backend that was up.
ProbesAreTrue ==
    /\ probe = [b \in Backends |-> probe[b]]
    /\ up \subseteq wasUp
    /\ \A b \in Backends : probe[b] = "ok" => b \in wasUp

FlagInv == ProbesAreTrue /\ FlagsAreOneRoundOld

LEMMA NextFlags == ASSUME FlagInv, [Next]_vars PROVE FlagInv'
<1> USE DEF FlagInv, ProbesAreTrue, FlagsAreOneRoundOld
<1>1. CASE StartRound
  BY <1>1 DEF StartRound
<1>2. ASSUME NEW b \in Backends, ProbeOk(b) \/ ProbeFails(b) PROVE FlagInv'
  BY <1>2 DEF ProbeOk, ProbeFails
<1>3. ASSUME NEW b \in Backends, SetHealth(b) PROVE FlagInv'
  <2>1. /\ probe' = [probe EXCEPT ![b] = "none"] /\ up' = up /\ wasUp' = wasUp
        /\ probe[b] = "ok" \/ b \notin healthy'
        /\ \A d \in Backends : d # b => (d \in healthy' <=> d \in healthy)
    BY <1>3 DEF SetHealth, SetHealthy, SetUnhealthy
  <2>2. /\ probe'[b] = "none"
        /\ \A d \in Backends : d # b => probe'[d] = probe[d]
        /\ probe' = [d \in Backends |-> probe'[d]]
    BY <2>1
  <2> QED
    BY <2>1, <2>2
<1>4. ASSUME NEW b \in Backends, GoesDown(b) \/ ComesUp(b) PROVE FlagInv'
  BY <1>4 DEF GoesDown, ComesUp, checkVars
<1>5. ASSUME UNCHANGED <<up, probe, wasUp>>, healthy' \subseteq healthy PROVE FlagInv'
  BY <1>5
<1>6. ASSUME NEW r \in Requests, ProxyFails(r) PROVE FlagInv'
  BY <1>5, <1>6 DEF ProxyFails, SetUnhealthy, checkVars
<1> QED
  BY <1>1, <1>2, <1>3, <1>4, <1>5, <1>6
     DEF Next, CheckStep, EndRound, Receive, LoadHealth, TakeTurn, Respond, checkVars, vars

\* A flag outlives its backend by one round at most (checkBackend and
\* handleProxyError on one flag).
THEOREM FlagsAreFresh == Spec => []FlagsAreOneRoundOld
<1>1. Init => FlagInv
  BY DEF Init, FlagInv, ProbesAreTrue, FlagsAreOneRoundOld
<1>2. FlagInv /\ [Next]_vars => FlagInv'
  BY NextFlags
<1>3. FlagInv => FlagsAreOneRoundOld
  BY DEF FlagInv
<1> QED
  BY <1>1, <1>2, <1>3, PTL DEF Spec

-----------------------------------------------------------------------------
\* The turns.

HIDE ClusterAssumption

\* What the counter says modulo n, when the counter is kept modulo a multiple of n.
LEMMA Remainder ==
    ASSUME NEW n \in Nat \ {0}, NEW q \in Int, NEW r \in 0 .. n - 1
    PROVE  (n * q + r) % n = r
<1> DEFINE a == n * q + r
<1>1. a \in Int /\ a = n * (a \div n) + (a % n) /\ a \div n \in Int /\ a % n \in 0 .. n - 1
  OBVIOUS
<1>2. PICK d \in Int, m \in 0 .. n - 1 : d = a \div n /\ m = a % n
  BY <1>1
<1>3. n * d + m = n * q + r
  BY <1>1, <1>2
<1>4. CASE d >= q + 1
  <2>1. n * d >= n * (q + 1)
    BY <1>4
  <2> QED
    BY <1>3, <2>1
<1>5. CASE q >= d + 1
  <2>1. n * q >= n * (d + 1)
    BY <1>5
  <2> QED
    BY <1>3, <2>1
<1>6. CASE d = q
  BY <1>2, <1>3, <1>6
<1> QED
  BY <1>4, <1>5, <1>6

LEMMA NextPosition ==
    ASSUME NEW n \in Nat \ {0}, NEW t \in Nat, t % n = 0, NEW x \in 0 .. t - 1
    PROVE  ((x + 1) % t) % n = (IF x % n = n - 1 THEN 0 ELSE (x % n) + 1)
<1>1. CASE x + 1 = t
  <2>1. (x + 1) % t = 0 /\ 0 % n = 0
    BY <1>1
  <2>2. t = n * (t \div n) /\ t \div n \in Int
    OBVIOUS
  <2>3. PICK k \in Int : t = n * k
    BY <2>2
  <2>4. x = n * (k - 1) + (n - 1)
    BY <1>1, <2>3
  <2>5. (n * (k - 1) + (n - 1)) % n = n - 1
    BY Remainder
  <2> QED
    BY <2>1, <2>4, <2>5
<1>2. CASE x + 1 < t
  <2>1. (x + 1) % t = x + 1
    BY <1>2
  <2>2. PICK q \in Int, r \in 0 .. n - 1 : x = n * q + r /\ r = x % n
    <3>1. x = n * (x \div n) + (x % n) /\ x \div n \in Int /\ x % n \in 0 .. n - 1
      OBVIOUS
    <3> QED
      BY <3>1
  <2>3. CASE r < n - 1
    <3>1. (n * q + (r + 1)) % n = r + 1
      BY <2>3, Remainder
    <3> QED
      BY <2>1, <2>2, <2>3, <3>1
  <2>4. CASE r = n - 1
    <3>1. (n * (q + 1) + 0) % n = 0
      BY Remainder
    <3>2. PICK y \in Int, z \in Int : y = n * q /\ z = n * (q + 1)
      OBVIOUS
    <3>3. z = y + n
      BY <3>2
    <3>4. z % n = 0
      BY <3>1, <3>2
    <3>5. x = y + r
      BY <2>2, <3>2
    <3>6. z = x + 1
      BY <2>4, <3>3, <3>5
    <3> QED
      BY <2>1, <2>2, <2>4, <3>4, <3>6
  <2> QED
    BY <2>3, <2>4
<1> QED
  BY <1>1, <1>2

\* A request has not read more backends than there are before where it reads.
SeenIsShort ==
    \A r \in Requests :
        /\ request[r].place = "scan" => Len(request[r].seen) < request[r].at
        /\ request[r].place = "choose" =>
              Len(request[r].seen) <= Len(Destinations[request[r].cluster])

\* The positions from first up to, and not including, last, around the circle.
Between(first, last, i) == IF first <= last THEN first <= i /\ i < last
                                            ELSE first <= i \/ i < last

\* Those from f up to p had a turn.
InRow(turns, h, n, f, p) ==
    \A i \in 0 .. n - 1 : turns[h[i]] = IF Between(f, p, i) THEN 1 ELSE 0

\* The backends of H around a circle.
Ring(H) == [i \in 0 .. Len(H) - 1 |-> H[i + 1]]

\* The backends that had a turn since all had the same number are the ones next to
\* each other up to the counter's position, ...
TurnsFollow(cl, H) ==
    /\ H \in Seq(Backends) /\ IsInjective(H) /\ Len(H) \in DOMAIN Destinations[cl]
    /\ ToSet(H) \subseteq ToSet(Destinations[cl])
    /\ \E first \in 0 .. Len(H) - 1 :
          InRow(share, Ring(H), Len(H), first, next[cl] % Len(H))
    /\ \A b \in ToSet(Destinations[cl]) \ ToSet(H) : share[b] = 0

\* ... unless nobody had one since the flags changed or were read in the middle.
NoTurns(cl) == \A b \in ToSet(Destinations[cl]) : share[b] = 0

TurnsInv ==
    /\ SeenIsShort
    /\ \A cl \in Clusters : NoTurns(cl) \/ TurnsFollow(cl, HealthyOf(cl))

\* The position after p around a circle of n.
After(n, p) == IF p = n - 1 THEN 0 ELSE p + 1

\* One more turn brings the row of those who had one to the next position.
LEMMA BetweenGrows ==
    ASSUME NEW n \in Nat \ {0}, NEW f \in 0 .. n - 1, NEW p \in 0 .. n - 1,
           NEW j \in 0 .. n - 1, ~Between(f, p, j), j # p
    PROVE  \A i \in 0 .. n - 1 : Between(f, After(n, p), i) = (Between(f, p, i) \/ i = p)
BY DEF Between, After

\* h counts the members of S around a circle of n.
Circles(h, n, S) ==
    /\ h \in [0 .. n - 1 -> S]
    /\ \A i, j \in 0 .. n - 1 : h[i] = h[j] => i = j
    /\ \A d \in S : \E i \in 0 .. n - 1 : d = h[i]

LEMMA Circle ==
    ASSUME NEW H \in Seq(Backends), IsInjective(H), NEW n \in Nat \ {0}, n = Len(H)
    PROVE  Circles(Ring(H), n, ToSet(H))
<1> DEFINE g == Ring(H)
<1>1. DOMAIN H = 1 .. n /\ \A i \in 0 .. n - 1 : i + 1 \in 1 .. n
  OBVIOUS
<1>2. \A i \in 0 .. n - 1 : H[i + 1] \in ToSet(H)
  BY <1>1 DEF ToSet
<1>3. \A i, j \in 0 .. n - 1 : H[i + 1] = H[j + 1] => i = j
  <2>1. \A i, j \in 0 .. n - 1 : H[i + 1] = H[j + 1] => i + 1 = j + 1
    BY <1>1 DEF IsInjective
  <2> QED
    BY <2>1
<1>4. \A d \in ToSet(H) : \E i \in 0 .. n - 1 : d = H[i + 1]
  <2> SUFFICES ASSUME NEW d \in ToSet(H) PROVE \E i \in 0 .. n - 1 : d = H[i + 1]
    OBVIOUS
  <2>1. PICK j \in 1 .. n : d = H[j]
    BY <1>1 DEF ToSet
  <2>2. j - 1 \in 0 .. n - 1 /\ (j - 1) + 1 = j
    OBVIOUS
  <2> QED
    BY <2>1, <2>2
<1>5. g \in [0 .. n - 1 -> ToSet(H)] /\ \A i \in 0 .. n - 1 : g[i] = H[i + 1]
  BY <1>2 DEF Ring
<1> HIDE DEF g
<1>6. \A i, j \in 0 .. n - 1 : g[i] = g[j] => i = j
  BY <1>3, <1>5
<1>7. \A d \in ToSet(H) : \E i \in 0 .. n - 1 : d = g[i]
  <2> SUFFICES ASSUME NEW d \in ToSet(H) PROVE \E i \in 0 .. n - 1 : d = g[i]
    OBVIOUS
  <2>1. PICK i \in 0 .. n - 1 : d = H[i + 1]
    BY <1>4
  <2> QED
    BY <1>5, <2>1
<1> QED
  BY <1>5, <1>6, <1>7 DEF Circles, g

\* What a turn does to the turns of the backends around the circle.
LEMMA TurnsGoRound ==
    ASSUME NEW n \in Nat \ {0}, NEW f \in 0 .. n - 1, NEW p \in 0 .. n - 1,
           NEW S, NEW h, Circles(h, n, S),
           NEW old \in [S -> Nat], InRow(old, h, n, f, p),
           NEW more, \A d \in S : more[d] = IF d = h[p] THEN old[d] + 1 ELSE old[d]
    PROVE  \/ \A d \in S : more[d] = 1
           \/ (\E d \in S : more[d] = 0) /\ InRow(more, h, n, f, After(n, p))
<1>1. \A i \in 0 .. n - 1 : more[h[i]] = IF Between(f, p, i) \/ i = p THEN 1 ELSE 0
  <2>1. ~Between(f, p, p)
    BY DEF Between
  <2>2. more[h[p]] = 1
    BY <2>1 DEF InRow, Circles
  <2>3. \A i \in 0 .. n - 1 : i # p => more[h[i]] = old[h[i]]
    BY DEF Circles
  <2> QED
    BY <2>2, <2>3 DEF InRow
<1>2. CASE \A i \in 0 .. n - 1 : Between(f, p, i) \/ i = p
  BY <1>1, <1>2 DEF Circles
<1>3. CASE \E j \in 0 .. n - 1 : ~Between(f, p, j) /\ j # p
  <2>1. PICK j \in 0 .. n - 1 : ~Between(f, p, j) /\ j # p
    BY <1>3
  <2>2. \A i \in 0 .. n - 1 : Between(f, After(n, p), i) = (Between(f, p, i) \/ i = p)
    BY <2>1, BetweenGrows
  <2>3. more[h[j]] = 0 /\ h[j] \in S
    BY <1>1, <2>1 DEF Circles
  <2>4. InRow(more, h, n, f, After(n, p))
    BY <1>1, <2>2 DEF InRow
  <2> QED
    BY <2>3, <2>4
<1> QED
  BY <1>2, <1>3

\* A request that has seen the healthy backends takes a turn.
LEMMA OneTurn ==
    ASSUME TypeInv, NEW cl \in Clusters, NEW H \in Seq(Backends), IsInjective(H),
           Len(H) \in DOMAIN Destinations[cl], ToSet(H) \subseteq ToSet(Destinations[cl]),
           NoTurns(cl) \/ TurnsFollow(cl, H), H = HealthyOf(cl),
           next' = [next EXCEPT ![cl] = (@ + 1) % Turns],
           CountTurn(cl, H, H[(next[cl] % Len(H)) + 1])
    PROVE  NoTurns(cl)' \/ TurnsFollow(cl, H)'
<1>1. PICK n \in Nat \ {0} : n = Len(H) /\ n \in DOMAIN Destinations[cl]
  <2>1. Destinations[cl] \in Seq(Backends) /\ Len(H) \in Nat
    BY ClusterAssumption
  <2> QED
    BY <2>1
<1>2. Turns \in Nat \ {0} /\ Turns % n = 0 /\ next[cl] \in 0 .. Turns - 1
  BY <1>1, TurnsArePositive, ClusterAssumption DEF TypeInv
<1>3. PICK p \in 0 .. n - 1 : p = next[cl] % n
  BY <1>2
<1>4. next'[cl] % n = After(n, p)
  <2>1. next'[cl] = (next[cl] + 1) % Turns
    BY DEF TypeInv
  <2>2. ((next[cl] + 1) % Turns) % n = After(n, p)
    BY <1>2, <1>3, NextPosition DEF After
  <2> QED
    BY <2>1, <2>2
<1>5. PICK h : h = Ring(H) /\ Circles(h, n, ToSet(H))
  BY <1>1, Circle
<1>6. PICK f \in 0 .. n - 1 : InRow(share, h, n, f, p)
  <2>1. CASE NoTurns(cl)
    <3>1. \A i \in 0 .. n - 1 : h[i] \in ToSet(Destinations[cl])
      BY <1>5 DEF Circles
    <3>2. \A i \in 0 .. n - 1 : ~Between(p, p, i)
      BY DEF Between
    <3>3. InRow(share, h, n, p, p)
      BY <2>1, <3>1, <3>2 DEF NoTurns, InRow
    <3> QED
      BY <3>3
  <2>2. CASE TurnsFollow(cl, H)
    <3>1. \E g \in 0 .. Len(H) - 1 : InRow(share, Ring(H), Len(H), g, next[cl] % Len(H))
      BY <2>2 DEF TurnsFollow
    <3>2. PICK g \in 0 .. n - 1 : InRow(share, Ring(H), n, g, next[cl] % n)
      BY <1>1, <3>1
    <3> QED
      BY <1>3, <1>5, <3>2
  <2> QED
    BY <2>1, <2>2
<1>7. \A d \in ToSet(Destinations[cl]) \ ToSet(H) : share[d] = 0
  BY DEF NoTurns, TurnsFollow
<1>8. ToSet(Destinations[cl]) \subseteq Backends /\ ToSet(H) \subseteq Backends
  <2>1. Destinations[cl] \in Seq(Backends)
    BY ClusterAssumption
  <2> QED
    BY <2>1 DEF ToSet
<1>9. h[p] \in ToSet(H) /\ h[p] = H[(next[cl] % Len(H)) + 1]
  BY <1>1, <1>3, <1>5 DEF Circles, Ring
<1> DEFINE more == [share EXCEPT ![h[p]] = @ + 1]
<1>10. share' = IF \A d \in ToSet(H) : more[d] > 0
                THEN [d \in Backends |-> IF d \in ToSet(H) THEN more[d] - 1 ELSE more[d]]
                ELSE more
  BY <1>9 DEF CountTurn
<1>11. \/ \A d \in ToSet(H) : more[d] = 1
       \/ /\ \E d \in ToSet(H) : more[d] = 0
          /\ InRow(more, h, n, f, After(n, p))
  <2> DEFINE old1 == [d \in ToSet(H) |-> share[d]]
  <2>1. old1 \in [ToSet(H) -> Nat]
    BY <1>8 DEF TypeInv
  <2>2. \A d \in ToSet(H) : more[d] = IF d = h[p] THEN old1[d] + 1 ELSE old1[d]
    BY <1>8 DEF TypeInv
  <2>3. InRow(old1, h, n, f, p)
    BY <1>5, <1>6 DEF InRow, Circles
  <2> HIDE DEF old1, more
  <2>4. PICK S, old, now : old \in [S -> Nat] /\ S = ToSet(H) /\ old = old1 /\ now = more
    BY <2>1
  <2>5. old \in [S -> Nat] /\ Circles(h, n, S) /\ InRow(old, h, n, f, p)
    BY <1>5, <2>3, <2>4
  <2>6. \A d \in S : now[d] = IF d = h[p] THEN old[d] + 1 ELSE old[d]
    BY <2>2, <2>4
  <2>7. \/ \A d \in S : now[d] = 1
        \/ (\E d \in S : now[d] = 0) /\ InRow(now, h, n, f, After(n, p))
    BY <2>5, <2>6, TurnsGoRound, ZenonT(60)
  <2> QED
    BY <2>4, <2>7
<1>12. \A d \in ToSet(Destinations[cl]) \ ToSet(H) : more[d] = 0
  BY <1>7, <1>8, <1>9 DEF TypeInv
<1> HIDE DEF more
<1>13. CASE \A d \in ToSet(H) : more[d] = 1
  <2>1. \A d \in ToSet(H) : more[d] > 0
    BY <1>13
  <2>2. \A d \in ToSet(Destinations[cl]) : share'[d] = 0
    BY <1>8, <1>10, <1>12, <1>13, <2>1
  <2> QED
    BY <2>2 DEF NoTurns
<1>14. CASE /\ \E d \in ToSet(H) : more[d] = 0
            /\ InRow(more, h, n, f, After(n, p))
  <2>1. share' = more
    BY <1>10, <1>14
  <2>2. InRow(share', Ring(H), Len(H), f, next'[cl] % Len(H)) /\ f \in 0 .. Len(H) - 1
    BY <1>1, <1>4, <1>5, <1>14, <2>1
  <2>3. \A d \in ToSet(Destinations[cl]) \ ToSet(H) : share'[d] = 0
    BY <1>12, <2>1
  <2>4. (\E first \in 0 .. Len(H) - 1 :
            InRow(share, Ring(H), Len(H), first, next[cl] % Len(H)))'
    BY <2>2
  <2> QED
    BY <2>3, <2>4 DEF TurnsFollow
<1> QED
  BY <1>11, <1>13, <1>14

\* The turns of a cluster stay as they are in the steps of the others.
LEMMA OtherTurns ==
    ASSUME NEW cl \in Clusters, NEW H, NoTurns(cl) \/ TurnsFollow(cl, H),
           next'[cl] = next[cl],
           \A d \in ToSet(Destinations[cl]) : share'[d] = share[d]
    PROVE  NoTurns(cl)' \/ TurnsFollow(cl, H)'
<1>1. CASE NoTurns(cl)
  BY <1>1 DEF NoTurns
<1>2. CASE TurnsFollow(cl, H)
  <2>1. Circles(Ring(H), Len(H), ToSet(H)) /\ ToSet(H) \subseteq ToSet(Destinations[cl])
    <3>1. Len(H) \in Nat \ {0}
      <4>1. Destinations[cl] \in Seq(Backends)
        BY ClusterAssumption
      <4> QED
        BY <1>2, <4>1 DEF TurnsFollow
    <3> QED
      BY <1>2, <3>1, Circle DEF TurnsFollow
  <2>2. PICK f \in 0 .. Len(H) - 1 : InRow(share, Ring(H), Len(H), f, next[cl] % Len(H))
    BY <1>2 DEF TurnsFollow
  <2>3. InRow(share', Ring(H), Len(H), f, next'[cl] % Len(H))
    BY <2>1, <2>2 DEF InRow, Circles
  <2>4. (\E first \in 0 .. Len(H) - 1 :
            InRow(share, Ring(H), Len(H), first, next[cl] % Len(H)))'
    BY <2>3
  <2> QED
    BY <1>2, <2>4 DEF TurnsFollow
<1> QED
  BY <1>1, <1>2

LEMMA ClustersAreApart ==
    ASSUME NEW cl \in Clusters, NEW other \in Clusters, cl # other,
           NEW b \in ToSet(Destinations[cl])
    PROVE  b \in Backends /\ b \notin ToSet(Destinations[other])
<1>1. Destinations[cl] \in Seq(Backends)
  BY ClusterAssumption
<1> QED
  BY <1>1, ClusterAssumption DEF ToSet

LEMMA TakeTurnTurns ==
    ASSUME TypeInv, TurnsInv, NEW r \in Requests, TakeTurn(r)
    PROVE  \A cl \in Clusters : NoTurns(cl)' \/ TurnsFollow(cl, HealthyOf(cl))'
<1>1. PICK q : q = request[r]
  OBVIOUS
<1>2. IsRequest(q) /\ ReadBefore(q) /\ q.place = "choose"
  BY <1>1 DEF TypeInv, RequestInv, TakeTurn
<1>3. PICK cl \in Clusters, H \in Seq(Backends) :
         /\ cl = q.cluster /\ H = q.seen /\ H # <<>>
         /\ IsInjective(H) /\ ToSet(H) \subseteq ToSet(Destinations[cl])
  BY <1>2, Places DEF ReadBefore
<1>4. Len(H) \in DOMAIN Destinations[cl]
  <2>1. Len(H) <= Len(Destinations[cl])
    BY <1>1, <1>2, <1>3 DEF TurnsInv, SeenIsShort
  <2>2. Destinations[cl] \in Seq(Backends)
    BY ClusterAssumption
  <2> QED
    BY <1>3, <2>1, <2>2
<1>5. PICK b : b = H[(next[cl] % Len(H)) + 1]
  OBVIOUS
<1>6. /\ next' = [next EXCEPT ![cl] = (@ + 1) % Turns]
      /\ CountTurn(cl, H, b) /\ healthy' = healthy
  BY <1>1, <1>3, <1>5 DEF TakeTurn
<1>7. \A c \in Clusters : HealthyOf(c)' = HealthyOf(c)
  BY <1>6 DEF HealthyOf
<1>8. b \in ToSet(H)
  <2>1. next[cl] \in Nat /\ Len(H) \in Nat \ {0} /\ DOMAIN H = 1 .. Len(H)
    BY <1>3, TurnsArePositive DEF TypeInv
  <2>2. (next[cl] % Len(H)) + 1 \in DOMAIN H
    BY <2>1
  <2> QED
    BY <1>5, <2>2 DEF ToSet
<1>9. ASSUME NEW c \in Clusters, c # cl
      PROVE  NoTurns(c)' \/ TurnsFollow(c, HealthyOf(c))'
  <2>1. next'[c] = next[c]
    BY <1>6, <1>9 DEF TypeInv
  <2>2. ASSUME NEW d \in ToSet(Destinations[c]) PROVE share'[d] = share[d]
    <3>1. d \in Backends /\ d \notin ToSet(Destinations[cl]) /\ d \notin ToSet(H) /\ d # b
      BY <1>3, <1>8, <1>9, ClustersAreApart
    <3>2. [share EXCEPT ![b] = @ + 1][d] = share[d]
      BY <3>1 DEF TypeInv
    <3> QED
      BY <1>6, <3>1, <3>2 DEF CountTurn
  <2>3. PICK G : G = HealthyOf(c)
    OBVIOUS
  <2>4. NoTurns(c)' \/ TurnsFollow(c, G)'
    BY <2>1, <2>2, <2>3, OtherTurns DEF TurnsInv
  <2>5. HealthyOf(c)' = G
    BY <1>7, <2>3
  <2> QED
    BY <2>4, <2>5
<1>10. NoTurns(cl)' \/ TurnsFollow(cl, HealthyOf(cl))'
  <2>1. CASE H # HealthyOf(cl)
    <3>1. share' = [d \in Backends |-> IF d \in ToSet(Destinations[cl]) THEN 0 ELSE share[d]]
      BY <1>6, <2>1 DEF CountTurn
    <3>2. ToSet(Destinations[cl]) \subseteq Backends
      <4>1. Destinations[cl] \in Seq(Backends)
        BY ClusterAssumption
      <4> QED
        BY <4>1 DEF ToSet
    <3> QED
      BY <3>1, <3>2 DEF NoTurns
  <2>2. CASE H = HealthyOf(cl)
    <3>1. NoTurns(cl) \/ TurnsFollow(cl, H)
      BY <2>2 DEF TurnsInv
    <3>2. NoTurns(cl)' \/ TurnsFollow(cl, H)'
      BY <1>3, <1>4, <1>5, <1>6, <2>2, <3>1, OneTurn
    <3>3. HealthyOf(cl)' = H
      BY <1>7, <2>2
    <3> QED
      BY <3>2, <3>3
  <2> QED
    BY <2>1, <2>2
<1> QED
  BY <1>9, <1>10

\* The turns in the steps that may change a flag, ...
LEMMA CountAnewTurns ==
    ASSUME TypeInv, TurnsInv, CountAnew, next' = next
    PROVE  \A cl \in Clusters : NoTurns(cl)' \/ TurnsFollow(cl, HealthyOf(cl))'
<1> SUFFICES ASSUME NEW cl \in Clusters
             PROVE  NoTurns(cl)' \/ TurnsFollow(cl, HealthyOf(cl))'
  OBVIOUS
<1>1. CASE healthy' = healthy
  <2>1. share' = share
    BY <1>1 DEF CountAnew
  <2>2. PICK G : G = HealthyOf(cl)
    OBVIOUS
  <2>3. NoTurns(cl)' \/ TurnsFollow(cl, G)'
    BY <2>1, <2>2, OtherTurns DEF TurnsInv
  <2>4. HealthyOf(cl)' = G
    BY <1>1, <2>2 DEF HealthyOf
  <2> QED
    BY <2>3, <2>4
<1>2. CASE healthy' # healthy
  <2>1. ToSet(Destinations[cl]) \subseteq Backends
    <3>1. Destinations[cl] \in Seq(Backends)
      BY ClusterAssumption
    <3> QED
      BY <3>1 DEF ToSet
  <2> QED
    BY <1>2, <2>1 DEF CountAnew, FreshShare, NoTurns
<1> QED
  BY <1>1, <1>2

\* ... and what the requests have seen in the steps of one of them.
LEMMA GotoShort ==
    ASSUME TypeInv, SeenIsShort, NEW r \in Requests, NEW q, Goto(r, q),
           q.place = "scan" => Len(q.seen) < q.at,
           q.place = "choose" => Len(q.seen) <= Len(Destinations[q.cluster])
    PROVE  SeenIsShort'
<1>1. \A s \in Requests : request'[s] = IF s = r THEN q ELSE request[s]
  BY DEF Goto, TypeInv, RequestInv
<1> QED
  BY <1>1 DEF SeenIsShort

LEMMA LoadHealthShort ==
    ASSUME TypeInv, SeenIsShort, NEW r \in Requests, LoadHealth(r)
    PROVE  SeenIsShort'
<1>1. PICK q : q = request[r]
  OBVIOUS
<1>2. IsRequest(q) /\ ReadBefore(q) /\ q.place = "scan" /\ Len(q.seen) < q.at
  BY <1>1 DEF TypeInv, RequestInv, LoadHealth, SeenIsShort
<1>3. PICK cl \in Clusters, seen \in Seq(Backends), at \in Nat :
         cl = q.cluster /\ seen = q.seen /\ at = q.at /\ at \in DOMAIN Destinations[cl]
  <2>1. q.cluster \in Clusters /\ q.at \in DOMAIN Destinations[q.cluster]
    BY <1>2, Places
  <2>2. q.seen \in Seq(Backends)
    BY <1>2 DEF ReadBefore
  <2>3. q.at \in Nat
    <3>1. Destinations[q.cluster] \in Seq(Backends)
      BY <2>1, ClusterAssumption
    <3> QED
      BY <2>1, <3>1
  <2> QED
    BY <2>1, <2>2, <2>3
<1>4. Destinations[cl] \in Seq(Backends)
  BY ClusterAssumption
<1>5. PICK more \in Seq(Backends) :
         /\ more = IF Destinations[cl][at] \in healthy
                   THEN Append(seen, Destinations[cl][at]) ELSE seen
         /\ Len(more) <= at
  <2>1. PICK b \in Backends : b = Destinations[cl][at]
    BY <1>3, <1>4
  <2>2. Append(seen, b) \in Seq(Backends) /\ Len(Append(seen, b)) = Len(seen) + 1
    OBVIOUS
  <2>3. at \in Nat /\ Len(seen) \in Nat /\ Len(seen) < at
    BY <1>2, <1>3, <1>4
  <2>4. CASE b \in healthy
    <3>1. PICK m \in Seq(Backends) : m = Append(seen, b) /\ Len(m) = Len(seen) + 1
      BY <2>2
    <3>2. Len(m) <= at
      BY <2>3, <3>1
    <3> QED
      BY <2>1, <2>4, <3>1, <3>2
  <2>5. CASE b \notin healthy
    BY <2>1, <2>3, <2>5
  <2> QED
    BY <2>4, <2>5
<1>6. Goto(r, IF at < Len(Destinations[cl]) THEN Scanning(cl, at + 1, more)
              ELSE IF more = <<>> THEN Idle ELSE Choosing(cl, more))
  BY <1>1, <1>3, <1>5 DEF LoadHealth
<1>7. CASE at < Len(Destinations[cl])
  <2>1. PICK p : p = Scanning(cl, at + 1, more)
    OBVIOUS
  <2>2. p.place = "scan" /\ Len(p.seen) < p.at
    BY <1>3, <1>4, <1>5, <2>1 DEF Scanning
  <2> QED
    BY <1>6, <1>7, <2>1, <2>2, GotoShort
<1>8. CASE ~(at < Len(Destinations[cl])) /\ more = <<>>
  BY <1>6, <1>8, GotoShort DEF Idle
<1>9. CASE ~(at < Len(Destinations[cl])) /\ more # <<>>
  <2>1. PICK p : p = Choosing(cl, more)
    OBVIOUS
  <2>2. p.place = "choose" /\ Len(p.seen) <= Len(Destinations[p.cluster])
    BY <1>3, <1>4, <1>5, <2>1 DEF Choosing
  <2> QED
    BY <1>6, <1>9, <2>1, <2>2, GotoShort
<1> QED
  BY <1>7, <1>8, <1>9

LEMMA NextTurns == ASSUME TypeInv, TurnsInv, [Next]_vars PROVE TurnsInv'
<1>1. ASSUME UNCHANGED request PROVE SeenIsShort'
  BY <1>1 DEF TurnsInv, SeenIsShort
<1>2. ASSUME UNCHANGED <<healthy, next, share>>
      PROVE  \A cl \in Clusters : NoTurns(cl)' \/ TurnsFollow(cl, HealthyOf(cl))'
  BY <1>2, CountAnewTurns DEF CountAnew
<1>3. CASE \/ StartRound \/ EndRound \/ UNCHANGED vars
           \/ \E b \in Backends : \/ ProbeOk(b) \/ ProbeFails(b)
                                  \/ GoesDown(b) \/ ComesUp(b)
  BY <1>1, <1>2, <1>3
     DEF TurnsInv, StartRound, EndRound, ProbeOk, ProbeFails, GoesDown, ComesUp, checkVars, vars
<1>4. ASSUME NEW b \in Backends, SetHealth(b) PROVE TurnsInv'
  BY <1>1, <1>4, CountAnewTurns DEF TurnsInv, SetHealth
<1>5. ASSUME NEW r \in Requests, NEW cl \in Clusters, Receive(r, cl) PROVE TurnsInv'
  <2>1. SeenIsShort'
    BY <1>5, GotoShort DEF TurnsInv, Receive, Scanning
  <2> QED
    BY <1>2, <1>5, <2>1 DEF TurnsInv, Receive
<1>6. ASSUME NEW r \in Requests, LoadHealth(r) PROVE TurnsInv'
  BY <1>2, <1>6, LoadHealthShort DEF TurnsInv, LoadHealth
<1>7. ASSUME NEW r \in Requests, TakeTurn(r) PROVE TurnsInv'
  <2>1. \E b : Goto(r, Proxied(b))
    BY <1>7 DEF TakeTurn
  <2>2. SeenIsShort'
    BY <2>1, GotoShort DEF TurnsInv, Proxied
  <2> QED
    BY <1>7, <2>2, TakeTurnTurns DEF TurnsInv
<1>8. ASSUME NEW r \in Requests, Respond(r) \/ ProxyFails(r) PROVE TurnsInv'
  <2>1. SeenIsShort'
    BY <1>8, GotoShort DEF TurnsInv, Respond, ProxyFails, Idle
  <2> QED
    BY <1>2, <1>8, <2>1, CountAnewTurns DEF TurnsInv, Respond, ProxyFails
<1> QED
  BY <1>3, <1>4, <1>5, <1>6, <1>7, <1>8 DEF Next, CheckStep

\* While the flags of a cluster stay as they are, no backend is chosen a second
\* time before every healthy one has been chosen, however the requests interleave
\* (NextBackend's atomic counter).
THEOREM TurnsGoAround == Spec => []TurnsAreShared
<1>1. Init => TurnsInv
  <2> SUFFICES ASSUME Init PROVE TurnsInv
    OBVIOUS
  <2>1. ASSUME NEW cl \in Clusters PROVE NoTurns(cl)
    <3>1. Destinations[cl] \in Seq(Backends)
      BY ClusterAssumption
    <3> QED
      BY <3>1 DEF NoTurns, Init, ToSet
  <2> QED
    BY <2>1 DEF TurnsInv, SeenIsShort, Init, Idle
<1>2. TypeInv /\ TurnsInv /\ [Next]_vars => TypeInv' /\ TurnsInv'
  BY NextTypes, NextTurns
<1>3. TypeInv /\ TurnsInv => TurnsAreShared
  <2> SUFFICES ASSUME TurnsInv, NEW b \in Backends PROVE share[b] <= 1
    BY DEF TurnsAreShared
  <2>1. PICK cl \in Clusters : b \in ToSet(Destinations[cl])
    BY ClusterAssumption
  <2>2. CASE NoTurns(cl)
    BY <2>1, <2>2 DEF NoTurns
  <2>3. CASE TurnsFollow(cl, HealthyOf(cl))
    <3>1. PICK H : H = HealthyOf(cl)
      OBVIOUS
    <3>2. CASE b \notin ToSet(H)
      BY <2>1, <2>3, <3>1, <3>2 DEF TurnsFollow
    <3>3. CASE b \in ToSet(H)
      <4>1. H \in Seq(Backends) /\ IsInjective(H) /\ Len(H) \in Nat \ {0}
        <5>1. Destinations[cl] \in Seq(Backends)
          BY ClusterAssumption
        <5> QED
          BY <2>3, <3>1, <5>1 DEF TurnsFollow
      <4>2. Circles(Ring(H), Len(H), ToSet(H))
        BY <4>1, Circle
      <4>3. PICK i \in 0 .. Len(H) - 1 : b = Ring(H)[i]
        BY <3>3, <4>2 DEF Circles
      <4>4. PICK f : InRow(share, Ring(H), Len(H), f, next[cl] % Len(H))
        BY <2>3, <3>1 DEF TurnsFollow
      <4> QED
        BY <4>3, <4>4 DEF InRow
    <3> QED
      BY <3>2, <3>3
  <2> QED
    BY <2>2, <2>3 DEF TurnsInv
<1> QED
  BY <1>1, <1>2, <1>3, InitTypes, PTL DEF Spec
=============================================================================
