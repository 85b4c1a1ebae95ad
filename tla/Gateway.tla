------------------------------- MODULE Gateway -------------------------------
(***************************************************************************)
(* The gateway's clusters: internal/gateway/service.go.  Probes of all     *)
(* backends run side by side, one round after the other, and set the flag  *)
(* that requests read.  A request reads the flags of its cluster one by    *)
(* one, takes a number and goes to the backend of that number; when it     *)
(* fails it clears the flag itself.  No lock is held from one of these     *)
(* steps to the next.  Each action is one access to a shared flag or       *)
(* counter, or an answer from outside.                                     *)
(*                                                                         *)
(* A definition commented "Bug:" is not part of the specification.  It is  *)
(* the next one with a plausible mistake, which a property must reject.    *)
(***************************************************************************)
EXTENDS Integers, Sequences, SequencesExt

CONSTANTS Backends,
          Clusters,
          Destinations,   \* cluster -> its backends in the order of the file
          Requests,       \* bounds how many requests are served at a time
          Turns           \* the counter is kept modulo this; the code's has 64 bits
                          \* and does not come round

ASSUME ClusterAssumption ==
    /\ Destinations \in [Clusters -> Seq(Backends) \ {<<>>}]
    /\ \A b \in Backends : \E cl \in Clusters : b \in ToSet(Destinations[cl])
    /\ \A cl, other \in Clusters : \A m \in DOMAIN Destinations[cl] :
          \A n \in DOMAIN Destinations[other] :
             Destinations[cl][m] = Destinations[other][n] => cl = other /\ m = n
    /\ Turns \in Nat
    /\ \A cl \in Clusters : \A n \in DOMAIN Destinations[cl] : Turns > 0 /\ Turns % n = 0

VARIABLES up,        \* the backends that answer, a matter of the outside
          healthy,   \* the backends whose flag is set
          probe,     \* backend -> its probe
          checking,  \* runHealthChecks is running
          serving,   \* the first round is over and the server listens
          next,      \* cluster -> its counter
          request,   \* request -> where it is and what it has read
          wasUp,     \* history: the backends that were up since their last probe began
          share      \* history: backend -> the turns it had while the flags stayed as
                     \* they are, less those everyone had

checkVars == <<probe, checking, serving, wasUp>>
vars == <<up, healthy, checkVars, next, request, share>>

Idle == [place |-> "idle"]
Scanning(cl, at, seen) == [place |-> "scan", cluster |-> cl, at |-> at, seen |-> seen]
Choosing(cl, seen) == [place |-> "choose", cluster |-> cl, seen |-> seen]
Proxied(b) == [place |-> "proxied", backend |-> b]

IsRequest(q) ==
    \/ q = Idle
    \/ \E b \in Backends : q = Proxied(b)
    \/ \E cl \in Clusters :
          /\ "seen" \in DOMAIN q /\ IsInjective(q.seen)
          /\ ToSet(q.seen) \subseteq ToSet(Destinations[cl])
          /\ \/ \E at \in DOMAIN Destinations[cl] : q = Scanning(cl, at, q.seen)
             \/ q.seen # <<>> /\ q = Choosing(cl, q.seen)

\* One per module: the shape of the state.
TypeOK ==
    /\ up \subseteq Backends /\ healthy \subseteq Backends /\ wasUp \subseteq Backends
    /\ probe \in [Backends -> {"none", "sent", "ok", "failed"}]
    /\ checking \in BOOLEAN /\ serving \in BOOLEAN
    /\ next \in [Clusters -> 0 .. Turns - 1]
    /\ \A r \in Requests : IsRequest(request[r])
    /\ share \in [Backends -> Nat]

\* Start runs the first round before the server listens.
Init ==
    /\ up \in SUBSET Backends
    /\ healthy = {}
    /\ probe = [b \in Backends |-> "sent"] /\ checking = TRUE /\ serving = FALSE
    /\ next = [cl \in Clusters |-> 0]
    /\ request = [r \in Requests |-> Idle]
    /\ wasUp = up
    /\ share = [b \in Backends |-> 0]

-----------------------------------------------------------------------------
\* The flags and the history of the turns.

FreshShare == [b \in Backends |-> 0]

SetHealthy(b) == healthy' = healthy \cup {b}
SetUnhealthy(b) == healthy' = healthy \ {b}

\* The turns are counted anew when a flag changes.
CountAnew == share' = IF healthy' = healthy THEN share ELSE FreshShare

\* The backends of a cluster that are in S, in the order of the file.
AmongThem(cl, S) == SelectSeq(Destinations[cl], LAMBDA b : b \in S)

HealthyOf(cl) == AmongThem(cl, healthy)

\* One more turn for b; a turn that all healthy backends have had is forgotten.
CountTurn(cl, seen, b) ==
    LET more == [share EXCEPT ![b] = @ + 1]
    IN  share' = IF seen # HealthyOf(cl)
                 THEN [d \in Backends |-> IF d \in ToSet(Destinations[cl]) THEN 0 ELSE share[d]]
                 ELSE IF \A d \in ToSet(seen) : more[d] > 0
                 THEN [d \in Backends |-> IF d \in ToSet(seen) THEN more[d] - 1 ELSE more[d]]
                 ELSE more

-----------------------------------------------------------------------------
\* The health checks.

\* Bug: there is no ticker, only the round of the start.
StartRoundAtStart ==
    /\ ~checking /\ ~serving /\ checking' = TRUE
    /\ probe' = [b \in Backends |-> "sent"]
    /\ wasUp' = up
    /\ UNCHANGED <<up, healthy, serving, next, request, share>>

\* The ticker fires when no round is running; a tick that comes too early waits.
StartRound ==
    /\ ~checking /\ checking' = TRUE
    /\ probe' = [b \in Backends |-> "sent"]
    /\ wasUp' = up
    /\ UNCHANGED <<up, healthy, serving, next, request, share>>

\* A probe is answered with a status below 500, ...
ProbeOk(b) ==
    /\ probe[b] = "sent" /\ b \in up /\ probe' = [probe EXCEPT ![b] = "ok"]
    /\ UNCHANGED <<up, healthy, checking, serving, wasUp, next, request, share>>

\* ... or with another one, or not in time.
ProbeFails(b) ==
    /\ probe[b] = "sent" /\ probe' = [probe EXCEPT ![b] = "failed"]
    /\ UNCHANGED <<up, healthy, checking, serving, wasUp, next, request, share>>

\* Bug: a probe that fails leaves the flag to the requests.
SetHealthWhenOk(b) ==
    /\ probe[b] \in {"ok", "failed"} /\ probe' = [probe EXCEPT ![b] = "none"]
    /\ IF probe[b] = "ok" THEN SetHealthy(b) ELSE UNCHANGED healthy
    /\ CountAnew
    /\ UNCHANGED <<up, checking, serving, wasUp, next, request>>

\* Bug: only a failed probe touches the flag once it has been set.
SetHealthOnce(b) ==
    /\ probe[b] \in {"ok", "failed"} /\ probe' = [probe EXCEPT ![b] = "none"]
    /\ IF probe[b] = "ok" /\ ~serving THEN SetHealthy(b)
       ELSE IF probe[b] = "ok" THEN UNCHANGED healthy ELSE SetUnhealthy(b)
    /\ CountAnew
    /\ UNCHANGED <<up, checking, serving, wasUp, next, request>>

\* The flag follows the probe, whatever has happened since it was answered.
SetHealth(b) ==
    /\ probe[b] \in {"ok", "failed"} /\ probe' = [probe EXCEPT ![b] = "none"]
    /\ IF probe[b] = "ok" THEN SetHealthy(b) ELSE SetUnhealthy(b)
    /\ CountAnew
    /\ UNCHANGED <<up, checking, serving, wasUp, next, request>>

\* wg.Wait returns; after the first round the server is started.
EndRound ==
    /\ checking /\ \A b \in Backends : probe[b] = "none"
    /\ checking' = FALSE /\ serving' = TRUE
    /\ UNCHANGED <<up, healthy, probe, wasUp, next, request, share>>

-----------------------------------------------------------------------------
\* A request.
Goto(r, q) == request' = [request EXCEPT ![r] = q]

\* ServeHTTP, for a path that has a route; one that has none is answered 404.
Receive(r, cl) ==
    /\ serving /\ request[r] = Idle /\ Goto(r, Scanning(cl, 1, <<>>))
    /\ UNCHANGED <<up, healthy, checkVars, next, share>>

\* Bug: an empty list of healthy backends is not looked at.
LoadHealthUnchecked(r) ==
    /\ request[r].place = "scan"
    /\ LET q == request[r]
           b == Destinations[q.cluster][q.at]
           seen == IF b \in healthy THEN Append(q.seen, b) ELSE q.seen
       IN  Goto(r, IF q.at < Len(Destinations[q.cluster]) THEN Scanning(q.cluster, q.at + 1, seen)
                   ELSE Choosing(q.cluster, seen))
    /\ UNCHANGED <<up, healthy, checkVars, next, share>>

\* NextBackend reads one flag.  With none set in the end the answer is 503.
LoadHealth(r) ==
    /\ request[r].place = "scan"
    /\ LET q == request[r]
           b == Destinations[q.cluster][q.at]
           seen == IF b \in healthy THEN Append(q.seen, b) ELSE q.seen
       IN  Goto(r, IF q.at < Len(Destinations[q.cluster]) THEN Scanning(q.cluster, q.at + 1, seen)
                   ELSE IF seen = <<>> THEN Idle ELSE Choosing(q.cluster, seen))
    /\ UNCHANGED <<up, healthy, checkVars, next, share>>

\* Bug: the counter is loaded and stored, and an update may be lost.
TakeTurnTwice(r) ==
    /\ request[r].place = "choose"
    /\ LET cl == request[r].cluster
           seen == request[r].seen
           b == seen[(next[cl] % Len(seen)) + 1]
       IN  /\ next' \in {next, [next EXCEPT ![cl] = (@ + 1) % Turns]}
           /\ Goto(r, Proxied(b)) /\ CountTurn(cl, seen, b)
    /\ UNCHANGED <<up, healthy, checkVars>>

\* NextBackend adds to the counter and picks by the number it got.
TakeTurn(r) ==
    /\ request[r].place = "choose"
    /\ LET cl == request[r].cluster
           seen == request[r].seen
           b == seen[(next[cl] % Len(seen)) + 1]
       IN  /\ next' = [next EXCEPT ![cl] = (@ + 1) % Turns]
           /\ Goto(r, Proxied(b)) /\ CountTurn(cl, seen, b)
    /\ UNCHANGED <<up, healthy, checkVars>>

\* The backend answers, with any status.
Respond(r) ==
    /\ request[r].place = "proxied" /\ request[r].backend \in up /\ Goto(r, Idle)
    /\ UNCHANGED <<up, healthy, checkVars, next, share>>

\* handleProxyError: the backend is down, the connection breaks, or the client
\* gives up, which looks the same.  The answer is 502.
ProxyFails(r) ==
    /\ request[r].place = "proxied" /\ Goto(r, Idle)
    /\ SetUnhealthy(request[r].backend) /\ CountAnew
    /\ UNCHANGED <<up, checkVars, next>>

-----------------------------------------------------------------------------
\* The outside.
GoesDown(b) ==
    /\ b \in up /\ up' = up \ {b}
    /\ UNCHANGED <<healthy, checkVars, next, request, share>>

ComesUp(b) ==
    /\ b \notin up /\ up' = up \cup {b} /\ wasUp' = wasUp \cup {b}
    /\ UNCHANGED <<healthy, probe, checking, serving, next, request, share>>

CheckStep ==
    \/ StartRound \/ EndRound
    \/ \E b \in Backends : ProbeOk(b) \/ ProbeFails(b) \/ SetHealth(b)

Next ==
    \/ CheckStep
    \/ \E b \in Backends : GoesDown(b) \/ ComesUp(b)
    \/ \E r \in Requests : \/ \E cl \in Clusters : Receive(r, cl)
                           \/ LoadHealth(r) \/ TakeTurn(r) \/ Respond(r) \/ ProxyFails(r)

Spec == Init /\ [][Next]_vars

\* The ticker fires, a probe has a timeout, and every goroutine of a round runs.
\* A backend that stays up is not too slow for its probes for ever.  Nothing is
\* assumed of requests: a proxied one has no timeout.
FairSpec ==
    /\ Spec
    /\ WF_vars(StartRound) /\ WF_vars(EndRound)
    /\ \A b \in Backends : /\ WF_vars(ProbeOk(b) \/ ProbeFails(b))
                           /\ SF_vars(ProbeOk(b))
                           /\ WF_vars(SetHealth(b))

-----------------------------------------------------------------------------
\* A flag outlives its backend by one round at most: when a probe has been dealt
\* with and the flag is set, the backend was up at some time since that probe was
\* sent, whatever requests did in the meantime (service.go:305).
FlagsAreOneRoundOld ==
    \A b \in Backends : probe[b] = "none" /\ b \in healthy => b \in wasUp

\* While the flags of a cluster stay as they are, no backend is chosen a second
\* time before every healthy one has been chosen, however the requests interleave
\* (service.go:370; TestClusterNextBackendRoundRobin for one request at a time).
TurnsAreShared == \A b \in Backends : share[b] <= 1

\* A backend that is down for good is taken out for good, although probes that
\* were answered before may still set its flag (service.go:304).
DeadAreTakenOut ==
    \A b \in Backends : <>[](b \notin up) => <>[](b \notin healthy)

\* A backend that stays up is let in again and again, although clients that give
\* up clear its flag (service.go:231).
LiveAreLetIn ==
    \A b \in Backends : <>[](b \in up) => []<>(b \in healthy)
=============================================================================
