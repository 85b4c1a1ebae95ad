------------------------------ MODULE RateMeter ------------------------------
(***************************************************************************)
(* What the gateway's rate limiter promises, without tokens and expiry: a  *)
(* client owes time.  Each admission costs one refill interval, the debt   *)
(* is paid by waiting, and nobody may owe more than Capacity intervals.    *)
(***************************************************************************)
EXTENDS Integers, Sequences

CONSTANTS Clients, Capacity, RefillInterval

VARIABLES clock,      \* the clock of the store, which may be set back
          latest,     \* the latest time it has shown
          debt,       \* client -> the time it has to wait to owe nothing
          answer,     \* client -> what has become of its last request
          admitted    \* client -> when it was admitted since the last set-back

vars == <<clock, latest, debt, answer, admitted>>

Limit == Capacity * RefillInterval

Init ==
    /\ clock \in Nat
    /\ latest = clock
    /\ debt = [c \in Clients |-> 0]
    /\ answer = [c \in Clients |-> "none"]
    /\ admitted = [c \in Clients |-> <<>>]

Tick ==
    /\ clock' = clock + 1
    /\ latest' = IF clock < latest THEN latest ELSE clock'
    /\ debt' = [c \in Clients |-> IF debt[c] = 0 THEN 0 ELSE debt[c] - 1]
    /\ UNCHANGED <<answer, admitted>>

\* The time by which the clock is set back is waited for once more, at most.
SetBack(d) ==
    /\ clock' = clock - d
    /\ debt' \in [Clients -> Nat]
    /\ \A c \in Clients : debt[c] <= debt'[c] /\ debt'[c] <= debt[c] + d
    /\ admitted' = [c \in Clients |-> <<>>]
    /\ UNCHANGED <<latest, answer>>

Ask(c) ==
    /\ answer[c] # "asked" /\ answer' = [answer EXCEPT ![c] = "asked"]
    /\ UNCHANGED <<clock, latest, debt, admitted>>

\* What a client may be taken to owe.  While the clock is behind a time it has
\* shown, that may be less than the debt; it is never more than the limit.
Owed(c) == {d \in 0 .. debt[c] : d <= Limit /\ (d = debt[c] \/ clock < latest)}

Owes(c, d) == debt' = [debt EXCEPT ![c] = d]

Admit(c) ==
    /\ answer[c] = "asked" /\ answer' = [answer EXCEPT ![c] = "admitted"]
    /\ \E d \in Owed(c) : d + RefillInterval <= Limit /\ Owes(c, d + RefillInterval)
    /\ admitted' = [admitted EXCEPT ![c] = Append(@, clock)]
    /\ UNCHANGED <<clock, latest>>

Refuse(c) ==
    /\ answer[c] = "asked" /\ answer' = [answer EXCEPT ![c] = "refused"]
    /\ \E d \in Owed(c) : d + RefillInterval > Limit /\ Owes(c, d)
    /\ UNCHANGED <<clock, latest, admitted>>

\* A request the limiter could not decide costs an interval or nothing.
Fail(c) ==
    /\ answer[c] = "asked" /\ answer' = [answer EXCEPT ![c] = "unavailable"]
    /\ \/ UNCHANGED debt
       \/ \E d \in Owed(c) : \/ d + RefillInterval <= Limit /\ Owes(c, d + RefillInterval)
                             \/ d + RefillInterval > Limit /\ Owes(c, d)
    /\ UNCHANGED <<clock, latest, admitted>>

Next ==
    \/ Tick
    \/ \E d \in 1 .. clock : SetBack(d)
    \/ \E c \in Clients : Ask(c) \/ Admit(c) \/ Refuse(c) \/ Fail(c)

Spec == Init /\ [][Next]_vars
=============================================================================
