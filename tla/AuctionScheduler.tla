-------------------------- MODULE AuctionScheduler --------------------------
(***************************************************************************)
(* The auction timers of the bidding engine: StartAuctionScheduler and     *)
(* checkAuctionTimers in internal/bidding/service.go.  Every replica runs  *)
(* one scheduler, every five seconds, on the same auctions table.  A check *)
(* reads the clock once, then works through two query results that get     *)
(* older while it does.  Each action is one database operation, with the   *)
(* publication that follows it.                                            *)
(*                                                                         *)
(* A definition commented "Bug:" is not part of the specification.  It is  *)
(* the next one with a plausible mistake, which a property must reject.    *)
(***************************************************************************)
EXTENDS Integers, Sequences

CONSTANTS Auctions, Schedulers,
          StartsAt, EndsAt,    \* auction -> time
          MaxTime,             \* bounds the clock
          Winners,             \* who an auction may be announced for
          Faults               \* which failures may happen, of AllFaults

AllFaults == {"db",        \* a query or an update fails
              "publish",   \* an event is not published; the error is logged
              "crash"}     \* a scheduler dies in the middle of a check

ASSUME SchedulerAssumption ==
    /\ MaxTime \in Nat
    /\ StartsAt \in [Auctions -> 0 .. MaxTime]
    /\ EndsAt \in [Auctions -> 0 .. MaxTime]
    /\ Faults \subseteq AllFaults

VARIABLES now,         \* the clock
          status,      \* auctions.status, "absent" before the insert
          phase,       \* where each scheduler is
          checkTime,   \* the clock as a check read it
          rows,        \* the rows of the query it is working through
          closing,     \* the auction it has just ended and not yet announced, if any
          started,     \* auction -> how many auction.started were published
          announced    \* auction -> the winners of the auction.ended published

schedulerVars == <<phase, checkTime, rows, closing, started, announced>>
vars == <<now, status, schedulerVars>>

Phases == {"idle", "query", "activate", "end"}

TypeOK ==
    /\ now \in 0 .. MaxTime
    /\ status \in [Auctions -> {"absent", "pending", "active", "ended"}]
    /\ phase \in [Schedulers -> Phases]
    /\ checkTime \in [Schedulers -> 0 .. MaxTime]
    /\ rows \in [Schedulers -> SUBSET Auctions]
    /\ closing \in [Schedulers -> SUBSET Auctions]
    /\ started \in [Auctions -> Nat]
    /\ announced \in [Auctions -> Seq(Winners)]

SchedulerInit ==
    /\ now = 0
    /\ phase = [i \in Schedulers |-> "idle"]
    /\ checkTime = [i \in Schedulers |-> 0]
    /\ rows = [i \in Schedulers |-> {}]
    /\ closing = [i \in Schedulers |-> {}]
    /\ started = [a \in Auctions |-> 0]
    /\ announced = [a \in Auctions |-> <<>>]

Init == SchedulerInit /\ status = [a \in Auctions |-> "absent"]

Tick == now < MaxTime /\ now' = now + 1 /\ UNCHANGED <<status, schedulerVars>>

CreateAuction(a) ==
    /\ status[a] = "absent"
    /\ status' = [status EXCEPT ![a] = "pending"]
    /\ UNCHANGED <<now, schedulerVars>>

-----------------------------------------------------------------------------
Goto(i, p) == phase' = [phase EXCEPT ![i] = p]

Load(i, S) == rows' = [rows EXCEPT ![i] = S]

\* Bug: the check looks at the time of the next tick.
BeginCheckAhead(i) ==
    /\ phase[i] = "idle" /\ Goto(i, "query")
    /\ checkTime' = [checkTime EXCEPT ![i] = now + 1]
    /\ UNCHANGED <<now, status, rows, closing, started, announced>>

BeginCheck(i) ==
    /\ phase[i] = "idle" /\ Goto(i, "query")
    /\ checkTime' = [checkTime EXCEPT ![i] = now]
    /\ UNCHANGED <<now, status, rows, closing, started, announced>>

\* Bug: the first query looks at the time only, not at the status.
QueryStartDue(i) ==
    /\ phase[i] = "query" /\ Goto(i, "activate")
    /\ Load(i, {a \in Auctions : status[a] # "absent" /\ StartsAt[a] <= checkTime[i]})
    /\ UNCHANGED <<now, status, checkTime, closing, started, announced>>

QueryPending(i) ==
    /\ phase[i] = "query" /\ Goto(i, "activate")
    /\ Load(i, {a \in Auctions : status[a] = "pending" /\ StartsAt[a] <= checkTime[i]})
    /\ UNCHANGED <<now, status, checkTime, closing, started, announced>>

\* One round of the first loop: an update that does not look at the status it
\* replaces, then auction.started.
Activate(i, a) ==
    /\ phase[i] = "activate" /\ a \in rows[i] /\ Load(i, rows[i] \ {a})
    /\ status' = [status EXCEPT ![a] = "active"]
    /\ \/ started' = [started EXCEPT ![a] = @ + 1]
       \/ "publish" \in Faults /\ UNCHANGED started
    /\ UNCHANGED <<now, phase, checkTime, closing, announced>>

\* Bug: the second query looks at the time only.
QueryEndDue(i) ==
    /\ phase[i] = "activate" /\ rows[i] = {} /\ Goto(i, "end")
    /\ Load(i, {a \in Auctions : status[a] # "absent" /\ EndsAt[a] <= checkTime[i]})
    /\ UNCHANGED <<now, status, checkTime, closing, started, announced>>

\* Bug: the second query finds an auction only at the moment it ends.
QueryEndingNow(i) ==
    /\ phase[i] = "activate" /\ rows[i] = {} /\ Goto(i, "end")
    /\ Load(i, {a \in Auctions : status[a] = "active" /\ EndsAt[a] = checkTime[i]})
    /\ UNCHANGED <<now, status, checkTime, closing, started, announced>>

QueryEnded(i) ==
    /\ phase[i] = "activate" /\ rows[i] = {} /\ Goto(i, "end")
    /\ Load(i, {a \in Auctions : status[a] = "active" /\ EndsAt[a] <= checkTime[i]})
    /\ UNCHANGED <<now, status, checkTime, closing, started, announced>>

\* One round of the second loop: the same update ...
End(i, a) ==
    /\ phase[i] = "end" /\ closing[i] = {} /\ a \in rows[i] /\ Load(i, rows[i] \ {a})
    /\ status' = [status EXCEPT ![a] = "ended"]
    /\ closing' = [closing EXCEPT ![i] = {a}]
    /\ UNCHANGED <<now, phase, checkTime, started, announced>>

\* ... then the highest bid is read and auction.ended published with its bidder.
Announce(i, a, winner) ==
    /\ a \in closing[i] /\ closing' = [closing EXCEPT ![i] = {}]
    /\ \/ announced' = [announced EXCEPT ![a] = Append(@, winner)]
       \/ "publish" \in Faults /\ UNCHANGED announced
    /\ UNCHANGED <<now, status, phase, checkTime, rows, started>>

EndCheck(i) ==
    /\ phase[i] = "end" /\ rows[i] = {} /\ closing[i] = {} /\ Goto(i, "idle")
    /\ UNCHANGED <<now, status, checkTime, rows, closing, started, announced>>

\* A failed update skips its row, a failed query gives up the check.
DbFails(i) ==
    /\ "db" \in Faults /\ closing[i] = {}
    /\ \/ /\ phase[i] \in {"activate", "end"}
          /\ \E a \in rows[i] : Load(i, rows[i] \ {a})
          /\ UNCHANGED phase
       \/ /\ phase[i] \in {"query", "activate"} /\ rows[i] = {}
          /\ Goto(i, "idle") /\ UNCHANGED rows
    /\ UNCHANGED <<now, status, checkTime, closing, started, announced>>

\* The process dies and is started again.
Crash(i) ==
    /\ "crash" \in Faults /\ phase[i] # "idle" /\ Goto(i, "idle")
    /\ Load(i, {}) /\ closing' = [closing EXCEPT ![i] = {}]
    /\ UNCHANGED <<now, status, checkTime, started, announced>>

Step(i) ==
    \/ BeginCheck(i) \/ QueryPending(i) \/ QueryEnded(i) \/ EndCheck(i) \/ DbFails(i)
    \/ \E a \in Auctions : \/ Activate(i, a)
                           \/ End(i, a)
                           \/ \E w \in Winners : Announce(i, a, w)

Next ==
    \/ Tick
    \/ \E a \in Auctions : CreateAuction(a)
    \/ \E i \in Schedulers : Step(i) \/ Crash(i)

Spec == Init /\ [][Next]_vars

\* The clock advances, the ticker fires again and again, and the database,
\* though it may fail, does not fail one operation for ever.
FairSpec ==
    /\ Spec
    /\ WF_vars(Tick)
    /\ \A i \in Schedulers :
          /\ WF_vars(Step(i))
          /\ SF_vars(QueryPending(i)) /\ SF_vars(QueryEnded(i))
          /\ \A a \in Auctions : SF_vars(Activate(i, a)) /\ SF_vars(End(i, a))

-----------------------------------------------------------------------------
Rank == [s \in {"absent", "pending", "active", "ended"} |->
            CASE s = "absent" -> 0 [] s = "pending" -> 1
              [] s = "active" -> 2 [] s = "ended" -> 3]

\* An auction goes from pending to active to ended and never back, although the
\* updates are unconditional and made from old query results (service.go:326).
StatusMovesForward == [][\A a \in Auctions : Rank[status'[a]] >= Rank[status[a]]]_vars

\* An ended auction is announced once, and an announced one has ended: a
\* repeated check, a failure or a restart never announces a second winner.
AnnouncedOnce ==
    \A a \in Auctions : /\ Len(announced[a]) <= 1
                        /\ announced[a] # <<>> => status[a] = "ended"

\* An auction is started once and not before its time, ended not before its time.
StartedOnce ==
    \A a \in Auctions : /\ started[a] <= 1
                        /\ status[a] = "active" => StartsAt[a] <= now
                        /\ status[a] = "ended" => EndsAt[a] <= now

\* Neither event of an auction is published twice or ahead of its time, although
\* checks fail half-way and are repeated (service.go:345).
PublishedOnce == AnnouncedOnce /\ StartedOnce

\* Every auction comes to its end and stays there, whatever single failures and
\* restarts there are (service.go:345).
AuctionsEnd ==
    \A a \in Auctions : status[a] = "pending" ~> [](status[a] = "ended")

\* The end of an auction is announced (pkg/events/events.go:36).
EndsAreAnnounced ==
    \A a \in Auctions : status[a] = "ended" ~> announced[a] # <<>>
=============================================================================
