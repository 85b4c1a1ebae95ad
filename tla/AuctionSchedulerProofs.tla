------------------------ MODULE AuctionSchedulerProofs ------------------------
(***************************************************************************)
(* Theorems about AuctionScheduler: the shape of its state for any number  *)
(* of replicas, and for a single one that no auction goes back and none of *)
(* its events is published twice, for any auctions and times and with      *)
(* every failure.                                                          *)
(***************************************************************************)
EXTENDS AuctionScheduler, TLAPS

LEMMA InitTypes == Init => TypeOK
BY SchedulerAssumption DEF Init, SchedulerInit, TypeOK, Phases

LEMMA NextTypes == ASSUME TypeOK, [Next]_vars PROVE TypeOK'
<1> USE SchedulerAssumption DEF TypeOK, schedulerVars, Goto, Load
<1>1. CASE Tick
  BY <1>1 DEF Tick
<1>2. ASSUME NEW a \in Auctions, CreateAuction(a) PROVE TypeOK'
  BY <1>2 DEF CreateAuction
<1>3. ASSUME NEW i \in Schedulers, BeginCheck(i) PROVE TypeOK'
  BY <1>3 DEF BeginCheck, Phases
<1>4. ASSUME NEW i \in Schedulers, QueryPending(i) \/ QueryEnded(i) PROVE TypeOK'
  <2>1. /\ \E p \in Phases : phase' = [phase EXCEPT ![i] = p]
        /\ \E S \in SUBSET Auctions : rows' = [rows EXCEPT ![i] = S]
        /\ UNCHANGED <<now, status, checkTime, closing, started, announced>>
    <3>1. CASE QueryPending(i)
      BY <3>1 DEF QueryPending, Phases
    <3>2. CASE QueryEnded(i)
      BY <3>2 DEF QueryEnded, Phases
    <3> QED
      BY <1>4, <3>1, <3>2
  <2>2. phase' \in [Schedulers -> Phases] /\ rows' \in [Schedulers -> SUBSET Auctions]
    BY <2>1
  <2> QED
    BY <2>1, <2>2
<1>5. ASSUME NEW i \in Schedulers, NEW a \in Auctions, Activate(i, a) PROVE TypeOK'
  <2>1. started' = [started EXCEPT ![a] = @ + 1] \/ started' = started
    BY <1>5 DEF Activate
  <2>2. started \in [Auctions -> Nat] /\ started[a] + 1 \in Nat
    OBVIOUS
  <2>3. started' \in [Auctions -> Nat]
    BY ONLY <2>1, <2>2
  <2> QED
    BY <1>5, <2>3 DEF Activate
<1>6. ASSUME NEW i \in Schedulers, NEW a \in Auctions, End(i, a) PROVE TypeOK'
  BY <1>6 DEF End
<1>7. ASSUME NEW i \in Schedulers, NEW a \in Auctions, NEW w \in Winners, Announce(i, a, w)
      PROVE  TypeOK'
  <2>1. announced' = [announced EXCEPT ![a] = Append(@, w)] \/ announced' = announced
    BY <1>7 DEF Announce
  <2>2. Append(announced[a], w) \in Seq(Winners)
    OBVIOUS
  <2>3. announced' \in [Auctions -> Seq(Winners)]
    BY <2>1, <2>2
  <2> QED
    BY <1>7, <2>3 DEF Announce
<1>8. ASSUME NEW i \in Schedulers, EndCheck(i) PROVE TypeOK'
  BY <1>8 DEF EndCheck, Phases
<1>9. ASSUME NEW i \in Schedulers, DbFails(i) PROVE TypeOK'
  BY <1>9 DEF DbFails, Phases
<1>10. ASSUME NEW i \in Schedulers, Crash(i) PROVE TypeOK'
  BY <1>10 DEF Crash, Phases
<1>11. CASE UNCHANGED vars
  BY <1>11 DEF vars
<1> QED
  BY <1>1, <1>2, <1>3, <1>4, <1>5, <1>6, <1>7, <1>8, <1>9, <1>10, <1>11 DEF Next, Step

\* The scheduler's state keeps its shape, for any number of replicas
\* (checkAuctionTimers).
THEOREM Typing == Spec => []TypeOK
BY InitTypes, NextTypes, PTL DEF Spec

-----------------------------------------------------------------------------
\* With one replica a query result does not get old: the rows it has still to
\* work through are as the query found them.
OneReplica == \A i, j \in Schedulers : i = j

RowsAreFresh ==
    \A i \in Schedulers :
        /\ phase[i] \in {"idle", "query"} => rows[i] = {}
        /\ phase[i] = "activate" =>
             \A a \in rows[i] : status[a] = "pending" /\ StartsAt[a] <= checkTime[i]
        /\ phase[i] = "end" =>
             \A a \in rows[i] : status[a] = "active" /\ EndsAt[a] <= checkTime[i]

\* What has been ended and not yet announced has no announcement, and one that
\* has not come so far has none either.
ClosingIsSilent ==
    /\ \A i \in Schedulers : closing[i] # {} => phase[i] = "end"
    /\ \A i \in Schedulers, a \in Auctions :
          a \in closing[i] => status[a] = "ended" /\ announced[a] = <<>>
    /\ \A a \in Auctions : status[a] \in {"absent", "pending"} => started[a] = 0

ChecksAreLate == \A i \in Schedulers : checkTime[i] <= now

TimerInv == TypeOK /\ RowsAreFresh /\ ClosingIsSilent /\ ChecksAreLate /\ PublishedOnce

LEMMA InitTimer == Init => TimerInv
<1> SUFFICES ASSUME Init PROVE TimerInv
  OBVIOUS
<1>1. TypeOK
  BY InitTypes
<1>2. RowsAreFresh /\ ClosingIsSilent /\ ChecksAreLate
  BY DEF Init, SchedulerInit, RowsAreFresh, ClosingIsSilent, ChecksAreLate
<1>3. PublishedOnce
  BY DEF Init, SchedulerInit, PublishedOnce, AnnouncedOnce, StartedOnce
<1> QED
  BY <1>1, <1>2, <1>3 DEF TimerInv

\* The two loops change the status of a row only as its query allows it.
LEMMA NextMoves ==
    ASSUME TimerInv, [Next]_vars
    PROVE  \A a \in Auctions : Rank[status'[a]] >= Rank[status[a]]
<1> USE DEF TimerInv, TypeOK, Rank
<1>1. ASSUME UNCHANGED status PROVE \A a \in Auctions : Rank[status'[a]] >= Rank[status[a]]
  BY <1>1
<1>2. ASSUME NEW i \in Schedulers, NEW a \in Auctions, Activate(i, a) \/ End(i, a)
      PROVE  \A d \in Auctions : Rank[status'[d]] >= Rank[status[d]]
  BY <1>2 DEF Activate, End, RowsAreFresh
<1>3. ASSUME NEW a \in Auctions, CreateAuction(a)
      PROVE  \A d \in Auctions : Rank[status'[d]] >= Rank[status[d]]
  BY <1>3 DEF CreateAuction
<1> QED
  BY <1>1, <1>2, <1>3
     DEF Next, Step, Tick, BeginCheck, QueryPending, QueryEnded, EndCheck, DbFails, Announce,
         Crash, vars

LEMMA NextTimer == ASSUME OneReplica, TimerInv, [Next]_vars PROVE TimerInv'
<1> DEFINE Rest == RowsAreFresh /\ ClosingIsSilent /\ ChecksAreLate /\ PublishedOnce
<1> SUFFICES Rest'
  BY NextTypes DEF TimerInv
<1>0. TypeOK /\ OneReplica /\ Rest
  BY DEF TimerInv
<1> USE <1>0, SchedulerAssumption
    DEF OneReplica, TypeOK, RowsAreFresh, ClosingIsSilent, ChecksAreLate, PublishedOnce,
        AnnouncedOnce, StartedOnce, Goto, Load, schedulerVars
<1>1. CASE Tick
  BY <1>1 DEF Tick
<1>2. ASSUME NEW a \in Auctions, CreateAuction(a) PROVE Rest'
  BY <1>2 DEF CreateAuction
<1>3. ASSUME NEW i \in Schedulers, BeginCheck(i) PROVE Rest'
  BY <1>3 DEF BeginCheck
<1>4. ASSUME NEW i \in Schedulers, QueryPending(i) PROVE Rest'
  BY <1>4 DEF QueryPending
<1>5. ASSUME NEW i \in Schedulers, QueryEnded(i) PROVE Rest'
  BY <1>5 DEF QueryEnded
<1>6. ASSUME NEW i \in Schedulers, NEW a \in Auctions, Activate(i, a) PROVE Rest'
  <2>1. /\ status' = [status EXCEPT ![a] = "active"]
        /\ rows' = [rows EXCEPT ![i] = @ \ {a}]
        /\ phase[i] = "activate" /\ a \in rows[i]
        /\ UNCHANGED <<now, phase, checkTime, closing, announced>>
        /\ \A d \in Auctions : started'[d] = started[d] \/ (d = a /\ started'[d] = started[d] + 1)
    BY <1>6 DEF Activate
  <2>2. status[a] = "pending" /\ StartsAt[a] <= now
    BY <2>1
  <2> QED
    BY <2>1, <2>2
<1>7. ASSUME NEW i \in Schedulers, NEW a \in Auctions, End(i, a) PROVE Rest'
  BY <1>7 DEF End
<1>8. ASSUME NEW i \in Schedulers, NEW a \in Auctions, NEW w \in Winners, Announce(i, a, w)
      PROVE  Rest'
  <2>1. /\ closing' = [closing EXCEPT ![i] = {}] /\ status[a] = "ended" /\ announced[a] = <<>>
        /\ UNCHANGED <<now, status, phase, checkTime, rows, started>>
    BY <1>8 DEF Announce
  <2>2. announced' = announced \/ announced' = [announced EXCEPT ![a] = Append(@, w)]
    BY <1>8 DEF Announce
  <2> DEFINE more == Append(announced[a], w)
  <2>3. Len(more) = 1
    BY <2>1
  <2> HIDE DEF more
  <2>4. CASE announced' = announced
    BY <2>1, <2>4
  <2>5. CASE announced' = [announced EXCEPT ![a] = more]
    <3>1. \A d \in Auctions : announced'[d] = IF d = a THEN more ELSE announced[d]
      BY <2>5
    <3>2. AnnouncedOnce'
      <4>1. \A d \in Auctions : Len(announced'[d]) <= 1
        <5>1. ASSUME NEW d \in Auctions, d # a PROVE Len(announced'[d]) <= 1
          BY <3>1, <5>1
        <5>2. announced'[a] = more
          BY <3>1
        <5>3. Len(announced'[a]) <= 1
          BY ONLY <2>3, <5>2
        <5> QED
          BY <5>1, <5>3
      <4>2. \A d \in Auctions : announced'[d] # <<>> => status'[d] = "ended"
        BY <2>1, <3>1
      <4> QED
        BY <4>1, <4>2
    <3>3. \A j \in Schedulers : closing'[j] = {}
      BY <2>1
    <3>4. ClosingIsSilent'
      BY <2>1, <3>3
    <3>5. StartedOnce' /\ RowsAreFresh' /\ ChecksAreLate'
      BY <2>1
    <3> QED
      BY <3>2, <3>4, <3>5
  <2> QED
    BY <2>2, <2>4, <2>5 DEF more
<1>9. ASSUME NEW i \in Schedulers, EndCheck(i) PROVE Rest'
  BY <1>9 DEF EndCheck
<1>10. ASSUME NEW i \in Schedulers, DbFails(i) PROVE Rest'
  BY <1>10 DEF DbFails
<1>11. ASSUME NEW i \in Schedulers, Crash(i) PROVE Rest'
  BY <1>11 DEF Crash
<1>12. CASE UNCHANGED vars
  BY <1>12 DEF vars
<1> QED
  BY <1>1, <1>2, <1>3, <1>4, <1>5, <1>6, <1>7, <1>8, <1>9, <1>10, <1>11, <1>12 DEF Next, Step

\* One replica publishes no event twice and none ahead of its time, whatever
\* fails and however often it is restarted (checkAuctionTimers).
THEOREM EventsComeOnce == OneReplica => (Spec => []PublishedOnce)
<1> SUFFICES ASSUME OneReplica PROVE Spec => []PublishedOnce
  OBVIOUS
<1>1. TimerInv /\ [Next]_vars => TimerInv'
  BY NextTimer
<1>2. TimerInv => PublishedOnce
  BY DEF TimerInv
<1> QED
  BY <1>1, <1>2, InitTimer, PTL DEF Spec

\* With one replica no auction goes back, although the updates of both loops do
\* not look at the status they replace (UpdateAuctionStatus).
THEOREM NoWayBack == OneReplica => (Spec => StatusMovesForward)
<1> SUFFICES ASSUME OneReplica PROVE Spec => StatusMovesForward
  OBVIOUS
<1>1. TimerInv /\ [Next]_vars => TimerInv'
  BY NextTimer
<1>2. TimerInv /\ [Next]_vars => [\A a \in Auctions : Rank[status'[a]] >= Rank[status[a]]]_vars
  BY NextMoves
<1> QED
  BY <1>1, <1>2, InitTimer, PTL DEF Spec, StatusMovesForward
=============================================================================
