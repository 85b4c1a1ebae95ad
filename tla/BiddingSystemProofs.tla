------------------------- MODULE BiddingSystemProofs -------------------------
(***************************************************************************)
(* What carries the theorems about BidPlacement, AuctionScheduler and      *)
(* PaymentValidator over to the composed system: its steps are theirs, for *)
(* any calls, users, auctions, replicas and wallets, and with every        *)
(* failure of the network and of the components.                           *)
(***************************************************************************)
EXTENDS BiddingSystem, TLAPS

\* What an action of one component may rely on of the others.  Calls that have
\* been submitted have a request, ...
RequestsAreKnown ==
    /\ DOMAIN pc = Calls
    /\ DOMAIN req = {c \in Calls : pc[c] # "idle"}
    /\ \A c \in DOMAIN req : req[c] \in Requests
    /\ bids \subseteq DOMAIN req

\* ... a message is about such a call, or about an auction that was announced, ...
SubmittedCalls == {c \in Calls : pc[c] # "idle"}

MessagesAreKnown ==
    net \subseteq [type : {"validate", "reserve", "release"} \cup Replies, call : SubmittedCalls]
                    \cup [type : {"ended"}, auction : Auctions, winner : Users \cup {NoWinner}]

\* ... and a query finds rows only.
RowsExist ==
    /\ DOMAIN status = Auctions /\ DOMAIN rows = Schedulers
    /\ \A i \in Schedulers : \A a \in rows[i] : a \in Auctions /\ status[a] # "absent"

SystemInv == RequestsAreKnown /\ MessagesAreKnown /\ RowsExist

-----------------------------------------------------------------------------
\* The steps of the engine on its own part of the state.

LEMMA CallSteps ==
    ASSUME NEW c \in Calls, CallStep(c) PROVE Bid!CallStep(c)
<1> USE DEF Bid!CallStep
<1>1. ASSUME CheckAuction(c) PROVE Bid!CallStep(c)
  <2>1. CASE Bid!CheckAuction(c, now > EndsAt[req[c].auction])
    <3>1. (now > EndsAt[req[c].auction]) \in BOOLEAN
      OBVIOUS
    <3> DEFINE late == now > EndsAt[req[c].auction]
    <3>2. late \in BOOLEAN /\ Bid!CheckAuction(c, late)
      BY <2>1, <3>1
    <3> HIDE DEF late
    <3> QED
      BY <3>2
  <2>2. CASE Bid!CheckAuctionFails(c)
    BY <2>2
  <2> QED
    BY <1>1, <2>1, <2>2 DEF CheckAuction, Engine
<1>2. ASSUME PrepareBid(c) PROVE Bid!CallStep(c)
  BY <1>2 DEF PrepareBid
<1>3. ASSUME LocalStep(c) PROVE Bid!CallStep(c)
  BY <1>3 DEF LocalStep, Engine
<1>4. ASSUME NEW reply \in Bid!Replies, Take(c, reply) PROVE Bid!CallStep(c)
  BY <1>4 DEF Take
<1>5. ASSUME ReleaseReservation(c) PROVE Bid!CallStep(c)
  BY <1>5 DEF ReleaseReservation
<1>6. {"yes", "no", "none"} \subseteq Bid!Replies
  BY DEF Bid!Replies
<1>7. ASSUME TakeReply(c) \/ Timeout(c) \/ StreamAck(c) PROVE Bid!CallStep(c)
  <2>1. \E reply \in {"yes", "no", "none"} : Take(c, reply)
    BY <1>7 DEF TakeReply, Timeout, StreamAck
  <2> QED
    BY <1>4, <1>6, <2>1
<1> QED
  BY <1>1, <1>2, <1>3, <1>5, <1>7 DEF CallStep

\* What the engine's steps leave alone.
LEMMA CallFrame ==
    ASSUME NEW c \in Calls, CallStep(c)
    PROVE  UNCHANGED <<timerVars, paymentVars>>
BY DEF CallStep, CheckAuction, LocalStep, PrepareBid, TakeReply, Timeout, StreamAck, Take,
       ReleaseReservation, Engine

\* Only the tables' writers change a status.
LEMMA EngineKeepsStatus == ASSUME NEW c \in Calls, CallStep(c) PROVE UNCHANGED status
<1> USE DEF Engine, Bid!dbVars
<1>1. CASE CheckAuction(c)
  BY <1>1 DEF CheckAuction, Bid!CheckAuction, Bid!CheckAuctionFails
<1>2. CASE PrepareBid(c)
  BY <1>2 DEF PrepareBid, Bid!PrepareBid
<1>3. CASE LocalStep(c)
  BY <1>3 DEF LocalStep, Bid!PrepareBidFails, Bid!CreateBid, Bid!CreateBidFails, Bid!InsertBid,
              Bid!CompleteBid, Bid!ReadHighest, Bid!PublishUpdate
<1>4. ASSUME NEW reply, Take(c, reply) PROVE UNCHANGED status
  BY <1>4 DEF Take, Bid!ValidateReply, Bid!ReserveReply, Bid!TakeReply
<1>5. CASE ReleaseReservation(c)
  BY <1>5 DEF ReleaseReservation, Bid!ReleaseReservation
<1> QED
  BY <1>1, <1>2, <1>3, <1>4, <1>5 DEF CallStep, TakeReply, Timeout, StreamAck

LEMMA HandleFrame == ASSUME Handle PROVE UNCHANGED <<placementVars, status, timerVars>>
BY DEF Handle, HandleNotice, HandleValidate, HandleReserve, HandleRelease, HandleAuctionEnded,
       timerVars

LEMMA CheckFrame ==
    ASSUME NEW i \in Schedulers, CheckTimers(i) PROVE UNCHANGED <<placementVars, paymentVars>>
BY DEF CheckTimers, Announce

LEMMA UpdateSteps ==
    ASSUME SystemInv, NEW i \in Schedulers, CheckTimers(i)
    PROVE  [Bid!Next]_(Bid!vars)
<1>1. UNCHANGED placementVars
  BY CheckFrame
<1>2. ASSUME NEW a \in Auctions, NEW s \in {"active", "ended"},
             a \in rows[i], status' = [status EXCEPT ![a] = s]
      PROVE  Bid!Next
  <2>1. Bid!UpdateAuctionStatus(a, s)
    BY <1>1, <1>2
       DEF SystemInv, RowsExist, placementVars, Bid!UpdateAuctionStatus, Bid!callVars, Bid!redisVars
  <2> QED
    BY <2>1 DEF Bid!Next, Bid!AuctionStep
<1>3. ASSUME NEW a \in Auctions, Timer!Activate(i, a) PROVE Bid!Next
  BY <1>2, <1>3 DEF Timer!Activate
<1>4. ASSUME NEW a \in Auctions, Timer!End(i, a) PROVE Bid!Next
  BY <1>2, <1>4 DEF Timer!End
<1>5. UNCHANGED status => UNCHANGED Bid!vars
  BY <1>1 DEF placementVars, Bid!vars, Bid!callVars, Bid!redisVars, Bid!dbVars
<1> QED
  BY <1>3, <1>4, <1>5
     DEF CheckTimers, Announce, Timer!Announce, Timer!BeginCheck, Timer!QueryPending,
         Timer!QueryEnded, Timer!EndCheck, Timer!DbFails, Timer!Crash

LEMMA EngineRefines == ASSUME SystemInv, [Next]_vars PROVE [Bid!Next]_(Bid!vars)
<1>1. ASSUME NEW c \in Calls, NEW r \in Requests, Submit(c, r) PROVE Bid!Next
  BY <1>1 DEF Submit, Engine, Bid!Next
<1>2. ASSUME NEW c \in Calls, CallStep(c) PROVE Bid!Next
  BY <1>2, CallSteps DEF Bid!Next
<1>3. ASSUME NEW c \in Calls, Crash(c) PROVE Bid!Next
  BY <1>3 DEF Crash, Bid!Next
<1>4. ASSUME NEW a \in Auctions, Create(a) PROVE Bid!Next
  BY <1>4 DEF Create, Bid!Next, Bid!AuctionStep
<1>5. UNCHANGED <<placementVars, status>> => UNCHANGED Bid!vars
  BY DEF placementVars, Bid!vars, Bid!callVars, Bid!redisVars, Bid!dbVars
<1>6. Handle \/ RestartValidator \/ Lose \/ Tick => UNCHANGED <<placementVars, status>>
  BY HandleFrame DEF RestartValidator, Lose, Tick, Timer!Tick
<1> QED
  BY <1>1, <1>2, <1>3, <1>4, <1>5, <1>6, UpdateSteps DEF Next, vars

-----------------------------------------------------------------------------
\* The steps of the scheduler.

\* The winner announced is a bidder, or nobody.
LEMMA WinnersAreUsers ==
    ASSUME RequestsAreKnown, NEW a \in Auctions
    PROVE  WinnersRead(a) \subseteq Users \cup {NoWinner}
<1>1. \A b \in bids : req[b].user \in Users
  BY SystemAssumption DEF RequestsAreKnown
<1>2. HighestBidders(a) \subseteq Users
  BY <1>1 DEF HighestBidders
<1> QED
  BY <1>2 DEF WinnersRead

LEMMA SchedulerRefines == ASSUME SystemInv, [Next]_vars PROVE [Timer!Next]_(Timer!vars)
<1> USE DEF timerVars, Timer!vars, Timer!schedulerVars
<1>1. ASSUME NEW a \in Auctions, Create(a) PROVE Timer!Next
  BY <1>1 DEF Create, Timer!Next
<1>2. ASSUME Tick PROVE Timer!Next
  BY <1>2 DEF Tick, Timer!Next
<1>3. ASSUME NEW i \in Schedulers, CheckTimers(i) PROVE Timer!Next
  <2>1. ASSUME NEW a \in Auctions, Announce(i, a) PROVE Timer!Next
    BY <2>1, WinnersAreUsers DEF Announce, SystemInv, Timer!Next, Timer!Step
  <2> QED
    BY <1>3, <2>1 DEF CheckTimers, Timer!Next, Timer!Step
<1>4. ASSUME NEW c \in Calls, CallStep(c) PROVE UNCHANGED Timer!vars
  BY <1>4, CallFrame, EngineKeepsStatus
<1>5. ASSUME NEW c \in Calls, NEW r \in Requests, Submit(c, r) PROVE UNCHANGED Timer!vars
  BY <1>5 DEF Submit, Engine, Bid!Submit, Bid!dbVars
<1>6. ASSUME NEW c \in Calls, Crash(c) PROVE UNCHANGED Timer!vars
  BY <1>6 DEF Crash, Bid!Crash, Bid!dbVars
<1>7. ASSUME Handle \/ RestartValidator \/ Lose PROVE UNCHANGED Timer!vars
  BY <1>7, HandleFrame DEF RestartValidator, Lose
<1> QED
  BY <1>1, <1>2, <1>3, <1>4, <1>5, <1>6, <1>7 DEF Next, vars

-----------------------------------------------------------------------------
\* The steps of the validator.

LEMMA RequestParts ==
    ASSUME SystemInv, NEW c, pc[c] # "idle", c \in Calls
    PROVE  /\ req[c].user \in Users /\ req[c].auction \in Auctions
           /\ req[c].amount \in {r.amount : r \in Requests}
BY SystemAssumption DEF SystemInv, RequestsAreKnown

\* The call a message is about.
LEMMA MessageCall ==
    ASSUME SystemInv, NEW type, NEW c, About(type, c) \in net
    PROVE  c \in SubmittedCalls
BY DEF SystemInv, MessagesAreKnown, About

LEMMA HandleRefines == ASSUME SystemInv, Handle PROVE [Pay!Next]_(Pay!paymentVars)
<1>1. ASSUME NEW c \in Calls, HandleValidate(c) PROVE UNCHANGED Pay!paymentVars
  BY <1>1 DEF HandleValidate, paymentVars, Pay!paymentVars
<1>2. ASSUME NEW c \in Calls, HandleReserve(c) PROVE Pay!Next
  <2>1. pc[c] # "idle"
    BY <1>2, MessageCall DEF HandleReserve, SubmittedCalls
  <2> QED
    BY <1>2, <2>1, RequestParts DEF HandleReserve, Pay!Next
<1>3. ASSUME NEW c \in Calls, HandleRelease(c) PROVE [Pay!Next]_(Pay!paymentVars)
  BY <1>3 DEF HandleRelease, paymentVars, Pay!paymentVars, Pay!Next
<1>4. ASSUME NEW m \in net, HandleAuctionEnded(m) PROVE Pay!Next
  <2>1. m.auction \in Auctions /\ m.winner \in Users \cup {NoWinner}
    BY <1>4 DEF HandleAuctionEnded, SystemInv, MessagesAreKnown, Replies
  <2>2. m.auction \in Auctions /\ m.winner \in Users \cup {Pay!NoWinner}
    BY <2>1 DEF NoWinner, Pay!NoWinner
  <2> QED
    BY <1>4, <2>2 DEF HandleAuctionEnded, Pay!Next
<1> QED
  BY <1>1, <1>2, <1>3, <1>4 DEF Handle, HandleNotice

LEMMA ValidatorRefines == ASSUME SystemInv, [Next]_vars PROVE [Pay!Next]_(Pay!paymentVars)
<1> USE DEF paymentVars, Pay!paymentVars
<1>1. CASE RestartValidator
  BY <1>1 DEF RestartValidator, Pay!Next
<1>2. ASSUME NEW c \in Calls, CallStep(c) PROVE UNCHANGED paymentVars
  BY <1>2, CallFrame
<1>3. ASSUME NEW i \in Schedulers, CheckTimers(i) PROVE UNCHANGED paymentVars
  BY <1>3, CheckFrame
<1> QED
  BY <1>1, <1>2, <1>3, HandleRefines DEF Next, Submit, Engine, Crash, Lose, Tick, Create, vars

-----------------------------------------------------------------------------
\* The invariant.

LEMMA InvInit == Init => SystemInv
<1> SUFFICES ASSUME Init PROVE SystemInv
  OBVIOUS
<1>1. RequestsAreKnown
  BY DEF Init, Bid!Init, RequestsAreKnown
<1>2. MessagesAreKnown
  BY DEF Init, MessagesAreKnown
<1>3. RowsExist
  BY DEF Init, Bid!Init, Timer!SchedulerInit, RowsExist
<1> QED
  BY <1>1, <1>2, <1>3 DEF SystemInv

\* A step of the engine submits calls, adds rows of submitted ones, and never
\* makes a call one that has not been submitted.
LEMMA RequestsStayKnown ==
    ASSUME RequestsAreKnown, [Bid!Next]_(Bid!vars)
    PROVE  RequestsAreKnown' /\ SubmittedCalls \subseteq SubmittedCalls'
<1> USE DEF RequestsAreKnown, SubmittedCalls, Bid!At, Bid!Goto, Bid!Finish
<1>1. ASSUME NEW c \in Calls, NEW r \in Requests, Bid!Submit(c, r)
      PROVE  RequestsAreKnown' /\ SubmittedCalls \subseteq SubmittedCalls'
  BY <1>1 DEF Bid!Submit, Bid!dbVars
<1> DEFINE Stays == /\ req' = req /\ bids' \subseteq DOMAIN req /\ DOMAIN pc' = Calls
                    /\ \A c \in Calls : pc'[c] = "idle" <=> pc[c] = "idle"
<1>2. Stays => RequestsAreKnown' /\ SubmittedCalls \subseteq SubmittedCalls'
  OBVIOUS
<1>3. ASSUME NEW c \in Calls, Bid!Crash(c) PROVE Stays
  BY <1>3 DEF Bid!Crash, Bid!dbVars
<1>4. ASSUME NEW c \in Calls, NEW late \in BOOLEAN, Bid!CheckAuction(c, late) PROVE Stays
  BY <1>4 DEF Bid!CheckAuction, Bid!dbVars
<1>5. ASSUME NEW c \in Calls, Bid!CheckAuctionFails(c) PROVE Stays
  BY <1>5 DEF Bid!CheckAuctionFails, Bid!dbVars
<1>6. ASSUME NEW c \in Calls, Bid!PrepareBid(c) \/ Bid!PrepareBidFails(c) PROVE Stays
  BY <1>6 DEF Bid!PrepareBid, Bid!PrepareBidFails, Bid!dbVars
<1>7. ASSUME NEW c \in Calls, NEW reply \in Bid!Replies,
             Bid!ValidateReply(c, reply) \/ Bid!ReserveReply(c, reply) PROVE Stays
  BY <1>7 DEF Bid!ValidateReply, Bid!ReserveReply, Bid!TakeReply, Bid!Refuse, Bid!dbVars
<1>8. ASSUME NEW c \in Calls, Bid!CreateBid(c) \/ Bid!CreateBidFails(c) PROVE Stays
  BY <1>8 DEF Bid!CreateBid, Bid!CreateBidFails, Bid!InsertBid, Bid!dbVars
<1>9. ASSUME NEW c \in Calls, Bid!CompleteBid(c) PROVE Stays
  BY <1>9 DEF Bid!CompleteBid, Bid!Completing, Bid!CompletedAt, Bid!dbVars
<1>10. ASSUME NEW c \in Calls, Bid!ReleaseReservation(c) \/ Bid!ReadHighest(c) \/ Bid!PublishUpdate(c)
       PROVE  Stays
  BY <1>10 DEF Bid!ReleaseReservation, Bid!ReadHighest, Bid!PublishUpdate, Bid!dbVars
<1>11. ASSUME NEW a \in Auctions, Bid!AuctionStep(a) PROVE Stays
  BY <1>11 DEF Bid!AuctionStep, Bid!CreateAuction, Bid!UpdateAuctionStatus, Bid!callVars
<1>12. CASE UNCHANGED Bid!vars
  BY <1>12 DEF Bid!vars, Bid!callVars, Bid!dbVars
<1> HIDE DEF Stays
<1> QED
  BY <1>1, <1>2, <1>3, <1>4, <1>5, <1>6, <1>7, <1>8, <1>9, <1>10, <1>11, <1>12
     DEF Bid!Next, Bid!CallStep

\* Rows that a scheduler has read stay rows.
LEMMA RowsStay ==
    ASSUME RowsExist, [Timer!Next]_(Timer!vars)
    PROVE  RowsExist'
<1> USE DEF RowsExist, Timer!Load, Timer!Goto, Timer!schedulerVars
<1>1. ASSUME NEW a \in Auctions, Timer!CreateAuction(a) PROVE RowsExist'
  BY <1>1 DEF Timer!CreateAuction
<1>2. ASSUME NEW i \in Schedulers, NEW a \in Auctions, Timer!Activate(i, a) \/ Timer!End(i, a)
      PROVE  RowsExist'
  BY <1>2 DEF Timer!Activate, Timer!End
<1>3. ASSUME NEW i \in Schedulers, Timer!QueryPending(i) \/ Timer!QueryEnded(i) PROVE RowsExist'
  BY <1>3 DEF Timer!QueryPending, Timer!QueryEnded
<1>4. ASSUME NEW i \in Schedulers, Timer!DbFails(i) PROVE RowsExist'
  BY <1>4 DEF Timer!DbFails
<1>5. ASSUME NEW i \in Schedulers, Timer!Crash(i) PROVE RowsExist'
  BY <1>5 DEF Timer!Crash
<1>6. UNCHANGED <<status, rows>> => RowsExist'
  OBVIOUS
<1> QED
  BY <1>1, <1>2, <1>3, <1>4, <1>5, <1>6
     DEF Timer!Next, Timer!Step, Timer!Tick, Timer!BeginCheck, Timer!EndCheck, Timer!Announce,
         Timer!vars

\* Messages are sent about calls that go on and auctions that are announced.
LEMMA MessagesStayKnown ==
    ASSUME SystemInv, [Next]_vars, SubmittedCalls \subseteq SubmittedCalls'
    PROVE  MessagesAreKnown'
<1> DEFINE Known(m) ==
             \/ \E type \in {"validate", "reserve", "release"} \cup Replies, c \in SubmittedCalls :
                   m = About(type, c)
             \/ \E a \in Auctions, w \in Users \cup {NoWinner} :
                   m = [type |-> "ended", auction |-> a, winner |-> w]
<1>1. ASSUME \A m \in net' : m \in net \/ Known(m) PROVE MessagesAreKnown'
  BY <1>1 DEF SystemInv, MessagesAreKnown, About
<1>2. ASSUME NEW c \in Calls, pc[c] # "idle",
             NEW type \in {"validate", "reserve", "release"} \cup Replies,
             net' \subseteq net \cup {About(type, c)}
      PROVE  MessagesAreKnown'
  BY <1>1, <1>2 DEF SubmittedCalls
<1>3. net' \subseteq net => MessagesAreKnown'
  BY <1>1
<1> HIDE DEF Known
<1>4. ASSUME NEW c \in Calls, CallStep(c) PROVE MessagesAreKnown'
  <2>1. CASE PrepareBid(c)
    BY <1>2, <1>3, <2>1 DEF PrepareBid, Bid!PrepareBid, Bid!At
  <2>2. ASSUME NEW reply, Take(c, reply) PROVE MessagesAreKnown'
    BY <1>2, <1>3, <2>2
       DEF Take, Bid!ValidateReply, Bid!ReserveReply, Bid!TakeReply, Bid!At
  <2>3. CASE ReleaseReservation(c)
    BY <1>2, <2>3 DEF ReleaseReservation, Bid!ReleaseReservation, Bid!At
  <2>4. CASE CheckAuction(c) \/ LocalStep(c)
    BY <1>3, <2>4 DEF CheckAuction, LocalStep, Engine
  <2> QED
    BY <1>4, <2>1, <2>2, <2>3, <2>4 DEF CallStep, TakeReply, Timeout, StreamAck
<1>5. ASSUME NEW c \in Calls, HandleValidate(c) \/ HandleReserve(c) PROVE MessagesAreKnown'
  <2>1. CASE HandleValidate(c)
    <3>1. PICK type \in {"validated", "not validated"} :
             net' = (net \ {About("validate", c)}) \cup Reply(c, "validate", type)
      BY <2>1 DEF HandleValidate
    <3> QED
      BY <1>2, <1>3, <3>1 DEF Reply, Replies
  <2>2. CASE HandleReserve(c)
    BY <1>2, <1>3, <2>2 DEF HandleReserve, Reply, Replies
  <2> QED
    BY <1>5, <2>1, <2>2
<1>6. ASSUME Handle PROVE MessagesAreKnown'
  BY <1>3, <1>5, <1>6 DEF Handle, HandleNotice, HandleRelease, HandleAuctionEnded
<1>7. ASSUME NEW i \in Schedulers, NEW a \in Auctions, Announce(i, a) PROVE MessagesAreKnown'
  <2>1. \E w \in Users \cup {NoWinner} :
           net' \subseteq net \cup {[type |-> "ended", auction |-> a, winner |-> w]}
    BY <1>7, WinnersAreUsers DEF Announce, SystemInv
  <2> QED
    BY <1>1, <2>1 DEF Known
<1>8. ASSUME NEW i \in Schedulers, CheckTimers(i) PROVE MessagesAreKnown'
  BY <1>3, <1>7, <1>8 DEF CheckTimers
<1> QED
  BY <1>3, <1>4, <1>6, <1>8
     DEF Next, Submit, Engine, Crash, RestartValidator, Lose, Tick, Create, vars

LEMMA InvStep == SystemInv /\ [Next]_vars => SystemInv'
<1> SUFFICES ASSUME SystemInv, [Next]_vars PROVE SystemInv'
  OBVIOUS
<1>1. RequestsAreKnown' /\ SubmittedCalls \subseteq SubmittedCalls'
  BY EngineRefines, RequestsStayKnown DEF SystemInv
<1>2. RowsExist'
  BY SchedulerRefines, RowsStay DEF SystemInv
<1>3. MessagesAreKnown'
  BY <1>1, MessagesStayKnown
<1> QED
  BY <1>1, <1>2, <1>3 DEF SystemInv

\* Every step of the system is a step of PlaceBid and its stores, of the scheduler
\* and of the validator, or invisible there.  This says nothing new of the code: a
\* system action is a component's action joined with messages, and the invariant
\* is what the messages carry.  It brings the components' theorems here.
ComponentSpecs == Bid!Spec /\ Timer!Spec /\ Pay!Spec

LEMMA SystemImplementsComponents == Spec => ComponentSpecs
<1>1. Init => Bid!Init /\ Timer!Init /\ Pay!Init
  BY DEF Init, Bid!Init, Timer!Init
<1>2. SystemInv /\ [Next]_vars =>
        [Bid!Next]_(Bid!vars) /\ [Timer!Next]_(Timer!vars) /\ [Pay!Next]_(Pay!paymentVars)
  BY EngineRefines, SchedulerRefines, ValidatorRefines
<1> QED
  BY <1>1, <1>2, InvInit, InvStep, PTL DEF Spec, ComponentSpecs, Bid!Spec, Timer!Spec, Pay!Spec
=============================================================================
