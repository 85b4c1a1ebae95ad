---------------------- MODULE BiddingSystemSafetyProofs ----------------------
(***************************************************************************)
(* What the composed system keeps, for any calls, users, auctions,         *)
(* replicas and wallets: the invariants of its components, which hold in   *)
(* the system because it implements them, and the two that need all of it: *)
(* no user holds more in an auction than the wallet has, and an accepted   *)
(* bid keeps its funds.                                                    *)
(***************************************************************************)
EXTENDS BiddingSystemProofs

\* The theorems about the components.  Each instance holds its component's
\* definitions once more, so the lemmas of the first section say that these
\* are the ones BiddingSystem is built from.
BidT == INSTANCE BidPlacementProofs WITH Faults <- PlacementFaults

TimerT == INSTANCE AuctionSchedulerProofs WITH
              Winners <- Users \cup {NoWinner}, Faults <- SchedulerFaults

PayT == INSTANCE PaymentValidatorProofs WITH
            Amounts <- {r.amount : r \in Requests}, Reservations <- Calls

LEMMA ConstantsAreKnown ==
    BidT!ConstantsAssumption /\ TimerT!SchedulerAssumption /\ PayT!AmountsAssumption
BY SystemAssumption
   DEF BidT!ConstantsAssumption, TimerT!SchedulerAssumption, PayT!AmountsAssumption,
       Bid!AllFaults, BidT!AllFaults, Timer!AllFaults, TimerT!AllFaults

-----------------------------------------------------------------------------
\* The engine.

LEMMA SameCallSteps ==
    ASSUME NEW c \in Calls, Bid!CallStep(c) PROVE BidT!CallStep(c)
<1> USE DEF Bid!At, BidT!At, Bid!Goto, BidT!Goto, Bid!Answer, BidT!Answer,
            Bid!Finish, BidT!Finish, Bid!redisVars, BidT!redisVars, Bid!dbVars, BidT!dbVars,
            Bid!Auction, BidT!Auction, Bid!Amount, BidT!Amount, Bid!KeyOf, BidT!KeyOf
<1>1. ASSUME NEW late \in BOOLEAN, Bid!CheckAuction(c, late) PROVE BidT!CheckAuction(c, late)
  BY <1>1
     DEF Bid!CheckAuction, BidT!CheckAuction
<1>2. ASSUME Bid!CheckAuctionFails(c) PROVE BidT!CheckAuctionFails(c)
  BY <1>2
     DEF Bid!CheckAuctionFails, BidT!CheckAuctionFails
<1>3. ASSUME Bid!PrepareBid(c) PROVE BidT!PrepareBid(c)
  BY <1>3
     DEF Bid!PrepareBid, BidT!PrepareBid, Bid!PrepareScript, BidT!PrepareScript,
         Bid!Duplicate, BidT!Duplicate, Bid!Allowed, BidT!Allowed, Bid!Current, BidT!Current,
         Bid!NoRecord, BidT!NoRecord
<1>4. ASSUME Bid!PrepareBidFails(c) PROVE BidT!PrepareBidFails(c)
  BY <1>4
     DEF Bid!PrepareBidFails, BidT!PrepareBidFails, Bid!PrepareScript, BidT!PrepareScript,
         Bid!Duplicate, BidT!Duplicate, Bid!Allowed, BidT!Allowed, Bid!Current, BidT!Current,
         Bid!NoRecord, BidT!NoRecord
<1>5. ASSUME NEW reply, Bid!ValidateReply(c, reply) PROVE BidT!ValidateReply(c, reply)
  BY <1>5
     DEF Bid!ValidateReply, BidT!ValidateReply, Bid!TakeReply, BidT!TakeReply,
         Bid!Refuse, BidT!Refuse
<1>6. ASSUME NEW reply, Bid!ReserveReply(c, reply) PROVE BidT!ReserveReply(c, reply)
  BY <1>6
     DEF Bid!ReserveReply, BidT!ReserveReply, Bid!TakeReply, BidT!TakeReply,
         Bid!Refuse, BidT!Refuse
<1>7. ASSUME Bid!CreateBid(c) PROVE BidT!CreateBid(c)
  BY <1>7
     DEF Bid!CreateBid, BidT!CreateBid, Bid!InsertBid, BidT!InsertBid, Bid!Max, BidT!Max
<1>8. ASSUME Bid!CreateBidFails(c) PROVE BidT!CreateBidFails(c)
  BY <1>8
     DEF Bid!CreateBidFails, BidT!CreateBidFails, Bid!InsertBid, BidT!InsertBid,
         Bid!Max, BidT!Max
<1>9. ASSUME Bid!CompleteBid(c) PROVE BidT!CompleteBid(c)
  BY <1>9
     DEF Bid!CompleteBid, BidT!CompleteBid, Bid!CompleteScript, BidT!CompleteScript,
         Bid!CompletedAt, BidT!CompletedAt, Bid!Completing, BidT!Completing
<1>10. ASSUME Bid!ReleaseReservation(c) PROVE BidT!ReleaseReservation(c)
  BY <1>10
     DEF Bid!ReleaseReservation, BidT!ReleaseReservation
<1>11. ASSUME Bid!ReadHighest(c) PROVE BidT!ReadHighest(c)
  BY <1>11
     DEF Bid!ReadHighest, BidT!ReadHighest, Bid!RowsOf, BidT!RowsOf,
         Bid!IsHighest, BidT!IsHighest
<1>12. ASSUME Bid!PublishUpdate(c) PROVE BidT!PublishUpdate(c)
  BY <1>12
     DEF Bid!PublishUpdate, BidT!PublishUpdate
<1> QED
  BY <1>1, <1>2, <1>3, <1>4, <1>5, <1>6, <1>7, <1>8, <1>9, <1>10, <1>11, <1>12
     DEF Bid!CallStep, BidT!CallStep, Bid!Replies, BidT!Replies

LEMMA SameEngine ==
    /\ Bid!Init => BidT!Init
    /\ [Bid!Next]_(Bid!vars) => [BidT!Next]_(BidT!vars)
<1>1. Bid!Init => BidT!Init
  BY DEF Bid!Init, BidT!Init, Bid!NoRecord, BidT!NoRecord, Bid!NoState, BidT!NoState,
         Bid!NoPrice, BidT!NoPrice
<1>2. ASSUME NEW c \in Calls, NEW r \in Requests, Bid!Submit(c, r) PROVE BidT!Submit(c, r)
  BY <1>2
     DEF Bid!Submit, BidT!Submit, Bid!At, BidT!At, Bid!Goto, BidT!Goto,
         Bid!redisVars, BidT!redisVars, Bid!dbVars, BidT!dbVars
<1>3. ASSUME NEW c \in Calls, Bid!Crash(c) PROVE BidT!Crash(c)
  BY <1>3
     DEF Bid!Crash, BidT!Crash, Bid!Finish, BidT!Finish, Bid!Goto, BidT!Goto,
         Bid!Answer, BidT!Answer, Bid!redisVars, BidT!redisVars, Bid!dbVars, BidT!dbVars
<1>4. ASSUME NEW a \in Auctions, Bid!AuctionStep(a) PROVE BidT!AuctionStep(a)
  BY <1>4
     DEF Bid!AuctionStep, BidT!AuctionStep, Bid!CreateAuction, BidT!CreateAuction,
         Bid!UpdateAuctionStatus, BidT!UpdateAuctionStatus, Bid!callVars, BidT!callVars,
         Bid!redisVars, BidT!redisVars
<1>5. UNCHANGED Bid!vars => UNCHANGED BidT!vars
  BY DEF Bid!vars, BidT!vars, Bid!callVars, BidT!callVars, Bid!redisVars, BidT!redisVars,
         Bid!dbVars, BidT!dbVars
<1>6. Bid!Next => BidT!Next
  BY <1>2, <1>3, <1>4, SameCallSteps
     DEF Bid!Next, BidT!Next
<1> QED
  BY <1>1, <1>5, <1>6

LEMMA SameEngineInvariants ==
    /\ BidT!TypeOK => Bid!TypeOK
    /\ BidT!OneBidPerKey => Bid!OneBidPerKey
    /\ BidT!PriceIsHighestBid => Bid!PriceIsHighestBid
    /\ BidT!UpdateIsReached => Bid!UpdateIsReached
    /\ BidT!BidsKeepIncrement => Bid!BidsKeepIncrement
    /\ BidT!RecordsMatchRows => Bid!RecordsMatchRows
<1>1. BidT!TypeOK => Bid!TypeOK
  BY DEF Bid!TypeOK, BidT!TypeOK, Bid!Places, BidT!Places, Bid!Answers, BidT!Answers,
         Bid!Record, BidT!Record, Bid!BidIds, BidT!BidIds, Bid!State, BidT!State,
         Bid!NoPrice, BidT!NoPrice
<1>2. BidT!OneBidPerKey => Bid!OneBidPerKey
  BY DEF Bid!OneBidPerKey, BidT!OneBidPerKey, Bid!KeyOf, BidT!KeyOf
<1>3. BidT!PriceIsHighestBid => Bid!PriceIsHighestBid
  BY DEF Bid!PriceIsHighestBid, BidT!PriceIsHighestBid, Bid!IsHighest, BidT!IsHighest,
         Bid!Prices, BidT!Prices, Bid!RowsOf, BidT!RowsOf, Bid!Auction, BidT!Auction,
         Bid!Amount, BidT!Amount
<1>4. BidT!UpdateIsReached => Bid!UpdateIsReached
  BY DEF Bid!UpdateIsReached, BidT!UpdateIsReached
<1>5. BidT!BidsKeepIncrement => Bid!BidsKeepIncrement
  BY DEF Bid!BidsKeepIncrement, BidT!BidsKeepIncrement, Bid!Apart, BidT!Apart,
         Bid!Auction, BidT!Auction, Bid!Amount, BidT!Amount
<1>6. BidT!RecordsMatchRows => Bid!RecordsMatchRows
  BY DEF Bid!RecordsMatchRows, BidT!RecordsMatchRows
<1> QED
  BY <1>1, <1>2, <1>3, <1>4, <1>5, <1>6

LEMMA SameAnswers ==
    [\A c \in Calls : BidT!AnswersTruly(c)]_(BidT!vars)
        => [\A c \in Calls : Bid!AnswersTruly(c)]_(Bid!vars)
<1>1. UNCHANGED BidT!vars => UNCHANGED Bid!vars
  BY DEF Bid!vars, BidT!vars, Bid!callVars, BidT!callVars, Bid!redisVars, BidT!redisVars,
         Bid!dbVars, BidT!dbVars
<1>2. ASSUME NEW c \in Calls, BidT!AnswersTruly(c) PROVE Bid!AnswersTruly(c)
  BY <1>2
     DEF Bid!AnswersTruly, BidT!AnswersTruly, Bid!Told, BidT!Told, Bid!Excused, BidT!Excused,
         Bid!KeyOf, BidT!KeyOf, Bid!At, BidT!At
<1> QED
  BY <1>1, <1>2

-----------------------------------------------------------------------------
\* The scheduler and the validator.

LEMMA SameScheduler ==
    /\ Timer!Init => TimerT!Init
    /\ [Timer!Next]_(Timer!vars) => [TimerT!Next]_(TimerT!vars)
    /\ TimerT!TypeOK => Timer!TypeOK
<1>1. Timer!Init => TimerT!Init
  BY DEF Timer!Init, TimerT!Init, Timer!SchedulerInit, TimerT!SchedulerInit
<1>2. UNCHANGED Timer!vars => UNCHANGED TimerT!vars
  BY DEF Timer!vars, TimerT!vars, Timer!schedulerVars, TimerT!schedulerVars
<1>3. Timer!Next => TimerT!Next
  BY DEF Timer!Next, TimerT!Next, Timer!Tick, TimerT!Tick,
         Timer!CreateAuction, TimerT!CreateAuction, Timer!Step, TimerT!Step,
         Timer!BeginCheck, TimerT!BeginCheck, Timer!QueryPending, TimerT!QueryPending,
         Timer!QueryEnded, TimerT!QueryEnded, Timer!EndCheck, TimerT!EndCheck,
         Timer!DbFails, TimerT!DbFails, Timer!Activate, TimerT!Activate, Timer!End, TimerT!End,
         Timer!Announce, TimerT!Announce, Timer!Crash, TimerT!Crash, Timer!Goto, TimerT!Goto,
         Timer!Load, TimerT!Load, Timer!schedulerVars, TimerT!schedulerVars
<1>4. TimerT!TypeOK => Timer!TypeOK
  BY DEF Timer!TypeOK, TimerT!TypeOK, Timer!Phases, TimerT!Phases
<1> QED
  BY <1>1, <1>2, <1>3, <1>4

LEMMA SameValidator ==
    /\ Pay!Init => PayT!Init
    /\ [Pay!Next]_(Pay!paymentVars) => [PayT!Next]_(PayT!paymentVars)
    /\ PayT!TypeOK => Pay!TypeOK
    /\ PayT!OneActivePerKey => Pay!OneActivePerKey
<1>1. Pay!Init => PayT!Init
  BY DEF Pay!Init, PayT!Init, Pay!ReservedKeys, PayT!ReservedKeys
<1>2. UNCHANGED Pay!paymentVars => UNCHANGED PayT!paymentVars
  BY DEF Pay!paymentVars, PayT!paymentVars
<1>3. Pay!Next => PayT!Next
  BY DEF Pay!Next, PayT!Next, Pay!handleReserve, PayT!handleReserve,
         Pay!handleRelease, PayT!handleRelease, Pay!handleCharge, PayT!handleCharge,
         Pay!handleAuctionEnded, PayT!handleAuctionEnded, Pay!Restart, PayT!Restart,
         Pay!Release, PayT!Release, Pay!Less, PayT!Less, Pay!WithStatus, PayT!WithStatus,
         Pay!ActiveOf, PayT!ActiveOf, Pay!Active, PayT!Active, Pay!KeyOf, PayT!KeyOf,
         Pay!ReservedKeys, PayT!ReservedKeys, Pay!NoWinner, PayT!NoWinner,
         Pay!Amount, PayT!Amount, Pay!MapThenSumSet, PayT!MapThenSumSet,
         Pay!MapThenFoldSet, PayT!MapThenFoldSet
<1>4. PayT!TypeOK => Pay!TypeOK
  BY DEF Pay!TypeOK, PayT!TypeOK, Pay!Reservation, PayT!Reservation,
         Pay!ReservedKeys, PayT!ReservedKeys
<1>5. PayT!OneActivePerKey => Pay!OneActivePerKey
  BY DEF Pay!OneActivePerKey, PayT!OneActivePerKey, Pay!ActiveOf, PayT!ActiveOf,
         Pay!Active, PayT!Active, Pay!KeyOf, PayT!KeyOf, Pay!ReservedKeys, PayT!ReservedKeys
<1> QED
  BY <1>1, <1>2, <1>3, <1>4, <1>5
-----------------------------------------------------------------------------
\* The components' theorems in the system.

LEMMA ComponentsAreThere == Spec => BidT!Spec /\ TimerT!Spec /\ PayT!Spec
<1>1. /\ Bid!Init => BidT!Init
      /\ [Bid!Next]_(Bid!vars) => [BidT!Next]_(BidT!vars)
  BY SameEngine
<1>2. /\ Timer!Init => TimerT!Init
      /\ [Timer!Next]_(Timer!vars) => [TimerT!Next]_(TimerT!vars)
  BY SameScheduler
<1>3. /\ Pay!Init => PayT!Init
      /\ [Pay!Next]_(Pay!paymentVars) => [PayT!Next]_(PayT!paymentVars)
  BY SameValidator
<1>4. Spec => Bid!Spec /\ Timer!Spec /\ Pay!Spec
  BY SystemImplementsComponents DEF ComponentSpecs
<1> QED
  BY <1>1, <1>2, <1>3, <1>4, PTL
     DEF Bid!Spec, Timer!Spec, Pay!Spec, BidT!Spec, TimerT!Spec, PayT!Spec

LEMMA SystemInvHolds == Spec => []SystemInv
BY InvInit, InvStep, PTL DEF Spec

\* The validator's invariant: its maps keep their shape, one hold for each key.
LEMMA ValidatorInvHolds == Spec => [](PayT!TypeOK /\ PayT!OneActivePerKey)
<1>1. (PayT!Spec => []PayT!TypeOK) /\ (PayT!Spec => []PayT!OneActivePerKey)
  BY ConstantsAreKnown, PayT!Typing, PayT!OneActive
<1> QED
  BY <1>1, ComponentsAreThere, PTL

\* Every component keeps its shape in the system, and every message is one that
\* its receiver knows.
THEOREM SystemTyping == Spec => []TypeOK
<1>1. BidT!Spec => []BidT!TypeOK
  BY ConstantsAreKnown, BidT!Typing
<1>2. TimerT!Spec => []TimerT!TypeOK
  BY ConstantsAreKnown, TimerT!Typing
<1>3. BidT!TypeOK /\ TimerT!TypeOK /\ PayT!TypeOK /\ SystemInv => TypeOK
  <2>1. MessagesAreKnown => net \subseteq Messages
    BY DEF MessagesAreKnown, Messages, SubmittedCalls
  <2> QED
    BY <2>1, SameEngineInvariants, SameScheduler, SameValidator DEF TypeOK, SystemInv
<1> QED
  BY <1>1, <1>2, <1>3, ComponentsAreThere, SystemInvHolds, ValidatorInvHolds, PTL

\* Every answer agrees with the bids table at its time, with the validator, the
\* scheduler and the network as they are and not as PlaceBid's module leaves them
\* open (service.go:80, service.go:164).
THEOREM SystemAnswersTrue == Spec => AnswersAreTrue
<1>1. BidT!Spec => BidT!AnswersAreTrue
  BY ConstantsAreKnown, BidT!AnswersTrue
<1>2. BidT!AnswersAreTrue => AnswersAreTrue
  BY SameAnswers, PTL DEF AnswersAreTrue, Bid!AnswersAreTrue, BidT!AnswersAreTrue
<1> QED
  BY <1>1, <1>2, ComponentsAreThere, PTL

\* In the system, too, a key has at most one bid, the auctions table shows the
\* highest one, no update shows more, and a user has one active hold in an
\* auction: whatever is lost, late, repeated or restarted between the components.
SystemSafe ==
    Bid!OneBidPerKey /\ Bid!PriceIsHighestBid /\ Bid!UpdateIsReached /\ Pay!OneActivePerKey

THEOREM SystemIsSafe == Spec => []SystemSafe
<1>1. BidT!Spec => []BidT!OneBidPerKey /\ []BidT!PriceIsHighestBid /\ []BidT!UpdateIsReached
  BY ConstantsAreKnown, BidT!OneBid, BidT!PriceIsRight, BidT!UpdatesAreReached
<1>2. BidT!OneBidPerKey /\ BidT!PriceIsHighestBid /\ BidT!UpdateIsReached /\ PayT!OneActivePerKey
        => SystemSafe
  BY SameEngineInvariants, SameValidator DEF SystemSafe
<1> QED
  BY <1>1, <1>2, ComponentsAreThere, ValidatorInvHolds, PTL

\* Unless a commit may be reported as failed, accepted bids keep their distance
\* and Redis its verdicts in the system.
SystemAgrees == Bid!BidsKeepIncrement /\ Bid!RecordsMatchRows

THEOREM SystemStoresAgree == "ambiguous" \notin PlacementFaults => (Spec => []SystemAgrees)
<1> SUFFICES ASSUME "ambiguous" \notin PlacementFaults PROVE Spec => []SystemAgrees
  OBVIOUS
<1>1. BidT!NoAmbiguity
  BY DEF BidT!NoAmbiguity
<1>2. BidT!Spec => []BidT!BidsKeepIncrement /\ []BidT!RecordsMatchRows
  BY <1>1, ConstantsAreKnown, BidT!BidsStayApart, BidT!RecordsAreTrue
<1>3. BidT!BidsKeepIncrement /\ BidT!RecordsMatchRows => SystemAgrees
  BY SameEngineInvariants DEF SystemAgrees
<1> QED
  BY <1>2, <1>3, ComponentsAreThere, PTL

\* With one scheduler the end of an auction is announced once and no auction goes
\* back, while bids are inserted between the scheduler's steps and announcements are
\* lost on the way to the validator (service.go:326-380).
TimerKeepsOrder == []TimerT!PublishedOnce /\ TimerT!StatusMovesForward

THEOREM SystemEndsOnce == TimerT!OneReplica => (Spec => TimerKeepsOrder)
<1> SUFFICES ASSUME TimerT!OneReplica PROVE Spec => TimerKeepsOrder
  OBVIOUS
<1>1. TimerT!Spec => []TimerT!PublishedOnce /\ TimerT!StatusMovesForward
  BY ConstantsAreKnown, TimerT!EventsComeOnce, TimerT!NoWayBack
<1> QED
  BY <1>1, ComponentsAreThere DEF TimerKeepsOrder

\* The whole of engine, scheduler, validator and network is one replaceable hold for
\* each user and auction (WalletHolds) ...
THEOREM SystemHoldsFunds == Spec => PayT!HoldsSpec
<1>1. PayT!Spec => PayT!HoldsSpec
  BY ConstantsAreKnown, PayT!ValidatorImplementsHolds
<1> QED
  BY <1>1, ComponentsAreThere

\* ... and, unless a commit may be reported as failed, a set of accepted bids that
\* grows by bids a minimum increment apart from the rest (AuctionBook).
THEOREM SystemIsBook == "ambiguous" \notin PlacementFaults => (Spec => BidT!BookSpec)
<1> SUFFICES ASSUME "ambiguous" \notin PlacementFaults PROVE Spec => BidT!BookSpec
  OBVIOUS
<1>1. BidT!Spec => BidT!BookSpec
  BY ConstantsAreKnown, BidT!PlacementImplementsBook DEF BidT!NoAmbiguity
<1> QED
  BY <1>1, ComponentsAreThere

-----------------------------------------------------------------------------
\* What a step of a call may do to the others: all that the invariants below
\* need to know of PlaceBid.

\* A reply is on its way only to a call that waits for it: a call that gives up
\* leaves no inbox behind.
RepliesFit ==
    \A m \in net : /\ m.type \in {"validated", "not validated"} => pc[m.call] = "validate"
                   /\ m.type = "reserved" => pc[m.call] = "reserve"

EngineStep(c) == (\E r \in Requests : Submit(c, r)) \/ CallStep(c) \/ Crash(c)

\* It concerns the call alone, its request is given once, and nothing follows "done".
StepIsLocal(c) ==
    /\ UNCHANGED <<timerVars, paymentVars>>
    /\ pc[c] # "done"
    /\ \A d \in Calls \ {c} : pc'[d] = pc[d] /\ outcome'[d] = outcome[d]
    /\ \A d \in DOMAIN req : d \in DOMAIN req' /\ req'[d] = req[d]

\* A row is inserted, an error undone and a reservation used in their places.
StepFollowsPlan(c) ==
    /\ bids' \subseteq bids \cup {c}
    /\ c \in bids' => c \in bids \/ pc[c] = "create"
    /\ pc'[c] \in {"undo", "release"} =>
          outcome'[c] = "error" \/ (pc[c] = "undo" /\ outcome'[c] = outcome[c])
    /\ pc'[c] = "create" => About("reserved", c) \in net

\* Of the messages, it takes replies to the call and sends requests.
StepSends(c) ==
    /\ net' \subseteq net \cup {About(type, c) : type \in {"validate", "reserve", "release"}}
    /\ About("reserve", c) \in net' => {About("reserve", c), About("validated", c)} \cap net # {}
    /\ About("release", c) \in net' =>
          \/ About("release", c) \in net
          \/ pc[c] = "release" /\ pc'[c] = "done" /\ outcome'[c] = outcome[c]
    /\ pc[c] \in {"validate", "reserve"} => RepliesTo(c) \cap net' = {}

StepEffect(c) == StepIsLocal(c) /\ StepFollowsPlan(c) /\ StepSends(c)

\* The steps that exchange no message.
LEMMA QuietEffect ==
    ASSUME SystemInv, Bid!TypeOK, NEW c \in Calls,
           UNCHANGED <<timerVars, paymentVars, net>>,
           \/ \E r \in Requests : Bid!Submit(c, r)
           \/ \E late : Bid!CheckAuction(c, late)
           \/ Bid!CheckAuctionFails(c) \/ Bid!PrepareBidFails(c)
           \/ Bid!CreateBid(c) \/ Bid!CreateBidFails(c) \/ Bid!CompleteBid(c)
           \/ Bid!ReadHighest(c) \/ Bid!PublishUpdate(c)
    PROVE  StepEffect(c)
<1> DEFINE Quiet == /\ pc[c] \notin {"validate", "reserve", "done"}
                    /\ \A d \in Calls \ {c} : pc'[d] = pc[d] /\ outcome'[d] = outcome[d]
                    /\ \A d \in DOMAIN req : d \in DOMAIN req' /\ req'[d] = req[d]
                    /\ pc'[c] # "create"
                    /\ StepFollowsPlan(c)
<1>1. DOMAIN pc = Calls /\ DOMAIN outcome = Calls /\ \A d \in DOMAIN req : pc[d] # "idle"
  BY DEF SystemInv, RequestsAreKnown, Bid!TypeOK
<1> USE <1>1 DEF Bid!At, Bid!Goto, Bid!Answer, Bid!Finish, Bid!dbVars, StepFollowsPlan
<1>2. ASSUME NEW r \in Requests, Bid!Submit(c, r) PROVE Quiet
  BY <1>2 DEF Bid!Submit
<1>3. ASSUME NEW late, Bid!CheckAuction(c, late) PROVE Quiet
  BY <1>3 DEF Bid!CheckAuction
<1>4. CASE Bid!CheckAuctionFails(c) \/ Bid!PrepareBidFails(c)
  <2>1. Quiet
    BY <1>4 DEF Bid!CheckAuctionFails, Bid!PrepareBidFails
  <2> QED
    BY <2>1 DEF StepEffect, StepIsLocal, StepSends
<1>5. CASE Bid!CreateBid(c)
  <2>1. Quiet
    BY <1>5 DEF Bid!CreateBid, Bid!InsertBid
  <2> QED
    BY <2>1 DEF StepEffect, StepIsLocal, StepSends
<1>6. CASE Bid!CreateBidFails(c)
  <2>1. Quiet
    BY <1>6 DEF Bid!CreateBidFails, Bid!InsertBid
  <2> QED
    BY <2>1 DEF StepEffect, StepIsLocal, StepSends
<1>7. CASE Bid!CompleteBid(c)
  <2>1. Quiet
    BY <1>7 DEF Bid!CompleteBid, Bid!Completing, Bid!CompletedAt
  <2> QED
    BY <2>1 DEF StepEffect, StepIsLocal, StepSends
<1>8. CASE Bid!ReadHighest(c) \/ Bid!PublishUpdate(c)
  <2>1. Quiet
    BY <1>8 DEF Bid!ReadHighest, Bid!PublishUpdate
  <2> QED
    BY <2>1 DEF StepEffect, StepIsLocal, StepSends
<1>9. Quiet => StepEffect(c)
  BY DEF StepEffect, StepIsLocal, StepSends
<1> QED
  BY <1>2, <1>3, <1>4, <1>5, <1>6, <1>7, <1>8, <1>9

\* The answer to a request.
LEMMA TakeEffect ==
    ASSUME SystemInv, Bid!TypeOK, NEW c \in Calls, NEW reply, Take(c, reply),
           reply = "yes" => /\ pc[c] = "validate" => About("validated", c) \in net
                            /\ pc[c] = "reserve" => About("reserved", c) \in net
    PROVE  StepEffect(c)
<1>1. DOMAIN pc = Calls /\ DOMAIN outcome = Calls
  BY DEF SystemInv, RequestsAreKnown, Bid!TypeOK
<1>2. UNCHANGED <<timerVars, paymentVars, req, bids>>
  BY DEF Take, Bid!ValidateReply, Bid!ReserveReply, Bid!TakeReply, Bid!dbVars
<1>3. \/ /\ pc[c] = "validate"
         /\ \/ pc' = [pc EXCEPT ![c] = "reserve"] /\ outcome' = outcome /\ reply = "yes"
            \/ /\ pc' = [pc EXCEPT ![c] = "refuse"] /\ reply # "yes"
               /\ \E answer : outcome' = [outcome EXCEPT ![c] = answer]
         /\ net' = (net \ RepliesTo(c)) \cup (IF reply = "yes" THEN {About("reserve", c)} ELSE {})
      \/ /\ pc[c] = "reserve" /\ net' = net \ RepliesTo(c)
         /\ \/ pc' = [pc EXCEPT ![c] = "create"] /\ outcome' = outcome /\ reply = "yes"
            \/ /\ pc' = [pc EXCEPT ![c] = "refuse"]
               /\ \E answer : outcome' = [outcome EXCEPT ![c] = answer]
  BY DEF Take, Bid!ValidateReply, Bid!ReserveReply, Bid!TakeReply, Bid!At, Bid!Goto,
         Bid!Refuse, Bid!Answer
<1>4. StepIsLocal(c)
  BY <1>1, <1>2, <1>3 DEF StepIsLocal
<1>5. StepFollowsPlan(c)
  BY <1>1, <1>2, <1>3 DEF StepFollowsPlan
<1>6. StepSends(c)
  <2>1. /\ net' \subseteq (net \ RepliesTo(c)) \cup {About("reserve", c)}
        /\ About("reserve", c) \in net' =>
              About("reserve", c) \in net \/ (reply = "yes" /\ pc[c] = "validate")
    BY <1>3
  <2>2. About("reserve", c) \notin RepliesTo(c) /\ About("release", c) # About("reserve", c)
    BY DEF RepliesTo, Replies, About
  <2> QED
    BY <2>1, <2>2 DEF StepSends
<1> QED
  BY <1>4, <1>5, <1>6 DEF StepEffect

LEMMA EngineEffect ==
    ASSUME SystemInv, Bid!TypeOK, RepliesFit, NEW c \in Calls, EngineStep(c)
    PROVE  StepEffect(c)
<1>1. DOMAIN pc = Calls /\ DOMAIN outcome = Calls
  BY DEF SystemInv, RequestsAreKnown, Bid!TypeOK
<1>2. CASE (\E r \in Requests : Submit(c, r)) \/ CheckAuction(c) \/ LocalStep(c)
  BY <1>2, QuietEffect DEF Submit, CheckAuction, LocalStep, Engine
<1>3. CASE PrepareBid(c)
  <2>1. /\ pc[c] = "prepare" /\ UNCHANGED <<req, bids, timerVars, paymentVars>>
        /\ \/ pc' = [pc EXCEPT ![c] = "validate"] /\ outcome' = outcome
           \/ /\ pc' = [pc EXCEPT ![c] = "done"]
              /\ \E answer : outcome' = [outcome EXCEPT ![c] = answer]
        /\ net' \subseteq net \cup {About("validate", c)}
    BY <1>3 DEF PrepareBid, Bid!PrepareBid, Bid!At, Bid!Goto, Bid!Finish, Bid!Answer, Bid!dbVars
  <2> QED
    BY <1>1, <2>1 DEF StepEffect, StepIsLocal, StepFollowsPlan, StepSends, About
<1>4. CASE TakeReply(c)
  <2>1. PICK m \in RepliesTo(c) : Take(c, IF m.type = "not validated" THEN "no" ELSE "yes")
    BY <1>4 DEF TakeReply
  <2>2. m \in net /\ m = About(m.type, c) /\ m.call = c /\ m.type \in Replies
    BY <2>1 DEF RepliesTo, SystemInv, MessagesAreKnown, About, Replies
  <2>3. /\ pc[c] = "validate" => m.type # "reserved"
        /\ pc[c] = "reserve" => m.type = "reserved"
    <3>1. /\ m.type \in {"validated", "not validated"} => pc[m.call] = "validate"
          /\ m.type = "reserved" => pc[m.call] = "reserve"
      BY <2>2 DEF RepliesFit
    <3> QED
      BY <2>2, <3>1 DEF Replies
  <2> QED
    BY <2>1, <2>2, <2>3, TakeEffect DEF Replies
<1>5. CASE Timeout(c) \/ StreamAck(c)
  BY <1>5, TakeEffect DEF Timeout, StreamAck
<1>6. CASE ReleaseReservation(c)
  <2>1. /\ pc[c] = "release" /\ UNCHANGED <<req, bids, outcome, timerVars, paymentVars>>
        /\ pc' = [pc EXCEPT ![c] = "done"] /\ net' = net \cup {About("release", c)}
    BY <1>6 DEF ReleaseReservation, Bid!ReleaseReservation, Bid!At, Bid!Goto, Bid!dbVars
  <2> QED
    BY <1>1, <2>1 DEF StepEffect, StepIsLocal, StepFollowsPlan, StepSends, About
<1>7. CASE Crash(c)
  <2>1. /\ pc[c] # "done" /\ UNCHANGED <<req, bids, timerVars, paymentVars>>
        /\ pc' = [pc EXCEPT ![c] = "done"] /\ outcome' = [outcome EXCEPT ![c] = "none"]
        /\ net' = net \ RepliesTo(c)
    BY <1>7 DEF Crash, Bid!Crash, Bid!Finish, Bid!Goto, Bid!Answer, Bid!dbVars
  <2> QED
    BY <1>1, <2>1 DEF StepEffect, StepIsLocal, StepFollowsPlan, StepSends, About
<1> QED
  BY <1>2, <1>3, <1>4, <1>5, <1>6, <1>7 DEF EngineStep, CallStep

-----------------------------------------------------------------------------
\* The other steps, and what they leave alone.

\* Nothing is sent and nothing the invariants below speak of is touched.
IdleStep == net' \subseteq net /\ UNCHANGED <<pc, req, outcome, bids, announced, paymentVars>>

LEMMA StepKinds ==
    ASSUME [Next]_vars
    PROVE  \/ \E c \in Calls : EngineStep(c)
           \/ \E c \in Calls : HandleValidate(c) \/ HandleReserve(c) \/ HandleRelease(c)
           \/ \E m \in net : HandleAuctionEnded(m)
           \/ RestartValidator
           \/ \E i \in Schedulers : CheckTimers(i)
           \/ IdleStep
<1>1. ASSUME Lose PROVE IdleStep
  BY <1>1 DEF Lose, IdleStep, placementVars, timerVars
<1>2. ASSUME Tick PROVE IdleStep
  BY <1>2 DEF Tick, IdleStep, placementVars, Timer!Tick, Timer!schedulerVars
<1>3. ASSUME NEW a \in Auctions, Create(a) PROVE IdleStep
  BY <1>3 DEF Create, IdleStep, Bid!CreateAuction, Bid!callVars, Timer!CreateAuction,
              Timer!schedulerVars
<1>4. ASSUME UNCHANGED vars PROVE IdleStep
  BY <1>4 DEF vars, IdleStep, placementVars, timerVars
<1> QED
  BY <1>1, <1>2, <1>3, <1>4 DEF Next, Handle, HandleNotice, EngineStep

LEMMA CheckEffect ==
    ASSUME SystemInv, Timer!TypeOK, NEW i \in Schedulers, CheckTimers(i)
    PROVE  /\ UNCHANGED <<pc, req, outcome, bids, paymentVars>>
           /\ \A a \in Auctions : \A n \in DOMAIN announced[a] :
                 n \in DOMAIN announced'[a] /\ announced'[a][n] = announced[a][n]
           /\ \A m \in net' : \/ m \in net
                              \/ /\ m.type = "ended" /\ m.auction \in Auctions
                                 /\ \E n \in DOMAIN announced'[m.auction] :
                                       announced'[m.auction][n] = m.winner
<1>1. UNCHANGED <<pc, req, outcome, bids, paymentVars>>
  BY CheckFrame DEF placementVars
<1>2. CASE net' = net /\ announced' = announced
  BY <1>1, <1>2
<1>3. ASSUME NEW a \in Auctions, Announce(i, a), announced' # announced
      PROVE  /\ \A b \in Auctions : \A n \in DOMAIN announced[b] :
                   n \in DOMAIN announced'[b] /\ announced'[b][n] = announced[b][n]
             /\ \A m \in net' : \/ m \in net
                                \/ /\ m.type = "ended" /\ m.auction \in Auctions
                                   /\ \E n \in DOMAIN announced'[m.auction] :
                                         announced'[m.auction][n] = m.winner
  <2>1. PICK w \in WinnersRead(a) :
          /\ announced' = [announced EXCEPT ![a] = Append(@, w)]
          /\ net' = net \cup {[type |-> "ended", auction |-> a, winner |-> w]}
    BY <1>3 DEF Announce, Timer!Announce
  <2>2. w \in Users \cup {NoWinner} /\ announced \in [Auctions -> Seq(Users \cup {NoWinner})]
    BY <2>1, WinnersAreUsers DEF SystemInv, Timer!TypeOK
  <2>3. PICK s \in Seq(Users \cup {NoWinner}) : s = announced[a]
    BY <2>2
  <2>4. announced' = [announced EXCEPT ![a] = Append(s, w)]
    BY <2>1, <2>3
  <2>5. /\ Len(s) + 1 \in DOMAIN Append(s, w) /\ Append(s, w)[Len(s) + 1] = w
        /\ \A n \in DOMAIN s : n \in DOMAIN Append(s, w) /\ Append(s, w)[n] = s[n]
    BY <2>2, <2>3
  <2>6. announced'[a] = Append(s, w) /\ \A b \in Auctions \ {a} : announced'[b] = announced[b]
    BY <2>2, <2>4
  <2>7. \A b \in Auctions : \A n \in DOMAIN announced[b] :
           n \in DOMAIN announced'[b] /\ announced'[b][n] = announced[b][n]
    BY <2>3, <2>5, <2>6
  <2>8. \E n \in DOMAIN announced'[a] : announced'[a][n] = w
    BY <2>5, <2>6
  <2> QED
    BY <2>1, <2>7, <2>8
<1>4. ASSUME NEW a \in Auctions, Announce(i, a), announced' = announced PROVE net' = net
  BY <1>4 DEF Announce
<1>5. ASSUME \A a \in Auctions : ~Announce(i, a) PROVE net' = net /\ announced' = announced
  BY <1>5
     DEF CheckTimers, Timer!BeginCheck, Timer!QueryPending, Timer!QueryEnded, Timer!EndCheck,
         Timer!DbFails, Timer!Crash, Timer!Activate, Timer!End
<1> QED
  BY <1>1, <1>2, <1>3, <1>4, <1>5

\* The handlers are the ones the validator's lemmas are about.
LEMMA SameHandlers ==
    /\ \A r \in Calls, u \in Users, a \in Auctions : \A m :
          Pay!handleReserve(r, u, a, m) => PayT!handleReserve(r, u, a, m)
    /\ \A r \in Calls : Pay!handleRelease(r) => r \in PayT!Active /\ PayT!Release({r})
    /\ \A a \in Auctions : \A w : Pay!handleAuctionEnded(a, w) =>
          PayT!Release({r \in PayT!Active : /\ reservations[r].auction = a
                                              /\ reservations[r].user # w})
    /\ Pay!Restart => PayT!Restart
    /\ Pay!Active = PayT!Active /\ Pay!ReservedKeys = PayT!ReservedKeys
<1> USE DEF Pay!Release, PayT!Release, Pay!Less, PayT!Less, Pay!WithStatus, PayT!WithStatus,
         Pay!ActiveOf, PayT!ActiveOf, Pay!Active, PayT!Active, Pay!KeyOf, PayT!KeyOf,
         Pay!ReservedKeys, PayT!ReservedKeys, Pay!Amount, PayT!Amount,
         Pay!MapThenSumSet, PayT!MapThenSumSet, Pay!MapThenFoldSet, PayT!MapThenFoldSet
<1>1. ASSUME NEW r \in Calls, NEW u \in Users, NEW a \in Auctions, NEW m,
             Pay!handleReserve(r, u, a, m)
      PROVE  PayT!handleReserve(r, u, a, m)
  BY <1>1 DEF Pay!handleReserve, PayT!handleReserve
<1>2. ASSUME NEW r \in Calls, Pay!handleRelease(r)
      PROVE  r \in PayT!Active /\ PayT!Release({r})
  BY <1>2 DEF Pay!handleRelease
<1>3. ASSUME NEW a \in Auctions, NEW w, Pay!handleAuctionEnded(a, w)
      PROVE  PayT!Release({r \in PayT!Active : /\ reservations[r].auction = a
                                              /\ reservations[r].user # w})
  BY <1>3 DEF Pay!handleAuctionEnded
<1>4. Pay!Restart => PayT!Restart
  BY DEF Pay!Restart, PayT!Restart
<1>5. Pay!Active = PayT!Active /\ Pay!ReservedKeys = PayT!ReservedKeys
  OBVIOUS
<1> QED
  BY <1>1, <1>2, <1>3, <1>4, <1>5

LEMMA MessageParts ==
    /\ \A type, c : About(type, c).type = type /\ About(type, c).call = c
    /\ \A t1, t2, c, d : About(t1, c) = About(t2, d) => t1 = t2 /\ c = d
BY DEF About

LEMMA RepliesStep ==
    ASSUME SystemInv, Bid!TypeOK, Timer!TypeOK, RepliesFit, [Next]_vars
    PROVE  RepliesFit'
<1>1. \A m \in net : m.type \in Replies => m.call \in Calls
  BY DEF SystemInv, MessagesAreKnown, Replies, SubmittedCalls
<1>2. ASSUME NEW c \in Calls, EngineStep(c) PROVE RepliesFit'
  <2>1. StepIsLocal(c) /\ StepSends(c)
    BY <1>2, EngineEffect DEF StepEffect
  <2>2. ASSUME NEW m \in net', m.type \in Replies PROVE m \in net /\ m.call \in Calls \ {c}
    <3>1. m \in net
      <4>1. m \in net \/ \E type \in {"validate", "reserve", "release"} : m = About(type, c)
        BY <2>1, <2>2 DEF StepSends
      <4> QED
        BY <2>2, <4>1, MessageParts DEF Replies
    <3>2. m.call # c
      BY <2>1, <2>2, <3>1 DEF StepSends, RepliesTo, RepliesFit, Replies
    <3> QED
      BY <1>1, <2>2, <3>1, <3>2
  <2> QED
    BY <2>1, <2>2 DEF StepIsLocal, RepliesFit, Replies
<1>3. ASSUME pc' = pc, \A m \in net' : m \in net \/ m.type \notin Replies PROVE RepliesFit'
  BY <1>3 DEF RepliesFit, Replies
<1>4. ASSUME NEW c \in Calls, HandleValidate(c) PROVE RepliesFit'
  <2>1. pc' = pc
    BY <1>4 DEF HandleValidate, placementVars
  <2>2. \A m \in net' : \/ m \in net
                        \/ /\ pc[c] = "validate"
                           /\ m \in {About("validated", c), About("not validated", c)}
    BY <1>4 DEF HandleValidate, Reply
  <2>3. /\ About("validated", c).type = "validated" /\ About("validated", c).call = c
        /\ About("not validated", c).type = "not validated" /\ About("not validated", c).call = c
    BY MessageParts
  <2> QED
    BY <2>1, <2>2, <2>3 DEF RepliesFit
<1>5. ASSUME NEW c \in Calls, HandleReserve(c) PROVE RepliesFit'
  <2>1. pc' = pc
    BY <1>5 DEF HandleReserve, placementVars
  <2>2. \A m \in net' : m \in net \/ (pc[c] = "reserve" /\ m = About("reserved", c))
    BY <1>5 DEF HandleReserve, Reply
  <2>3. About("reserved", c).type = "reserved" /\ About("reserved", c).call = c
    BY MessageParts
  <2> QED
    BY <2>1, <2>2, <2>3 DEF RepliesFit
<1>6. ASSUME NEW c \in Calls, HandleRelease(c) PROVE RepliesFit'
  BY <1>3, <1>6 DEF HandleRelease, placementVars
<1>7. ASSUME NEW m \in net, HandleAuctionEnded(m) PROVE RepliesFit'
  BY <1>3, <1>7 DEF HandleAuctionEnded, placementVars
<1>8. CASE RestartValidator
  BY <1>3, <1>8 DEF RestartValidator, placementVars
<1>9. ASSUME NEW i \in Schedulers, CheckTimers(i) PROVE RepliesFit'
  BY <1>3, <1>9, CheckEffect DEF Replies
<1>10. CASE IdleStep
  BY <1>3, <1>10 DEF IdleStep
<1> QED
  BY <1>2, <1>4, <1>5, <1>6, <1>7, <1>8, <1>9, <1>10, StepKinds

-----------------------------------------------------------------------------
\* No user holds more in an auction than the wallet has.

\* A hold that has been allowed and is not yet taken would fit by itself, since it
\* takes the place of the user's earlier one, ...
ReservesAreCovered ==
    \A c \in Calls : {About("validated", c), About("reserve", c)} \cap net # {}
                        => req[c].amount <= Balance[req[c].user]

\* ... and the system never charges: the total is what the key's one hold takes.
TotalsAreHolds == \A k \in PayT!ReservedKeys : userReserved[k] = PayT!Hold(k)

HoldInv == ReservesAreCovered /\ TotalsAreHolds /\ HeldWithinBalance

ValidatorInv == PayT!TypeOK /\ PayT!OneActivePerKey

\* What a key holds is the amount of its active reservation, or nothing.
KeysHoldOne ==
    \A k \in PayT!ReservedKeys :
        /\ PayT!ActiveOf(k) = {} => PayT!Hold(k) = 0
        /\ \A r \in PayT!ActiveOf(k) : PayT!Hold(k) = reservations[r].amount
        /\ PayT!Hold(k) \in Nat

LEMMA HoldAfter == ValidatorInv => KeysHoldOne
  BY ConstantsAreKnown, PayT!HoldIs DEF ValidatorInv, KeysHoldOne

LEMMA HoldAfterToo == ValidatorInv' => KeysHoldOne'
  BY HoldAfter, PTL

LEMMA TotalsStay ==
    ASSUME ValidatorInv, ValidatorInv', UNCHANGED paymentVars, TotalsAreHolds, HeldWithinBalance
    PROVE  TotalsAreHolds' /\ HeldWithinBalance'
<1>1. KeysHoldOne /\ KeysHoldOne'
  BY HoldAfter, HoldAfterToo
<1>2. reservations' = reservations /\ userReserved' = userReserved
  BY DEF paymentVars
<1>3. \A k \in PayT!ReservedKeys : PayT!ActiveOf(k)' = PayT!ActiveOf(k)
  BY <1>2 DEF PayT!ActiveOf, PayT!Active, PayT!KeyOf
<1>4. \A k \in PayT!ReservedKeys : PayT!Hold(k)' = PayT!Hold(k)
  BY <1>1, <1>2, <1>3 DEF KeysHoldOne, PayT!ReservedKeys
<1> QED
  BY <1>2, <1>4 DEF TotalsAreHolds, HeldWithinBalance, Pay!ReservedKeys, PayT!ReservedKeys

LEMMA ReleaseKeepsTotals ==
    ASSUME ValidatorInv, ValidatorInv', TotalsAreHolds, HeldWithinBalance,
           NEW S \in SUBSET PayT!Active, PayT!Release(S)
    PROVE  TotalsAreHolds' /\ HeldWithinBalance'
<1>1. ASSUME NEW k \in PayT!ReservedKeys
      PROVE  /\ userReserved'[k] = PayT!Hold(k)'
             /\ userReserved'[k] = 0 \/ userReserved'[k] = userReserved[k]
  <2>1. /\ IF \E r \in S : PayT!KeyOf(r) = k
           THEN PayT!ActiveOf(k)' = {} /\ userReserved'[k] = userReserved[k] - PayT!Hold(k)
           ELSE PayT!ActiveOf(k)' = PayT!ActiveOf(k) /\ userReserved'[k] = userReserved[k]
        /\ \A r \in DOMAIN reservations : reservations'[r].amount = reservations[r].amount
    BY ConstantsAreKnown, PayT!ReleaseEffect DEF ValidatorInv
  <2>2. /\ PayT!ActiveOf(k) = {} => PayT!Hold(k) = 0
        /\ \A r \in PayT!ActiveOf(k) : PayT!Hold(k) = reservations[r].amount
        /\ PayT!Hold(k) \in Nat /\ userReserved[k] = PayT!Hold(k)
    BY HoldAfter DEF KeysHoldOne, TotalsAreHolds
  <2>3. /\ PayT!ActiveOf(k)' = {} => PayT!Hold(k)' = 0
        /\ \A r \in PayT!ActiveOf(k)' : PayT!Hold(k)' = reservations'[r].amount
    BY HoldAfterToo DEF KeysHoldOne, PayT!ReservedKeys
  <2>4. PayT!ActiveOf(k) \subseteq DOMAIN reservations
    BY DEF PayT!ActiveOf, PayT!Active
  <2>5. CASE \E r \in S : PayT!KeyOf(r) = k
    BY <2>1, <2>2, <2>3, <2>5
  <2>6. CASE ~\E r \in S : PayT!KeyOf(r) = k
    BY <2>1, <2>2, <2>3, <2>4, <2>6
  <2> QED
    BY <2>5, <2>6
<1>2. TotalsAreHolds'
  BY <1>1 DEF TotalsAreHolds, PayT!ReservedKeys
<1>3. HeldWithinBalance'
  <2>1. \A k \in PayT!ReservedKeys : Balance[k[1]] \in Nat
    BY SystemAssumption DEF PayT!ReservedKeys
  <2> QED
    BY <1>1, <2>1 DEF HeldWithinBalance, Pay!ReservedKeys, PayT!ReservedKeys
<1> QED
  BY <1>2, <1>3

LEMMA ReserveKeepsTotals ==
    ASSUME ValidatorInv, ValidatorInv', TotalsAreHolds, HeldWithinBalance,
           NEW r \in Calls, NEW u \in Users, NEW a \in Auctions,
           NEW m \in {q.amount : q \in Requests},
           PayT!handleReserve(r, u, a, m), m <= Balance[u]
    PROVE  TotalsAreHolds' /\ HeldWithinBalance'
<1> DEFINE key == <<u, a>>
<1>1. /\ PayT!ActiveOf(key)' = {r} /\ reservations'[r].amount = m
      /\ userReserved'[key] = userReserved[key] - PayT!Hold(key) + m
      /\ \A k \in PayT!ReservedKeys \ {key} :
            /\ PayT!ActiveOf(k)' = PayT!ActiveOf(k) /\ userReserved'[k] = userReserved[k]
            /\ \A s \in PayT!ActiveOf(k) : reservations'[s] = reservations[s]
  BY ConstantsAreKnown, PayT!ReserveEffect DEF ValidatorInv
<1>2. \A k \in PayT!ReservedKeys :
        /\ PayT!ActiveOf(k) = {} => PayT!Hold(k) = 0
        /\ \A s \in PayT!ActiveOf(k) : PayT!Hold(k) = reservations[s].amount
        /\ PayT!Hold(k) \in Nat /\ userReserved[k] = PayT!Hold(k)
  BY HoldAfter DEF KeysHoldOne, TotalsAreHolds
<1>3. \A k \in PayT!ReservedKeys :
        /\ PayT!ActiveOf(k)' = {} => PayT!Hold(k)' = 0
        /\ \A s \in PayT!ActiveOf(k)' : PayT!Hold(k)' = reservations'[s].amount
  BY HoldAfterToo DEF KeysHoldOne, PayT!ReservedKeys
<1>4. key \in PayT!ReservedKeys /\ m \in Nat
  BY SystemAssumption DEF PayT!ReservedKeys
<1>5. userReserved'[key] = m /\ PayT!Hold(key)' = m
  BY <1>1, <1>2, <1>3, <1>4
<1>6. \A k \in PayT!ReservedKeys \ {key} : PayT!Hold(k)' = PayT!Hold(k)
  BY <1>1, <1>2, <1>3
<1>7. TotalsAreHolds'
  BY <1>1, <1>2, <1>5, <1>6 DEF TotalsAreHolds, PayT!ReservedKeys
<1>8. HeldWithinBalance'
  <2>1. \A k \in PayT!ReservedKeys \ {key} : userReserved'[k] <= Balance[k[1]]
    BY <1>1 DEF HeldWithinBalance, Pay!ReservedKeys, PayT!ReservedKeys
  <2>2. userReserved'[key] <= Balance[key[1]]
    BY <1>5
  <2> QED
    BY <2>1, <2>2 DEF HeldWithinBalance, Pay!ReservedKeys, PayT!ReservedKeys
<1> QED
  BY <1>7, <1>8

LEMMA HoldStep ==
    ASSUME SystemInv, Bid!TypeOK, Timer!TypeOK, ValidatorInv, ValidatorInv', RepliesFit, HoldInv,
           [Next]_vars
    PROVE  HoldInv'
<1>1. ASSUME UNCHANGED paymentVars, ReservesAreCovered' PROVE HoldInv'
  BY <1>1, TotalsStay DEF HoldInv
\* Requests do not change, so a step that sends neither message keeps them covered.
<1>2. ASSUME \A d \in DOMAIN req : d \in DOMAIN req' /\ req'[d] = req[d],
             \A d \in Calls : {About("validated", d), About("reserve", d)} \cap net' # {}
                                => {About("validated", d), About("reserve", d)} \cap net # {}
      PROVE  ReservesAreCovered'
  <2>1. \A d \in Calls :
           {About("validated", d), About("reserve", d)} \cap net # {} => d \in DOMAIN req
    BY MessageCall DEF SystemInv, RequestsAreKnown, SubmittedCalls
  <2> QED
    BY <1>2, <2>1 DEF HoldInv, ReservesAreCovered, About
<1>3. ASSUME NEW c \in Calls, EngineStep(c) PROVE HoldInv'
  <2>1. StepIsLocal(c) /\ StepSends(c)
    BY <1>3, EngineEffect DEF StepEffect
  <2>2. ASSUME NEW d \in Calls, {About("validated", d), About("reserve", d)} \cap net' # {}
        PROVE  {About("validated", d), About("reserve", d)} \cap net # {}
    <3>1. \A type \in {"validate", "reserve", "release"} :
             /\ About(type, c) # About("validated", d)
             /\ About(type, c) = About("reserve", d) => c = d
      BY MessageParts
    <3>2. About("validated", d) \in net' => About("validated", d) \in net
      BY <2>1, <3>1 DEF StepSends
    <3>3. About("reserve", d) \in net' => c = d \/ About("reserve", d) \in net
      BY <2>1, <3>1 DEF StepSends
    <3> QED
      BY <2>1, <2>2, <3>2, <3>3 DEF StepSends
  <2> QED
    BY <1>1, <1>2, <2>1, <2>2 DEF StepIsLocal
<1>4. ASSUME NEW c \in Calls, HandleValidate(c) PROVE HoldInv'
  <2>1. req' = req /\ UNCHANGED paymentVars
    BY <1>4 DEF HandleValidate, placementVars
  <2>2. c \in DOMAIN req
    BY <1>4, MessageCall DEF HandleValidate, SystemInv, RequestsAreKnown, SubmittedCalls
  <2>3. CASE Pay!Validates(req[c].user, req[c].auction, req[c].amount, Balance[req[c].user])
    <3>1. net' \subseteq net \cup {About("validated", c), About("not validated", c)}
      BY <1>4 DEF HandleValidate, Reply
    <3>2. /\ req[c].user \in Users /\ req[c].auction \in Auctions
          /\ req[c].amount \in Nat /\ Balance[req[c].user] \in Nat
      BY <2>2, SystemAssumption DEF SystemInv, RequestsAreKnown
    <3>3. userReserved[<<req[c].user, req[c].auction>>] \in Nat
      BY <3>2, HoldAfter DEF KeysHoldOne, HoldInv, TotalsAreHolds, PayT!ReservedKeys
    <3>4. req[c].amount <= Balance[req[c].user]
      BY <2>3, <3>2, <3>3 DEF Pay!Validates
    <3>5. ASSUME NEW d \in Calls, {About("validated", d), About("reserve", d)} \cap net' # {}
          PROVE  d = c \/ {About("validated", d), About("reserve", d)} \cap net # {}
      <4>1. /\ About("validated", d) = About("validated", c) => c = d
            /\ About("validated", d) # About("not validated", c)
            /\ About("reserve", d) # About("validated", c)
            /\ About("reserve", d) # About("not validated", c)
        BY MessageParts
      <4> QED
        BY <3>1, <3>5, <4>1
    <3>6. ReservesAreCovered'
      BY <2>1, <3>4, <3>5 DEF HoldInv, ReservesAreCovered, About
    <3> QED
      BY <1>1, <2>1, <3>6
  <2>4. CASE ~Pay!Validates(req[c].user, req[c].auction, req[c].amount, Balance[req[c].user])
    <3>1. net' \subseteq net \cup {About("not validated", c)}
      BY <1>4, <2>4 DEF HandleValidate, Reply
    <3>2. \A d \in Calls : About("validated", d) # About("not validated", c)
                           /\ About("reserve", d) # About("not validated", c)
      BY MessageParts
    <3> QED
      BY <1>1, <1>2, <2>1, <3>1, <3>2
  <2> QED
    BY <2>3, <2>4
<1>5. ASSUME NEW c \in Calls, HandleReserve(c) PROVE HoldInv'
  <2>1. req' = req /\ About("reserve", c) \in net
        /\ PayT!handleReserve(c, req[c].user, req[c].auction, req[c].amount)
    <3>1. c \in DOMAIN req
      BY <1>5, MessageCall DEF HandleReserve, SystemInv, RequestsAreKnown, SubmittedCalls
    <3> QED
      BY <1>5, <3>1, SystemAssumption, SameHandlers
         DEF HandleReserve, placementVars, SystemInv, RequestsAreKnown
  <2>2. /\ req[c].user \in Users /\ req[c].auction \in Auctions
        /\ req[c].amount \in {q.amount : q \in Requests}
    BY <2>1, MessageCall, RequestParts DEF SubmittedCalls
  <2>3. TotalsAreHolds' /\ HeldWithinBalance'
    BY <2>1, <2>2, ReserveKeepsTotals DEF HoldInv, ReservesAreCovered
  <2>4. net' \subseteq net \cup {About("reserved", c)}
    BY <1>5 DEF HandleReserve, Reply
  <2>5. \A d \in Calls : About("validated", d) # About("reserved", c)
                         /\ About("reserve", d) # About("reserved", c)
    BY MessageParts
  <2> QED
    BY <1>2, <2>1, <2>3, <2>4, <2>5 DEF HoldInv
<1>6. ASSUME NEW S \in SUBSET PayT!Active, PayT!Release(S), net' \subseteq net, req' = req
      PROVE  HoldInv'
  BY <1>2, <1>6, ReleaseKeepsTotals DEF HoldInv
<1>7. ASSUME NEW c \in Calls, HandleRelease(c) PROVE HoldInv'
  <2>1. req' = req /\ net' \subseteq net
    BY <1>7 DEF HandleRelease, placementVars
  <2> QED
    BY <1>1, <1>2, <1>6, <1>7, <2>1, SameHandlers DEF HandleRelease
<1>8. ASSUME NEW m \in net, HandleAuctionEnded(m) PROVE HoldInv'
  <2>1. req' = req /\ net' \subseteq net
    BY <1>8 DEF HandleAuctionEnded, placementVars
  <2>2. m.auction \in Auctions
    BY <1>8 DEF HandleAuctionEnded, SystemInv, MessagesAreKnown, Replies
  <2> DEFINE losers == {r \in PayT!Active : reservations[r].auction = m.auction
                                             /\ reservations[r].user # m.winner}
  <2>3. PayT!Release(losers) /\ losers \in SUBSET PayT!Active
    BY <1>8, <2>2, SameHandlers DEF HandleAuctionEnded
  <2> HIDE DEF losers
  <2> QED
    BY <1>6, <2>1, <2>3
<1>9. CASE RestartValidator
  <2>1. req' = req /\ net' \subseteq net /\ PayT!Restart
    BY <1>9, SameHandlers DEF RestartValidator, placementVars
  <2>2. ReservesAreCovered'
    BY <1>2, <2>1
  <2>3. \A k \in PayT!ReservedKeys : PayT!ActiveOf(k)' = {} /\ userReserved'[k] = 0
    BY <2>1, ConstantsAreKnown, PayT!RestartEffect DEF ValidatorInv
  <2>4. \A k \in PayT!ReservedKeys : PayT!ActiveOf(k)' = {} => PayT!Hold(k)' = 0
    BY HoldAfterToo DEF KeysHoldOne, PayT!ReservedKeys
  <2>5. \A k \in PayT!ReservedKeys : Balance[k[1]] \in Nat
    BY SystemAssumption DEF PayT!ReservedKeys
  <2> QED
    BY <2>2, <2>3, <2>4, <2>5
       DEF HoldInv, TotalsAreHolds, HeldWithinBalance, Pay!ReservedKeys, PayT!ReservedKeys
<1>10. ASSUME NEW i \in Schedulers, CheckTimers(i) PROVE HoldInv'
  <2>1. UNCHANGED <<req, paymentVars>> /\ \A m \in net' : m \in net \/ m.type = "ended"
    BY <1>10, CheckEffect
  <2>2. \A d \in Calls : About("validated", d).type # "ended" /\ About("reserve", d).type # "ended"
    BY MessageParts
  <2> QED
    BY <1>1, <1>2, <2>1, <2>2
<1>11. CASE IdleStep
  BY <1>1, <1>2, <1>11 DEF IdleStep
<1> QED
  BY <1>3, <1>4, <1>5, <1>7, <1>8, <1>9, <1>10, <1>11, StepKinds

\* The parts of the invariant that come from the components.
Base == SystemInv /\ TypeOK /\ ValidatorInv

LEMMA BaseHolds == Spec => []Base
<1>1. SystemInv /\ TypeOK /\ PayT!TypeOK /\ PayT!OneActivePerKey => Base
  BY DEF Base, ValidatorInv
<1> QED
  BY <1>1, SystemInvHolds, SystemTyping, ValidatorInvHolds, PTL

LEMMA HoldInit == Init => RepliesFit /\ HoldInv
<1> SUFFICES ASSUME Init PROVE RepliesFit /\ HoldInv
  OBVIOUS
<1>1. net = {} /\ PayT!Init
  BY SameValidator DEF Init
<1>2. ValidatorInv
  BY <1>1, ConstantsAreKnown, PayT!InvInit DEF ValidatorInv, PayT!Inv
<1>3. \A k \in PayT!ReservedKeys : PayT!ActiveOf(k) = {} /\ userReserved[k] = 0
  BY <1>1 DEF PayT!Init, PayT!ActiveOf, PayT!Active
<1>4. TotalsAreHolds
  BY <1>2, <1>3, HoldAfter DEF KeysHoldOne, TotalsAreHolds
<1>5. HeldWithinBalance
  <2>1. \A k \in PayT!ReservedKeys : Balance[k[1]] \in Nat
    BY SystemAssumption DEF PayT!ReservedKeys
  <2> QED
    BY <1>3, <2>1 DEF HeldWithinBalance, Pay!ReservedKeys, PayT!ReservedKeys
<1> QED
  BY <1>1, <1>4, <1>5 DEF RepliesFit, HoldInv, ReservesAreCovered

\* A user's holds in an auction stay within the wallet, although the balance is
\* compared by one handler and the hold is taken by another, later one, with any
\* messages, timeouts and restarts of the validator in between (validator.go:74).
THEOREM HoldsAreCovered == Spec => []HeldWithinBalance
<1>1. Base /\ Base' /\ RepliesFit /\ HoldInv /\ [Next]_vars => RepliesFit' /\ HoldInv'
  BY RepliesStep, HoldStep DEF Base, TypeOK
<1>2. HoldInv => HeldWithinBalance
  BY DEF HoldInv
<1> QED
  BY <1>1, <1>2, HoldInit, BaseHolds, PTL DEF Spec

-----------------------------------------------------------------------------
\* An accepted bid keeps its funds.

\* The validator keeps no reservation over a restart; while it does not restart, ...
NoRestart == "restart" \notin NetworkFaults

\* ... a call on its way to a release is going to answer with an error, ...
ErrorsAreAnswered == \A c \in Calls : pc[c] \in {"undo", "release"} => outcome[c] = "error"

\* ... a reservation comes before the reply, the row and the answer, ...
BidsAreReserved ==
    \A c \in Calls : pc[c] = "create" \/ c \in bids \/ About("reserved", c) \in net => c \in issued

\* ... only calls that have answered with an error release their own, ...
GivenBack(c) == pc[c] = "done" /\ outcome[c] = "error"

ReleasesAreOwn == \A c \in Calls : About("release", c) \in net => GivenBack(c)

\* ... an end that is on its way was announced, ...
Announced(a, w) == \E n \in DOMAIN announced[a] : announced[a][n] = w

EndsWereAnnounced == \A m \in net : m.type = "ended" => Announced(m.auction, m.winner)

\* ... a reservation is for the bidder and the auction of the call that asked, ...
HoldsKnow ==
    /\ issued \subseteq DOMAIN req
    /\ \A r \in DOMAIN reservations : /\ reservations[r].user = req[r].user
                                      /\ reservations[r].auction = req[r].auction

\* ... so every reservation is active, replaced, given back, or lost to the end.
Replaced(c) ==
    \/ \E d \in issued \ {c} : SameKey(c, d)
    \/ \E n \in DOMAIN announced[req[c].auction] : announced[req[c].auction][n] # req[c].user

HoldsAreKept == \A c \in issued : c \in PayT!Active \/ Replaced(c) \/ GivenBack(c)

CallsReserve == ErrorsAreAnswered /\ BidsAreReserved /\ ReleasesAreOwn

BackInv == CallsReserve /\ EndsWereAnnounced /\ HoldsKnow /\ HoldsAreKept

LEMMA BackInit == Init => BackInv
<1> SUFFICES ASSUME Init PROVE BackInv
  OBVIOUS
<1>1. /\ net = {} /\ bids = {} /\ issued = {} /\ reservations = <<>>
      /\ pc = [c \in Calls |-> "idle"]
  BY DEF Init, Bid!Init, Pay!Init
<1> QED
  BY <1>1 DEF BackInv, CallsReserve, ErrorsAreAnswered, BidsAreReserved, ReleasesAreOwn,
              EndsWereAnnounced, HoldsKnow, HoldsAreKept

\* What a step that concerns one call leaves true of the reservations.
LEMMA EngineKeepsBack ==
    ASSUME SystemInv, TypeOK, ValidatorInv, RepliesFit, BackInv, NEW c \in Calls, EngineStep(c)
    PROVE  BackInv'
<1>1. StepIsLocal(c) /\ StepFollowsPlan(c) /\ StepSends(c)
  BY EngineEffect DEF StepEffect, TypeOK
<1>2. UNCHANGED <<announced, reservations, issued>>
  BY <1>1 DEF StepIsLocal, timerVars, paymentVars
<1>3. \A d \in Calls : GivenBack(d) => GivenBack(d)'
  BY <1>1 DEF StepIsLocal, GivenBack
<1>4. \A m \in net' :
         m \in net \/ \E type \in {"validate", "reserve", "release"} : m = About(type, c)
  BY <1>1 DEF StepSends
<1>5. \A d \in DOMAIN req : d \in DOMAIN req' /\ req'[d] = req[d]
  BY <1>1 DEF StepIsLocal
<1>6. ErrorsAreAnswered'
  <2>1. \A d \in Calls \ {c} : pc'[d] = pc[d] /\ outcome'[d] = outcome[d]
    BY <1>1 DEF StepIsLocal
  <2>2. pc'[c] \in {"undo", "release"} => outcome'[c] = "error"
    BY <1>1 DEF StepFollowsPlan, BackInv, CallsReserve, ErrorsAreAnswered
  <2> QED
    BY <2>1, <2>2 DEF BackInv, CallsReserve, ErrorsAreAnswered
<1>7. BidsAreReserved'
  <2>1. \A d \in Calls : About("reserved", d) \in net' => About("reserved", d) \in net
    BY <1>4, MessageParts
  <2>2. \A d \in Calls : pc'[d] = "create" =>
           pc[d] = "create" \/ About("reserved", d) \in net
    BY <1>1 DEF StepFollowsPlan, StepIsLocal
  <2>3. \A d \in Calls : d \in bids' => d \in bids \/ pc[d] = "create"
    BY <1>1 DEF StepFollowsPlan
  <2> QED
    BY <1>2, <2>1, <2>2, <2>3 DEF BackInv, CallsReserve, BidsAreReserved, About
<1>8. ReleasesAreOwn'
  <2>1. ASSUME NEW d \in Calls, About("release", d) \in net' PROVE GivenBack(d)'
    <3>1. CASE About("release", d) \in net
      BY <1>3, <3>1 DEF BackInv, CallsReserve, ReleasesAreOwn
    <3>2. CASE About("release", d) \notin net
      <4>1. d = c
        BY <1>4, <2>1, <3>2, MessageParts
      <4>2. pc[c] = "release" /\ pc'[c] = "done" /\ outcome'[c] = outcome[c]
        BY <1>1, <2>1, <3>2, <4>1 DEF StepSends
      <4> QED
        BY <4>1, <4>2 DEF BackInv, CallsReserve, ErrorsAreAnswered, GivenBack
    <3> QED
      BY <3>1, <3>2
  <2> QED
    BY <2>1 DEF ReleasesAreOwn, About
<1>9. EndsWereAnnounced'
  <2>1. \A m \in net' : m.type = "ended" => m \in net
    <3>1. \A type \in {"validate", "reserve", "release"} :
             About(type, c).type = type /\ type # "ended"
      BY MessageParts
    <3> QED
      BY <1>4, <3>1
  <2> QED
    BY <1>2, <2>1 DEF BackInv, EndsWereAnnounced, Announced
<1>10. \A d \in issued : d \in Calls /\ d \in DOMAIN req /\ req'[d] = req[d]
  BY <1>5 DEF BackInv, HoldsKnow, ValidatorInv, PayT!TypeOK
<1>11. HoldsKnow'
  BY <1>2, <1>5, <1>10 DEF BackInv, HoldsKnow, ValidatorInv, PayT!TypeOK
<1>12. HoldsAreKept'
  <2>1. ASSUME NEW d \in issued PROVE (d \in PayT!Active \/ Replaced(d) \/ GivenBack(d))'
    <3>1. CASE d \in PayT!Active
      BY <1>2, <3>1 DEF PayT!Active
    <3>2. CASE Replaced(d)
      BY <1>2, <1>10, <3>2 DEF Replaced, SameKey
    <3>3. CASE GivenBack(d)
      BY <1>3, <1>10, <3>3
    <3> QED
      BY <3>1, <3>2, <3>3 DEF BackInv, HoldsAreKept
  <2> QED
    BY <1>2, <2>1 DEF HoldsAreKept
<1> QED
  BY <1>6, <1>7, <1>8, <1>9, <1>11, <1>12 DEF BackInv, CallsReserve

\* A step of any other process: calls stay where they are, announcements stay
\* made, and the messages sent are what the invariant allows.
LEMMA OthersKeepBack ==
    ASSUME ValidatorInv, ValidatorInv', BackInv, UNCHANGED <<pc, req, outcome, bids>>,
           \A a \in Auctions : \A n \in DOMAIN announced[a] :
              n \in DOMAIN announced'[a] /\ announced'[a][n] = announced[a][n],
           \A r \in issued : req[r].auction \in Auctions,
           issued \subseteq issued', issued' \subseteq DOMAIN req,
           \A r \in DOMAIN reservations' : /\ reservations'[r].user = req[r].user
                                           /\ reservations'[r].auction = req[r].auction,
           \A m \in net' : m.type = "ended" => Announced(m.auction, m.winner)',
           \A c \in Calls : About("reserved", c) \in net' => c \in issued',
           \A c \in Calls : About("release", c) \in net' => About("release", c) \in net,
           \A c \in issued' : \/ c \in PayT!Active' \/ Replaced(c)' \/ GivenBack(c)
                              \/ c \in issued /\ c \notin PayT!Active
    PROVE  BackInv'
<1>1. \A c \in Calls : GivenBack(c)' <=> GivenBack(c)
  BY DEF GivenBack
<1>2. issued' \subseteq Calls
  BY DEF ValidatorInv, PayT!TypeOK
<1>3. CallsReserve'
  BY <1>1 DEF BackInv, CallsReserve, ErrorsAreAnswered, BidsAreReserved, ReleasesAreOwn, About
<1>4. EndsWereAnnounced' /\ HoldsKnow'
  BY DEF EndsWereAnnounced, HoldsKnow
<1>5. \A c \in issued : Replaced(c) => Replaced(c)'
  BY DEF Replaced, SameKey
<1>6. HoldsAreKept'
  BY <1>1, <1>2, <1>5 DEF BackInv, HoldsAreKept
<1> QED
  BY <1>3, <1>4, <1>6 DEF BackInv

\* Steps of the validator that end some reservations and start none.
LEMMA ReleaseKeepsBack ==
    ASSUME SystemInv, TypeOK, ValidatorInv, ValidatorInv', BackInv,
           UNCHANGED <<pc, req, outcome, bids, announced>>, net' \subseteq net,
           NEW S \in SUBSET PayT!Active, PayT!Release(S),
           \A r \in S : Replaced(r) \/ GivenBack(r)
    PROVE  BackInv'
<1>1. issued' = issued /\ DOMAIN reservations' = DOMAIN reservations
  BY DEF PayT!Release, PayT!WithStatus
<1>2. \A r \in DOMAIN reservations :
         /\ reservations'[r].user = reservations[r].user
         /\ reservations'[r].auction = reservations[r].auction
         /\ r \notin S => reservations'[r].status = reservations[r].status
  <2>1. \A r \in DOMAIN reservations :
           reservations[r] \in [user : Users, auction : Auctions,
                                amount : {q.amount : q \in Requests},
                                status : {"active", "released", "charged"}]
    BY DEF ValidatorInv, PayT!TypeOK, PayT!Reservation
  <2> QED
    BY <2>1 DEF PayT!Release, PayT!WithStatus
<1>3. PayT!Active \ S \subseteq PayT!Active'
  BY <1>1, <1>2 DEF PayT!Active
<1>4. \A r \in issued : req[r].auction \in Auctions
  BY SystemAssumption DEF BackInv, HoldsKnow, SystemInv, RequestsAreKnown
<1>5. \A r \in S : Replaced(r)' \/ GivenBack(r)
  BY <1>1 DEF Replaced, SameKey
<1>6. \A c \in issued' : \/ c \in PayT!Active' \/ Replaced(c)' \/ GivenBack(c)
                         \/ c \in issued /\ c \notin PayT!Active
  BY <1>1, <1>3, <1>5
<1>7. /\ issued \subseteq issued' /\ issued' \subseteq DOMAIN req
      /\ \A r \in DOMAIN reservations' : /\ reservations'[r].user = req[r].user
                                         /\ reservations'[r].auction = req[r].auction
  BY <1>1, <1>2 DEF BackInv, HoldsKnow
<1>8. /\ \A m \in net' : m.type = "ended" => Announced(m.auction, m.winner)'
      /\ \A c \in Calls : About("reserved", c) \in net' => c \in issued'
      /\ \A c \in Calls : About("release", c) \in net' => About("release", c) \in net
  BY <1>1 DEF BackInv, CallsReserve, BidsAreReserved, EndsWereAnnounced, Announced
<1> QED
  BY <1>4, <1>6, <1>7, <1>8, OthersKeepBack

LEMMA ReserveKeepsBack ==
    ASSUME SystemInv, TypeOK, ValidatorInv, ValidatorInv', BackInv,
           NEW c \in Calls, HandleReserve(c)
    PROVE  BackInv'
<1>1. c \in DOMAIN req
  BY MessageCall DEF HandleReserve, SystemInv, RequestsAreKnown, SubmittedCalls
<1>2. req[c].user \in Users /\ req[c].auction \in Auctions
  BY <1>1, SystemAssumption DEF SystemInv, RequestsAreKnown
<1> DEFINE old == PayT!ActiveOf(<<req[c].user, req[c].auction>>)
<1>3. /\ UNCHANGED <<pc, req, outcome, bids, announced>>
      /\ net' \subseteq net \cup {About("reserved", c)}
      /\ PayT!handleReserve(c, req[c].user, req[c].auction, req[c].amount)
  BY <1>2, SameHandlers DEF HandleReserve, Reply, placementVars, timerVars
<1>4. /\ c \notin issued /\ issued' = issued \cup {c}
      /\ DOMAIN reservations' = DOMAIN reservations \cup {c} /\ c \notin DOMAIN reservations
      /\ reservations'[c].user = req[c].user /\ reservations'[c].auction = req[c].auction
      /\ reservations'[c].status = "active"
  BY <1>3 DEF PayT!handleReserve, ValidatorInv, PayT!TypeOK
<1>5. \A r \in DOMAIN reservations :
         /\ reservations'[r].user = reservations[r].user
         /\ reservations'[r].auction = reservations[r].auction
         /\ r \notin old => reservations'[r].status = reservations[r].status
  <2>1. \A r \in DOMAIN reservations :
           reservations[r] \in [user : Users, auction : Auctions,
                                amount : {q.amount : q \in Requests},
                                status : {"active", "released", "charged"}]
    BY DEF ValidatorInv, PayT!TypeOK, PayT!Reservation
  <2>2. \A r \in DOMAIN reservations : reservations'[r] = PayT!WithStatus(old, "released")[r]
    BY <1>3, <1>4 DEF PayT!handleReserve
  <2> HIDE DEF old
  <2> QED
    BY <2>1, <2>2 DEF PayT!WithStatus
<1>6. (PayT!Active \ old) \cup {c} \subseteq PayT!Active'
  BY <1>4, <1>5 DEF PayT!Active
\* The one it replaces is an earlier reservation of the same bidder.
<1>7. \A r \in old : Replaced(r)'
  <2>1. \A r \in old : /\ r \in DOMAIN reservations
                       /\ reservations[r].user = req[c].user
                       /\ reservations[r].auction = req[c].auction
    BY DEF PayT!ActiveOf, PayT!Active, PayT!KeyOf
  <2>2. \A r \in old : r \in issued /\ SameKey(r, c)
    BY <2>1 DEF BackInv, HoldsKnow, SameKey, ValidatorInv, PayT!TypeOK
  <2> HIDE DEF old
  <2> QED
    BY <1>3, <1>4, <2>2 DEF Replaced, SameKey
<1>8. \A r \in issued : req[r].auction \in Auctions
  BY SystemAssumption DEF BackInv, HoldsKnow, SystemInv, RequestsAreKnown
<1>9. \A r \in issued' : \/ r \in PayT!Active' \/ Replaced(r)' \/ GivenBack(r)
                         \/ r \in issued /\ r \notin PayT!Active
  <2> HIDE DEF old
  <2> QED
    BY <1>4, <1>6, <1>7
<1>10. /\ issued \subseteq issued' /\ issued' \subseteq DOMAIN req
       /\ \A r \in DOMAIN reservations' : /\ reservations'[r].user = req[r].user
                                          /\ reservations'[r].auction = req[r].auction
  BY <1>1, <1>4, <1>5 DEF BackInv, HoldsKnow
<1>11. \A m \in net' : m.type = "ended" => Announced(m.auction, m.winner)'
  <2>1. About("reserved", c).type = "reserved"
    BY MessageParts
  <2> QED
    BY <1>3, <2>1 DEF BackInv, EndsWereAnnounced, Announced
<1>12. /\ \A d \in Calls : About("reserved", d) \in net' => d \in issued'
       /\ \A d \in Calls : About("release", d) \in net' => About("release", d) \in net
  <2>1. \A d \in Calls : /\ About("release", d) # About("reserved", c)
                         /\ About("reserved", d) = About("reserved", c) => d = c
    BY MessageParts
  <2> QED
    BY <1>3, <1>4, <2>1 DEF BackInv, CallsReserve, BidsAreReserved
<1> HIDE DEF old
<1> QED
  BY <1>3, <1>8, <1>9, <1>10, <1>11, <1>12, OthersKeepBack

LEMMA BackStep ==
    ASSUME NoRestart, SystemInv, TypeOK, ValidatorInv, ValidatorInv', RepliesFit, BackInv,
           [Next]_vars
    PROVE  BackInv'
<1>1. \A r \in issued : req[r].auction \in Auctions
  BY SystemAssumption DEF BackInv, HoldsKnow, SystemInv, RequestsAreKnown
\* Steps that leave the reservations and the announcements alone.
<1>2. ASSUME UNCHANGED <<pc, req, outcome, bids, reservations, issued>>,
             \A a \in Auctions : \A n \in DOMAIN announced[a] :
                n \in DOMAIN announced'[a] /\ announced'[a][n] = announced[a][n],
             \A m \in net' : m.type = "ended" => Announced(m.auction, m.winner)',
             \A c \in Calls : About("reserved", c) \in net' => About("reserved", c) \in net,
             \A c \in Calls : About("release", c) \in net' => About("release", c) \in net
      PROVE  BackInv'
  <2>1. PayT!Active' = PayT!Active
    BY <1>2 DEF PayT!Active
  <2>2. /\ issued \subseteq issued' /\ issued' \subseteq DOMAIN req
        /\ \A r \in DOMAIN reservations' : /\ reservations'[r].user = req[r].user
                                           /\ reservations'[r].auction = req[r].auction
    BY <1>2 DEF BackInv, HoldsKnow
  <2>3. \A c \in Calls : About("reserved", c) \in net' => c \in issued'
    BY <1>2 DEF BackInv, CallsReserve, BidsAreReserved
  <2>4. \A c \in issued' : \/ c \in PayT!Active' \/ Replaced(c)' \/ GivenBack(c)
                           \/ c \in issued /\ c \notin PayT!Active
    BY <1>2, <2>1
  <2> QED
    BY <1>1, <1>2, <2>2, <2>3, <2>4, OthersKeepBack
<1>3. ASSUME UNCHANGED <<pc, req, outcome, bids, announced, reservations, issued>>,
             \A m \in net' : m \in net \/ m.type \in {"validated", "not validated"}
      PROVE  BackInv'
  <2>1. \A m \in net' : m.type = "ended" => m \in net
    BY <1>3
  <2>2. \A m \in net' : m.type = "ended" => Announced(m.auction, m.winner)'
    BY <1>3, <2>1 DEF BackInv, EndsWereAnnounced, Announced
  <2>3. \A c \in Calls : /\ About("reserved", c).type = "reserved"
                          /\ About("release", c).type = "release"
    BY MessageParts
  <2>4. /\ \A c \in Calls : About("reserved", c) \in net' => About("reserved", c) \in net
        /\ \A c \in Calls : About("release", c) \in net' => About("release", c) \in net
    BY <1>3, <2>3
  <2>5. \A a \in Auctions : \A n \in DOMAIN announced[a] :
           n \in DOMAIN announced'[a] /\ announced'[a][n] = announced[a][n]
    BY <1>3
  <2> QED
    BY <1>2, <1>3, <2>2, <2>4, <2>5
<1>4. ASSUME NEW c \in Calls, HandleValidate(c) PROVE BackInv'
  <2>1. \A m \in net' : m \in net \/ m \in {About("validated", c), About("not validated", c)}
    BY <1>4 DEF HandleValidate, Reply
  <2>2. \A m \in net' : m \in net \/ m.type \in {"validated", "not validated"}
    BY <2>1, MessageParts
  <2> QED
    BY <1>3, <1>4, <2>2 DEF HandleValidate, placementVars, timerVars, paymentVars
<1>5. ASSUME NEW c \in Calls, HandleRelease(c) PROVE BackInv'
  <2>1. UNCHANGED <<pc, req, outcome, bids, announced>> /\ net' \subseteq net
    BY <1>5 DEF HandleRelease, placementVars, timerVars
  <2>2. CASE Pay!handleRelease(c)
    <3>1. {c} \in SUBSET PayT!Active /\ PayT!Release({c})
      BY <2>2, SameHandlers
    <3>2. GivenBack(c)
      BY <1>5 DEF HandleRelease, BackInv, CallsReserve, ReleasesAreOwn
    <3>3. \A r \in {c} : Replaced(r) \/ GivenBack(r)
      BY <3>2
    <3> QED
      BY <2>1, <3>1, <3>3, ReleaseKeepsBack
  <2>3. CASE UNCHANGED paymentVars
    BY <1>3, <2>1, <2>3 DEF paymentVars
  <2> QED
    BY <1>5, <2>2, <2>3 DEF HandleRelease
<1>6. ASSUME NEW m \in net, HandleAuctionEnded(m) PROVE BackInv'
  <2>1. UNCHANGED <<pc, req, outcome, bids, announced>> /\ net' \subseteq net
    BY <1>6 DEF HandleAuctionEnded, placementVars, timerVars
  <2>2. m.auction \in Auctions /\ Announced(m.auction, m.winner)
    BY <1>6 DEF HandleAuctionEnded, SystemInv, MessagesAreKnown, Replies, BackInv, EndsWereAnnounced
  <2> DEFINE losers == {r \in PayT!Active : reservations[r].auction = m.auction
                                             /\ reservations[r].user # m.winner}
  <2>3. PayT!Release(losers) /\ losers \in SUBSET PayT!Active
    BY <1>6, <2>2, SameHandlers DEF HandleAuctionEnded
  <2>4. \A r \in losers : Replaced(r)
    BY <2>2 DEF PayT!Active, BackInv, HoldsKnow, Replaced, Announced
  <2> HIDE DEF losers
  <2> QED
    BY <2>1, <2>3, <2>4, ReleaseKeepsBack
<1>7. ASSUME NEW i \in Schedulers, CheckTimers(i) PROVE BackInv'
  <2>1. /\ UNCHANGED <<pc, req, outcome, bids, paymentVars>>
        /\ \A a \in Auctions : \A n \in DOMAIN announced[a] :
              n \in DOMAIN announced'[a] /\ announced'[a][n] = announced[a][n]
        /\ \A m \in net' : \/ m \in net
                           \/ /\ m.type = "ended" /\ m.auction \in Auctions
                              /\ \E n \in DOMAIN announced'[m.auction] :
                                    announced'[m.auction][n] = m.winner
    BY <1>7, CheckEffect DEF TypeOK
  <2>2. \A m \in net : m.type = "ended" => m.auction \in Auctions
    BY DEF SystemInv, MessagesAreKnown, Replies
  <2>3. \A m \in net' : m.type = "ended" => Announced(m.auction, m.winner)'
    BY <2>1, <2>2 DEF BackInv, EndsWereAnnounced, Announced
  <2>4. \A c \in Calls : About("reserved", c).type # "ended" /\ About("release", c).type # "ended"
    BY MessageParts
  <2> QED
    BY <1>2, <2>1, <2>3, <2>4 DEF paymentVars
<1>8. CASE IdleStep
  BY <1>3, <1>8 DEF IdleStep, paymentVars
<1> QED
  BY <1>4, <1>5, <1>6, <1>7, <1>8, EngineKeepsBack, ReserveKeepsBack, StepKinds
     DEF NoRestart, RestartValidator

\* A bid with a row keeps its funds while there is no other reservation of its
\* bidder in the auction and no announced end that names another winner or none:
\* no release, timeout, late reply, lost message or crash of a call takes them
\* (service.go:163).  Only a call that answers with an error gives them back, and
\* only a restart of the validator, which forgets every reservation, takes them all.
THEOREM BidsStayBacked == NoRestart => (Spec => []AcceptedBidIsBacked)
<1> SUFFICES ASSUME NoRestart PROVE Spec => []AcceptedBidIsBacked
  OBVIOUS
<1>1. Base /\ Base' /\ RepliesFit /\ BackInv /\ [Next]_vars => RepliesFit' /\ BackInv'
  BY RepliesStep, BackStep DEF Base, TypeOK
<1>2. Init => RepliesFit
  BY HoldInit
<1>3. Base /\ BackInv => AcceptedBidIsBacked
  <2> SUFFICES ASSUME SystemInv, ValidatorInv, BackInv, NEW c \in bids
               PROVE  \/ outcome[c] = "error"
                      \/ c \in Pay!Active
                      \/ /\ c \in issued
                         /\ \/ \E d \in issued \ {c} : SameKey(c, d)
                            \/ \E n \in DOMAIN announced[req[c].auction] :
                                  announced[req[c].auction][n] # req[c].user
    BY DEF Base, AcceptedBidIsBacked
  <2>1. c \in Calls
    BY DEF SystemInv, RequestsAreKnown
  <2>2. c \in issued
    BY <2>1 DEF BackInv, CallsReserve, BidsAreReserved
  <2> QED
    BY <2>2, SameHandlers DEF BackInv, HoldsAreKept, Replaced, GivenBack
<1> QED
  BY <1>1, <1>2, <1>3, BackInit, BaseHolds, PTL DEF Spec

=============================================================================
