---------------------------- MODULE BiddingSystem ----------------------------
(***************************************************************************)
(* The bidding engine, its auction scheduler and the payment validator,    *)
(* joined by the messages they exchange over NATS.  Every action is an     *)
(* action of one component with the messages it takes and sends, so the    *)
(* system refines each of them.  Core NATS delivers a message at most      *)
(* once, and messages of different calls in any order.                     *)
(*                                                                         *)
(* A definition commented "Bug:" is not part of the specification.  It is  *)
(* the next one with a plausible mistake, which a property must reject.    *)
(***************************************************************************)
EXTENDS Integers, Sequences, FiniteSetsExt

CONSTANTS Calls, Users, Keys, Auctions, Requests, StartPrice, MinIncrement, NoBid,
          Schedulers, StartsAt, EndsAt, MaxTime,
          Balance,          \* user -> the wallet's answer; the repository never changes it
          PlacementFaults,  \* of BidPlacement
          SchedulerFaults,  \* of AuctionScheduler
          NetworkFaults     \* which of AllNetworkFaults may happen

AllNetworkFaults ==
    {"timeout",   \* a caller gives up on a request that is still on its way
     "loss",      \* a message is not delivered
     "restart",   \* the validator is restarted
     "wallet",    \* the wallet service does not answer
     "pubAck"}    \* the stream that captures the subject answers the request

VARIABLES pc, req, seen, outcome, highest, idem, bidState,
          status, currentPrice, bids, shown,
          now, phase, checkTime, rows, closing, started, announced,
          reservations, issued, userReserved,
          net     \* the messages on their way

NoWinner == "no winner"

Bid == INSTANCE BidPlacement WITH Faults <- PlacementFaults

Timer == INSTANCE AuctionScheduler WITH
             Winners <- Users \cup {NoWinner}, Faults <- SchedulerFaults

\* The uuid of a reservation is the call that asked for it.
Pay == INSTANCE PaymentValidator WITH
           Amounts <- {r.amount : r \in Requests}, Reservations <- Calls

ASSUME SystemAssumption ==
    /\ Requests \subseteq [user : Users, key : Keys, auction : Auctions, amount : Nat]
    /\ StartPrice \in [Auctions -> Nat] /\ MinIncrement \in [Auctions -> Nat]
    /\ NoBid \notin Calls
    /\ MaxTime \in Nat
    /\ StartsAt \in [Auctions -> 0 .. MaxTime] /\ EndsAt \in [Auctions -> 0 .. MaxTime]
    /\ Balance \in [Users -> Nat]
    /\ PlacementFaults \subseteq Bid!AllFaults
    /\ SchedulerFaults \subseteq Timer!AllFaults
    /\ NetworkFaults \subseteq AllNetworkFaults

placementVars == <<pc, req, seen, outcome, highest, idem, bidState, currentPrice, bids, shown>>
timerVars == <<now, phase, checkTime, rows, closing, started, announced>>
paymentVars == <<reservations, issued, userReserved>>
vars == <<placementVars, status, timerVars, paymentVars, net>>

About(type, c) == [type |-> type, call |-> c]

Replies == {"validated", "not validated", "reserved"}

Messages == [type : {"validate", "reserve", "release"} \cup Replies, call : Calls]
              \cup [type : {"ended"}, auction : Auctions, winner : Users \cup {NoWinner}]

TypeOK == Bid!TypeOK /\ Timer!TypeOK /\ Pay!TypeOK /\ net \subseteq Messages

Init == Bid!Init /\ Timer!SchedulerInit /\ Pay!Init /\ net = {}

-----------------------------------------------------------------------------
\* The engine's steps that exchange no message.

Engine(step) == step /\ UNCHANGED <<timerVars, paymentVars, net>>

Submit(c, r) == Engine(Bid!Submit(c, r))

\* time.Now().After(auction.EndsAt)
CheckAuction(c) ==
    \/ c \in DOMAIN req /\ Engine(Bid!CheckAuction(c, now > EndsAt[req[c].auction]))
    \/ Engine(Bid!CheckAuctionFails(c))

LocalStep(c) ==
    \/ Engine(Bid!PrepareBidFails(c))
    \/ Engine(Bid!CreateBid(c)) \/ Engine(Bid!CreateBidFails(c))
    \/ Engine(Bid!CompleteBid(c))
    \/ Engine(Bid!ReadHighest(c)) \/ Engine(Bid!PublishUpdate(c))

-----------------------------------------------------------------------------
\* The engine's side of its two requests, and its release.

PrepareBid(c) ==
    /\ Bid!PrepareBid(c)
    /\ net' = net \cup (IF pc'[c] = "validate" THEN {About("validate", c)} ELSE {})
    /\ UNCHANGED <<timerVars, paymentVars>>

RepliesTo(c) == {m \in net : m.type \in Replies /\ m.call = c}

\* A yes sends the next request, a no ends the attempt.  Replies that come
\* after the request has been answered or given up find no inbox.
Take(c, reply) ==
    /\ \/ /\ Bid!ValidateReply(c, reply)
          /\ net' = (net \ RepliesTo(c))
                       \cup (IF reply = "yes" THEN {About("reserve", c)} ELSE {})
       \/ Bid!ReserveReply(c, reply) /\ net' = net \ RepliesTo(c)
    /\ UNCHANGED <<timerVars, paymentVars>>

TakeReply(c) ==
    \E m \in RepliesTo(c) : Take(c, IF m.type = "not validated" THEN "no" ELSE "yes")

\* Bug: the error of a request is ignored.
TimeoutIgnored(c) == "timeout" \in NetworkFaults /\ Take(c, "yes")

\* Bug: the second request has no timeout.
TimeoutOnce(c) == "timeout" \in NetworkFaults /\ pc[c] = "validate" /\ Take(c, "none")

Timeout(c) == "timeout" \in NetworkFaults /\ Take(c, "none")

\* The acknowledgement of the stream PAYMENT, which captures licit.payment.>,
\* goes to the same inbox; it decodes with Valid and Reserved false.
StreamAck(c) == "pubAck" \in NetworkFaults /\ Take(c, "no")

\* Bug: nothing is published.
ReleaseNothing(c) == Bid!ReleaseReservation(c) /\ UNCHANGED <<timerVars, paymentVars, net>>

ReleaseReservation(c) ==
    /\ Bid!ReleaseReservation(c)
    /\ net' = net \cup {About("release", c)}
    /\ UNCHANGED <<timerVars, paymentVars>>

Crash(c) ==
    /\ Bid!Crash(c) /\ net' = net \ RepliesTo(c)
    /\ UNCHANGED <<timerVars, paymentVars>>

-----------------------------------------------------------------------------
\* The validator's handlers.  Its reply is sent only to a caller still waiting.

Reply(c, place, type) == IF pc[c] = place THEN {About(type, c)} ELSE {}

HandleValidate(c) ==
    LET ok == Pay!Validates(req[c].user, req[c].auction, req[c].amount, Balance[req[c].user])
    IN  /\ About("validate", c) \in net
        /\ \/ net' = (net \ {About("validate", c)})
                       \cup Reply(c, "validate", IF ok THEN "validated" ELSE "not validated")
           \/ /\ "wallet" \in NetworkFaults
              /\ net' = (net \ {About("validate", c)}) \cup Reply(c, "validate", "not validated")
        /\ UNCHANGED <<placementVars, status, timerVars, paymentVars>>

HandleReserve(c) ==
    /\ About("reserve", c) \in net
    /\ Pay!handleReserve(c, req[c].user, req[c].auction, req[c].amount)
    /\ net' = (net \ {About("reserve", c)}) \cup Reply(c, "reserve", "reserved")
    /\ UNCHANGED <<placementVars, status, timerVars>>

HandleRelease(c) ==
    /\ About("release", c) \in net /\ net' = net \ {About("release", c)}
    /\ Pay!handleRelease(c) \/ (c \notin Pay!Active /\ UNCHANGED paymentVars)
    /\ UNCHANGED <<placementVars, status, timerVars>>

HandleAuctionEnded(m) ==
    /\ m.type = "ended" /\ net' = net \ {m}
    /\ Pay!handleAuctionEnded(m.auction, m.winner)
    /\ UNCHANGED <<placementVars, status, timerVars>>

\* What the validator is told without being asked.
HandleNotice ==
    \/ \E c \in Calls : HandleRelease(c)
    \/ \E m \in net : HandleAuctionEnded(m)

Handle == HandleNotice \/ \E c \in Calls : HandleValidate(c) \/ HandleReserve(c)

\* A new process: what was sent to the old one and not yet handled is gone.
RestartValidator ==
    /\ "restart" \in NetworkFaults /\ Pay!Restart
    /\ net' = {m \in net : m.type \in Replies}
    /\ UNCHANGED <<placementVars, status, timerVars>>

Lose ==
    /\ "loss" \in NetworkFaults
    /\ \E m \in net : net' = net \ {m}
    /\ UNCHANGED <<placementVars, status, timerVars, paymentVars>>

-----------------------------------------------------------------------------
\* The auctions table and the scheduler.

Create(a) ==
    /\ Bid!CreateAuction(a) /\ Timer!CreateAuction(a)
    /\ UNCHANGED <<paymentVars, net>>

Tick == Timer!Tick /\ UNCHANGED <<placementVars, paymentVars, net>>

\* Bug: the highest bid is announced in place of its bidder.
HighestBids(a) ==
    LET rowsOf == {b \in bids : req[b].auction = a}
    IN  {b \in rowsOf : \A d \in rowsOf : req[d].amount <= req[b].amount}

\* GetHighestBid: the bidder of a highest row; a failed read names nobody.
HighestBidders(a) ==
    LET rowsOf == {b \in bids : req[b].auction = a}
    IN  {req[b].user : b \in {b \in rowsOf : \A d \in rowsOf : req[d].amount <= req[b].amount}}

WinnersRead(a) ==
    (IF HighestBidders(a) = {} THEN {NoWinner} ELSE HighestBidders(a))
      \cup (IF "db" \in SchedulerFaults THEN {NoWinner} ELSE {})

Announce(i, a) ==
    \E w \in WinnersRead(a) :
        /\ Timer!Announce(i, a, w)
        /\ net' = IF announced' = announced THEN net
                  ELSE net \cup {[type |-> "ended", auction |-> a, winner |-> w]}
        /\ UNCHANGED <<placementVars, paymentVars>>

CheckTimers(i) ==
    \/ \E a \in Auctions : Announce(i, a)
    \/ /\ \/ Timer!BeginCheck(i) \/ Timer!QueryPending(i) \/ Timer!QueryEnded(i)
          \/ Timer!EndCheck(i) \/ Timer!DbFails(i) \/ Timer!Crash(i)
          \/ \E a \in Auctions : Timer!Activate(i, a) \/ Timer!End(i, a)
       /\ UNCHANGED <<placementVars, paymentVars, net>>

-----------------------------------------------------------------------------
CallStep(c) ==
    /\ pc[c] \notin {"idle", "done"}
    /\ \/ CheckAuction(c) \/ PrepareBid(c) \/ LocalStep(c)
       \/ TakeReply(c) \/ Timeout(c) \/ StreamAck(c) \/ ReleaseReservation(c)

Next ==
    \/ \E c \in Calls : (\E r \in Requests : Submit(c, r)) \/ CallStep(c) \/ Crash(c)
    \/ Handle \/ RestartValidator \/ Lose
    \/ Tick
    \/ \E a \in Auctions : Create(a)
    \/ \E i \in Schedulers : CheckTimers(i)

Spec == Init /\ [][Next]_vars

\* Calls go on by themselves: every operation of a running call returns, the
\* requests with a timeout, the queries and scripts with an answer or an error.
\* The scheduler's ticker fires again and again, and the validator handles the
\* releases and ends that have arrived.  Each of these steps changes the variables
\* its fairness names.
FairSpec ==
    /\ Spec
    /\ \A c \in Calls : WF_pc(CallStep(c))
    /\ \A i \in Schedulers : WF_timerVars(CheckTimers(i))
    /\ WF_net(HandleNotice)

-----------------------------------------------------------------------------
\* What a caller is told agrees with the bids table at that time, also when the
\* commit of a bid is reported as failed and its key is tried again: the failed
\* call is not told "rejected", its retry may be (service.go:80, service.go:164).
AnswersAreTrue == Bid!AnswersAreTrue

\* A key's record leaves "processing", whatever becomes of the two requests and
\* the transaction between the scripts: every way they can end completes the bid
\* in Redis (service.go:107-160).  A failed script or a dead process leaves the
\* record there for a day, and this does not cover them (service.go:228).
KeysSettle == Bid!KeysSettle

SameKey(c, d) == req[c].user = req[d].user /\ req[c].auction = req[d].auction

\* No user's holds in one auction exceed the wallet, although balance and holds
\* are read by one handler and the hold is taken by another (validator.go:74).
HeldWithinBalance == \A k \in Pay!ReservedKeys : userReserved[k] <= Balance[k[1]]

\* A bid with a row was reserved, and holds its funds as long as there is no
\* other reservation of its bidder in the auction and no announced end that names
\* another winner, or none: it does not lose them to a release, a timeout or a
\* late reply.  Only when the commit of the row is reported as failed does its
\* caller release the funds (service.go:163).
AcceptedBidIsBacked ==
    \A c \in bids :
        \/ outcome[c] = "error"
        \/ c \in Pay!Active
        \/ /\ c \in issued
           /\ \/ \E d \in issued \ {c} : SameKey(c, d)
              \/ \E n \in DOMAIN announced[req[c].auction] :
                    announced[req[c].auction][n] # req[c].user

\* A call is answered even when messages are lost, late, or never handled.
CallsAreAnswered == \A c \in Calls : pc[c] # "idle" ~> pc[c] = "done"

\* The funds of a bid whose insertion failed are freed, if the release message
\* is not lost (service.go:165).
FailedBidFreesFunds == \A c \in Calls : pc[c] = "undo" ~> c \notin Pay!Active

Wins(c) ==
    LET ends == announced[req[c].auction]
    IN  \E n \in DOMAIN ends : ends[n] = req[c].user

\* A hold taken before the end of its auction is announced is given up by then,
\* unless its bidder wins: also one whose request its caller gave up, so that no
\* call will ever release it (service.go:131, validator.go:191).
HoldsEndWithAuction ==
    \A c \in Calls :
        c \in Pay!Active /\ announced[req[c].auction] = <<>>
            ~> c \notin Pay!Active \/ Wins(c)

-----------------------------------------------------------------------------
\* What a comment in the code says, and the code does not do.

\* A user's holds in all auctions together stay within the wallet
\* (validator.go:74).
TotalWithinBalance ==
    \A u \in Users : MapThenSumSet(LAMBDA a : userReserved[<<u, a>>], Auctions) <= Balance[u]
=============================================================================
