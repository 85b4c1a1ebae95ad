---------------------------- MODULE BidPlacement ----------------------------
(***************************************************************************)
(* The bidding engine's PlaceBid (internal/bidding/service.go), the two    *)
(* Redis scripts it runs (redis_bid_processor.go) and the rows it reads    *)
(* and writes (repository.go).  Calls run concurrently, on one or several  *)
(* replicas; each action is one atomic operation on a shared store, with   *)
(* the local steps up to the next one.  A call's uuid bidID is the call.   *)
(* The payment service's answers are left open here; BiddingSystem joins   *)
(* this module to the payment validator and to the auction scheduler.      *)
(*                                                                         *)
(* A definition commented "Bug:" is not part of the specification.  It is  *)
(* the next one with a plausible mistake, which a property must reject.    *)
(***************************************************************************)
EXTENDS Integers, FiniteSetsExt

CONSTANTS Calls,         \* the PlaceBid calls: bounds their number
          Users, Keys,   \* callers and their idempotency keys
          Auctions,
          Requests,      \* the requests callers may send: bounds the amounts
          StartPrice, MinIncrement,   \* auction -> cents
          NoBid,         \* an empty bid id
          Faults         \* which failures may happen, of AllFaults

AllFaults == {"db",          \* a query or a transaction fails, nothing is written
              "ambiguous",   \* a commit is reported as failed and has happened
              "redis",       \* a script call fails, before or after it has run
              "crash"}       \* a call dies with its process or its request

ASSUME ConstantsAssumption ==
    /\ Requests \subseteq [user : Users, key : Keys, auction : Auctions, amount : Nat]
    /\ StartPrice \in [Auctions -> Nat]
    /\ MinIncrement \in [Auctions -> Nat]
    /\ NoBid \notin Calls
    /\ Faults \subseteq AllFaults

VARIABLES
    pc,            \* where each call is
    req,           \* call -> its request, chosen when it is submitted
    seen,          \* call -> auction.CurrentPrice as PlaceBid read it
    outcome,       \* call -> its answer, being built until pc is "done"
    highest,       \* call -> the price of its auction update
    idem,          \* Redis, <<user, key>> -> the idempotency record
    bidState,      \* Redis, auction -> price and bid at the top
    status,        \* Postgres, auctions.status, "absent" before the insert
    currentPrice,  \* Postgres, auctions.current_price
    bids,          \* Postgres, the rows of bids; a row holds its call's request
    shown          \* auction -> the price of the last auction update published

callVars == <<pc, req, seen, outcome, highest>>
redisVars == <<idem, bidState>>
dbVars == <<status, currentPrice, bids>>
vars == <<callVars, redisVars, dbVars, shown>>

NoPrice == -1    \* HMGET answers nil
NoRecord == [status |-> "none", bid |-> NoBid, prevPrice |-> 0, prevBid |-> NoBid]
NoState == [price |-> NoPrice, bid |-> NoBid]

BidIds == Calls \cup {NoBid}

Places == {"idle", "lookup", "prepare", "validate", "reserve", "create",
           "accept", "refuse", "undo", "release", "highest", "update", "done"}

\* The Status of a response, or an error; "none" before either, and for good if
\* the call dies.
Answers == {"none", "accepted", "rejected", "error"}

Record == [status : {"none", "processing", "accepted", "rejected"},
           bid : BidIds, prevPrice : Nat, prevBid : BidIds]

State == [price : Nat \cup {NoPrice}, bid : BidIds]

TypeOK ==
    /\ pc \in [Calls -> Places]
    /\ DOMAIN req = {c \in Calls : pc[c] # "idle"}
    /\ \A c \in DOMAIN req : req[c] \in Requests
    /\ seen \in [Calls -> Nat]
    /\ outcome \in [Calls -> Answers]
    /\ highest \in [Calls -> Nat]
    /\ idem \in [Users \X Keys -> Record]
    /\ bidState \in [Auctions -> State]
    /\ status \in [Auctions -> {"absent", "pending", "active", "ended"}]
    /\ currentPrice \in [Auctions -> Nat]
    /\ bids \subseteq DOMAIN req
    /\ shown \in [Auctions -> Nat]

Init ==
    /\ pc = [c \in Calls |-> "idle"]
    /\ req = <<>>
    /\ seen = [c \in Calls |-> 0]
    /\ outcome = [c \in Calls |-> "none"]
    /\ highest = [c \in Calls |-> 0]
    /\ idem = [k \in Users \X Keys |-> NoRecord]
    /\ bidState = [a \in Auctions |-> NoState]
    /\ status = [a \in Auctions |-> "absent"]
    /\ currentPrice = StartPrice
    /\ bids = {}
    /\ shown = StartPrice

User(c) == req[c].user
KeyOf(c) == <<req[c].user, req[c].key>>
Auction(c) == req[c].auction
Amount(c) == req[c].amount

Goto(c, place) == pc' = [pc EXCEPT ![c] = place]

\* The call is going to answer this, once it is at "done".
Answer(c, answer) == outcome' = [outcome EXCEPT ![c] = answer]

Finish(c, answer) == Goto(c, "done") /\ Answer(c, answer)

At(c, place) == pc[c] = place

-----------------------------------------------------------------------------
\* The auctions table, as auction.created and the scheduler write it.

\* Bug: the insert is an upsert, and a repeated auction.created resets the price.
CreateAuctionUpserts(a) ==
    /\ status' = [status EXCEPT ![a] = "pending"]
    /\ currentPrice' = [currentPrice EXCEPT ![a] = StartPrice[a]]
    /\ UNCHANGED <<callVars, redisVars, bids, shown>>

CreateAuction(a) ==
    /\ status[a] = "absent"
    /\ status' = [status EXCEPT ![a] = "pending"]
    /\ currentPrice' = [currentPrice EXCEPT ![a] = StartPrice[a]]
    /\ UNCHANGED <<callVars, redisVars, bids, shown>>

\* An unconditional UPDATE: it does not look at the status it replaces.
UpdateAuctionStatus(a, s) ==
    /\ status[a] # "absent"
    /\ status' = [status EXCEPT ![a] = s]
    /\ UNCHANGED <<callVars, redisVars, currentPrice, bids, shown>>

-----------------------------------------------------------------------------
\* PlaceBid up to the Redis reservation of the price.

Submit(c, r) ==
    /\ At(c, "idle") /\ Goto(c, "lookup")
    /\ req' = [d \in DOMAIN req \cup {c} |-> IF d = c THEN r ELSE req[d]]
    /\ UNCHANGED <<seen, outcome, highest, redisVars, dbVars, shown>>

\* GetAuction and the three checks on what it returned; late is the clock's
\* answer to whether the auction's end has passed.
CheckAuction(c, late) ==
    LET a == Auction(c)
    IN  /\ At(c, "lookup")
        /\ seen' = [seen EXCEPT ![c] = currentPrice[a]]
        /\ \/ /\ status[a] = "active" /\ ~late
              /\ Amount(c) >= currentPrice[a] + MinIncrement[a]
              /\ Goto(c, "prepare") /\ UNCHANGED outcome
           \/ /\ status[a] = "absent" /\ Finish(c, "error")
           \/ /\ \/ status[a] \in {"pending", "ended"}
                 \/ status[a] = "active" /\ (late \/ Amount(c) < currentPrice[a] + MinIncrement[a])
              /\ Finish(c, "rejected")
        /\ UNCHANGED <<req, highest, redisVars, dbVars, shown>>

CheckAuctionFails(c) ==
    /\ "db" \in Faults /\ At(c, "lookup") /\ Finish(c, "error")
    /\ UNCHANGED <<req, seen, highest, redisVars, dbVars, shown>>

\* Bug: only a key whose bid was accepted counts as used.
DuplicateOfAccepted(c) == idem[KeyOf(c)].status = "accepted"

\* prepareBidScript.  Its verdict on the call ...
Duplicate(c) == idem[KeyOf(c)].status # "none"

\* Bug: a price that Redis does not have is not replaced by the database's.
CurrentInRedis(c) == bidState[Auction(c)].price

\* ... whose price is the higher of Redis's and the one the call read, ...
Current(c) == IF bidState[Auction(c)].price < seen[c] THEN seen[c]
                                                     ELSE bidState[Auction(c)].price

\* Bug: the amount is compared with the price read before the script.
AllowedBySeen(c) == ~Duplicate(c) /\ Amount(c) >= seen[c] + MinIncrement[Auction(c)]

Allowed(c) == ~Duplicate(c) /\ Amount(c) >= Current(c) + MinIncrement[Auction(c)]

\* ... and what it writes.
PrepareScript(c) ==
    LET a == Auction(c)
        w == bidState[a].bid
    IN  \/ Duplicate(c) /\ UNCHANGED redisVars
        \/ /\ ~Duplicate(c) /\ ~Allowed(c)
           /\ idem' = [idem EXCEPT ![KeyOf(c)] = [NoRecord EXCEPT !.status = "rejected", !.bid = c]]
           /\ bidState' = [bidState EXCEPT ![a].price = Current(c)]
        \/ /\ Allowed(c)
           /\ idem' = [idem EXCEPT ![KeyOf(c)] = [status |-> "processing", bid |-> c,
                                                  prevPrice |-> Current(c), prevBid |-> w]]
           /\ bidState' = [bidState EXCEPT ![a] = [price |-> Amount(c), bid |-> c]]

PrepareBid(c) ==
    /\ At(c, "prepare")
    /\ PrepareScript(c)
    /\ \/ Allowed(c) /\ Goto(c, "validate") /\ UNCHANGED outcome
       \/ Duplicate(c) /\ Finish(c, IF idem[KeyOf(c)].status = "accepted"
                                      THEN "accepted" ELSE "rejected")
       \/ ~Allowed(c) /\ ~Duplicate(c) /\ Finish(c, "rejected")
    /\ UNCHANGED <<req, seen, highest, dbVars, shown>>

PrepareBidFails(c) ==
    /\ "redis" \in Faults /\ At(c, "prepare") /\ Finish(c, "error")
    /\ PrepareScript(c) \/ UNCHANGED redisVars
    /\ UNCHANGED <<req, seen, highest, dbVars, shown>>

-----------------------------------------------------------------------------
\* PlaceBid's two requests to the payment service.  A reply says yes or no, is
\* "garbled" when it does not decode, and is "none" when the request fails or
\* five seconds pass.  Entering "validate" or "reserve" sends the request.

Replies == {"yes", "no", "garbled", "none"}

\* Bug: a refusal returns without completing the bid in Redis.
RefuseAtOnce(c, reply) == Finish(c, IF reply = "garbled" THEN "error" ELSE "rejected")

Refuse(c, reply) ==
    /\ Goto(c, "refuse")
    /\ Answer(c, IF reply = "garbled" THEN "error" ELSE "rejected")

TakeReply(c, reply, asked, next) ==
    /\ At(c, asked)
    /\ \/ reply = "yes" /\ Goto(c, next) /\ UNCHANGED outcome
       \/ reply # "yes" /\ Refuse(c, reply)
    /\ UNCHANGED <<req, seen, highest, redisVars, dbVars, shown>>

ValidateReply(c, reply) == TakeReply(c, reply, "validate", "reserve")

ReserveReply(c, reply) == TakeReply(c, reply, "reserve", "create")

-----------------------------------------------------------------------------
\* From the accepted reservation to the answer.

\* Bug: the price is set to the newest bid's.
InsertBidSetsPrice(c) ==
    /\ bids' = bids \cup {c}
    /\ currentPrice' = [currentPrice EXCEPT ![Auction(c)] = Amount(c)]
    /\ UNCHANGED status

\* CreateBidAndUpdatePrice's transaction.
InsertBid(c) ==
    /\ bids' = bids \cup {c}
    /\ currentPrice' = [currentPrice EXCEPT ![Auction(c)] = Max({@, Amount(c)})]
    /\ UNCHANGED status

CreateBid(c) ==
    /\ At(c, "create") /\ InsertBid(c)
    /\ Goto(c, "accept") /\ Answer(c, "accepted")
    /\ UNCHANGED <<req, seen, highest, redisVars, shown>>

\* Bug: a transaction that reports an error is answered as a refusal.
CreateBidFailsRejects(c) ==
    /\ At(c, "create")
    /\ \/ "db" \in Faults /\ UNCHANGED dbVars
       \/ "ambiguous" \in Faults /\ InsertBid(c)
    /\ Goto(c, "undo") /\ Answer(c, "rejected")
    /\ UNCHANGED <<req, seen, highest, redisVars, shown>>

CreateBidFails(c) ==
    /\ At(c, "create")
    /\ \/ "db" \in Faults /\ UNCHANGED dbVars
       \/ "ambiguous" \in Faults /\ InsertBid(c)
    /\ Goto(c, "undo") /\ Answer(c, "error")
    /\ UNCHANGED <<req, seen, highest, redisVars, shown>>

\* Bug: a refusal puts its old price back whatever stands in Redis.
CompleteScriptRestores(c, verdict) ==
    LET a == Auction(c)
        rec == idem[KeyOf(c)]
    IN  /\ idem' = [idem EXCEPT ![KeyOf(c)].status = verdict]
        /\ bidState' = IF verdict # "accepted"
                       THEN [bidState EXCEPT ![a] = [price |-> rec.prevPrice, bid |-> rec.prevBid]]
                       ELSE bidState

\* completeBidScript: record the verdict; if it is a refusal and the call's
\* price still stands in Redis, put back the price it replaced.
CompleteScript(c, verdict) ==
    LET a == Auction(c)
        rec == idem[KeyOf(c)]
    IN  IF rec.status = "none" \/ rec.bid # c
        THEN UNCHANGED redisVars
        ELSE /\ idem' = [idem EXCEPT ![KeyOf(c)].status = verdict]
             /\ bidState' = IF verdict # "accepted" /\ bidState[a].bid = c
                            THEN [bidState EXCEPT ![a] = [price |-> rec.prevPrice,
                                                          bid |-> rec.prevBid]]
                            ELSE bidState

Completing == {"accept", "refuse", "undo"}

CompletedAt(c) == Goto(c, CASE At(c, "accept") -> "highest"
                            [] At(c, "refuse") -> "done"
                            [] At(c, "undo")   -> "release")

\* Bug: a bid whose insertion failed is recorded as accepted.
CompleteBidAccepts(c) ==
    /\ pc[c] \in Completing
    /\ CompleteScript(c, IF At(c, "refuse") THEN "rejected" ELSE "accepted")
    /\ CompletedAt(c)
    /\ UNCHANGED <<req, seen, outcome, highest, dbVars, shown>>

\* completeBidInRedis; its error is only logged.
CompleteBid(c) ==
    /\ pc[c] \in Completing
    /\ \/ CompleteScript(c, IF At(c, "accept") THEN "accepted" ELSE "rejected")
       \/ "redis" \in Faults /\ UNCHANGED redisVars
    /\ CompletedAt(c)
    /\ UNCHANGED <<req, seen, outcome, highest, dbVars, shown>>

\* releaseReservation: the message to the payment service is published.
ReleaseReservation(c) ==
    /\ At(c, "release") /\ Goto(c, "done")
    /\ UNCHANGED <<req, seen, outcome, highest, redisVars, dbVars, shown>>

RowsOf(a) == {b \in bids : Auction(b) = a}

IsHighest(p, prices) == p \in prices /\ \A q \in prices : q <= p

\* bid.accepted is published and GetHighestBid read for the auction update; a
\* failed read leaves the call's own amount.
ReadHighest(c) ==
    /\ At(c, "highest") /\ Goto(c, "update")
    /\ \E rows \in {RowsOf(Auction(c)), {}} :
          /\ rows = {} => "db" \in Faults
          /\ \E b \in rows \cup {c} :
                /\ IsHighest(Amount(b), {Amount(d) : d \in rows \cup {c}})
                /\ highest' = [highest EXCEPT ![c] = Amount(b)]
    /\ UNCHANGED <<req, seen, outcome, redisVars, dbVars, shown>>

\* Bug: the update shows the price that stands in Redis.
PublishRedisPrice(c) ==
    /\ At(c, "update") /\ Goto(c, "done")
    /\ shown' = [shown EXCEPT ![Auction(c)] = bidState[Auction(c)].price]
    /\ UNCHANGED <<req, seen, outcome, highest, redisVars, dbVars>>

PublishUpdate(c) ==
    /\ At(c, "update") /\ Goto(c, "done")
    /\ shown' = [shown EXCEPT ![Auction(c)] = highest[c]]
    /\ UNCHANGED <<req, seen, outcome, highest, redisVars, dbVars>>

\* The process dies between two operations, or the request is cancelled: the
\* caller has no answer and the call does nothing more.
Crash(c) ==
    /\ "crash" \in Faults
    /\ pc[c] \notin {"idle", "done"}
    /\ Finish(c, "none")
    /\ UNCHANGED <<req, seen, highest, redisVars, dbVars, shown>>

-----------------------------------------------------------------------------
\* A step of the call by itself, its waits for a reply included.
CallStep(c) ==
    \/ \E late \in BOOLEAN : CheckAuction(c, late)
    \/ CheckAuctionFails(c)
    \/ PrepareBid(c) \/ PrepareBidFails(c)
    \/ \E reply \in Replies : ValidateReply(c, reply) \/ ReserveReply(c, reply)
    \/ CreateBid(c) \/ CreateBidFails(c)
    \/ CompleteBid(c)
    \/ ReleaseReservation(c)
    \/ ReadHighest(c) \/ PublishUpdate(c)

AuctionStep(a) ==
    CreateAuction(a) \/ \E s \in {"active", "ended"} : UpdateAuctionStatus(a, s)

Next ==
    \/ \E c \in Calls : \/ \E r \in Requests : Submit(c, r)
                        \/ CallStep(c)
                        \/ Crash(c)
    \/ \E a \in Auctions : AuctionStep(a)

Spec == Init /\ [][Next]_vars

-----------------------------------------------------------------------------
\* Retries of one request, concurrent or later, insert at most one bid row,
\* whatever fails in between (the idempotency record, redis_bid_processor.go:36).
OneBidPerKey == \A c, d \in bids : KeyOf(c) = KeyOf(d) => c = d

Prices(a) == {StartPrice[a]} \cup {Amount(b) : b \in RowsOf(a)}

\* auctions.current_price is the highest bid row or the start price, although
\* bids are inserted in any order (repository.go:133).
PriceIsHighestBid == \A a \in Auctions : IsHighest(currentPrice[a], Prices(a))

Apart(c, d) ==
    \/ Amount(c) >= Amount(d) + MinIncrement[Auction(c)]
    \/ Amount(d) >= Amount(c) + MinIncrement[Auction(c)]

\* Any two bids accepted in an auction are a minimum increment apart, although
\* each was checked before the other may have been inserted (service.go:55).
BidsKeepIncrement ==
    \A c, d \in bids : c # d /\ Auction(c) = Auction(d) => Apart(c, d)

\* The bid an acceptance names: the recorded one when the call repeats a key.
Told(c) == IF At(c, "prepare") THEN idem[KeyOf(c)].bid ELSE c

\* Why a call may be told "rejected" beside the row b of its key: it was turned
\* away before Redis was asked, the caller of b was not told of an acceptance
\* either, or the script that records the acceptance has yet to run or failed.
Excused(c, b) ==
    \/ At(c, "lookup")
    \/ outcome[b] # "accepted"
    \/ /\ idem[KeyOf(c)].status = "processing"
       /\ At(b, "accept") \/ "redis" \in Faults

\* What may be told in a step that answers a call.
AnswersTruly(c) ==
    pc[c] # "done" /\ pc'[c] = "done" =>
        /\ outcome'[c] = "accepted" => Told(c) \in bids /\ KeyOf(Told(c)) = KeyOf(c)
        /\ outcome'[c] = "rejected" =>
              \A b \in bids : KeyOf(b) = KeyOf(c) => b # c /\ Excused(c, b)

\* An answer agrees with the bids table when it is given, also to a retry, which
\* is told the Status on record for its key (service.go:80).  An acceptance names
\* a row of the caller's key; a refusal is never told beside the call's own row,
\* and beside another row of its key only with one of the excuses above.
AnswersAreTrue == [][\A c \in Calls : AnswersTruly(c)]_vars

\* A verdict that Redis keeps for a key, and gives to its retries, is the one in
\* the database (redis_bid_processor.go:135).  A record left at "processing" is
\* no verdict: its retries are refused, whatever became of the bid.
RecordsMatchRows ==
    \A k \in Users \X Keys :
        /\ idem[k].status = "accepted" => idem[k].bid \in bids
        /\ idem[k].status = "rejected" => idem[k].bid \notin bids

\* A bid at the database's price plus the minimum increment is not refused when
\* no other call is in progress: the prices of refused bids have been put back
\* in Redis (service_test.go:494).
MinimumBidIsTaken ==
    [][\A c \in Calls :
          /\ At(c, "prepare") /\ ~Duplicate(c)
          /\ \A d \in Calls \ {c} : pc[d] \in {"idle", "done"}
          /\ Amount(c) >= currentPrice[Auction(c)] + MinIncrement[Auction(c)]
          => pc'[c] # "done"]_vars

\* No update shows a price that no bid in the database has reached.
UpdateIsReached == \A a \in Auctions : shown[a] <= currentPrice[a]

\* The first request of a key ends with a verdict on record.  It does so only
\* where no script call fails and no process dies between the two scripts: with
\* either, the record stays at "processing" (redis_bid_processor.go:112).
KeysSettle ==
    \A k \in Users \X Keys :
        idem[k].status = "processing" ~> idem[k].status \in {"accepted", "rejected"}

-----------------------------------------------------------------------------
Row(c) == [owner |-> KeyOf(c), auction |-> Auction(c), amount |-> Amount(c)]

Book == INSTANCE AuctionBook WITH
            Owners <- Users \X Keys,
            Amounts <- {r.amount : r \in Requests},
            book   <- {Row(c) : c \in bids},
            price  <- currentPrice

\* The bids table is an auction book: it only grows, by bids that raise or
\* keep their distance, one for each key, and its price follows.
BookSpec == Book!Spec

-----------------------------------------------------------------------------
\* Why bids keep their distance.  Redis holds the price of the newest bid, and
\* each bid in progress remembers what to put back.

\* Calls whose price may yet be taken out of Redis, and all whose price counts.
Undecided == {c \in Calls : pc[c] \in {"validate", "reserve", "create", "refuse", "undo"}}
Counting == bids \cup Undecided

CallsKnowTheirAuction ==
    \A c \in Calls : (c \in bids \/ pc[c] \notin {"idle", "lookup", "done"})
                        => status[Auction(c)] # "absent"

\* A counting bid is the one its key stands for.
BidsOwnTheirKey ==
    \A c \in Counting : idem[KeyOf(c)].status # "none" /\ idem[KeyOf(c)].bid = c

SeenIsOld ==
    \A c \in Calls : pc[c] = "prepare" =>
        seen[c] \in StartPrice[Auction(c)] .. currentPrice[Auction(c)]

UndecidedHaveNoRow == Undecided \cap bids = {}

\* A price in Redis is the start price or that of the bid named with it.
Named(a, price, b) ==
    /\ StartPrice[a] <= price
    /\ b # NoBid => b \in DOMAIN req /\ Auction(b) = a /\ Amount(b) = price

TopIsNamed(a) == bidState[a] = NoState \/ Named(a, bidState[a].price, bidState[a].bid)

CountingAreBelow(a) ==
    \A c \in Counting : Auction(c) = a => Amount(c) <= bidState[a].price

CountingAreApart(a) ==
    \A c, d \in Counting : c # d /\ Auction(c) = a /\ Auction(d) = a => Apart(c, d)

\* What a refusal puts back covers every bid below the refused one.
UndoIsSafe(a) ==
    \A c \in Undecided : Auction(c) = a =>
        LET rec == idem[KeyOf(c)]
        IN  /\ Named(a, rec.prevPrice, rec.prevBid)
            /\ \A d \in Counting \ {c} : Auction(d) = a =>
                  Amount(d) <= rec.prevPrice \/ Amount(d) >= Amount(c) + MinIncrement[a]

\* A redis price protects an auction only if its increment is not zero.
RedisGuards ==
    \A a \in Auctions : MinIncrement[a] > 0 =>
        TopIsNamed(a) /\ CountingAreBelow(a) /\ CountingAreApart(a) /\ UndoIsSafe(a)

\* The prices in Redis cover every bid that has or may get a row, now and after
\* any undo: the inductive invariant behind BidsKeepIncrement.
PricesAreGuarded ==
    CallsKnowTheirAuction /\ BidsOwnTheirKey /\ SeenIsOld /\ UndecidedHaveNoRow /\ RedisGuards
=============================================================================
