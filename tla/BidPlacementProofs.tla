------------------------- MODULE BidPlacementProofs -------------------------
(***************************************************************************)
(* Theorems about BidPlacement, for every set of calls, users, keys,       *)
(* auctions and requests.                                                  *)
(***************************************************************************)
EXTENDS BidPlacement, TLAPS

\* Max of a pair, as the transaction's GREATEST uses it.
LEMMA MaxOfTwo ==
    ASSUME NEW x \in Int, NEW y \in Int
    PROVE  Max({x, y}) \in {x, y} /\ x <= Max({x, y}) /\ y <= Max({x, y})
<1>1. \E m \in {x, y} : \A n \in {x, y} : m >= n
  OBVIOUS
<1> QED
  BY <1>1 DEF Max

-----------------------------------------------------------------------------
\* The state keeps its shape through every step of every call.

LEMMA ScriptTyping ==
    ASSUME TypeOK, NEW c \in Calls, pc[c] = "prepare", PrepareScript(c)
    PROVE  idem' \in [Users \X Keys -> Record] /\ bidState' \in [Auctions -> State]
<1>1. /\ c \in DOMAIN req /\ req[c] \in Requests /\ seen[c] \in Nat
      /\ KeyOf(c) \in Users \X Keys /\ Auction(c) \in Auctions /\ Amount(c) \in Nat
  BY ConstantsAssumption DEF TypeOK, KeyOf, Auction, Amount
<1>2. Current(c) \in Nat /\ bidState[Auction(c)] \in State
  <2>1. bidState[Auction(c)] \in State
    BY <1>1 DEF TypeOK
  <2>2. bidState[Auction(c)].price \in Nat \cup {NoPrice}
    BY <2>1 DEF State
  <2> QED
    BY <1>1, <2>1, <2>2 DEF Current, NoPrice
<1>3. c \in BidIds /\ NoBid \in BidIds
  BY DEF BidIds
<1>4. CASE Duplicate(c) /\ UNCHANGED redisVars
  BY <1>4 DEF TypeOK, redisVars
<1>5. CASE ~Duplicate(c) /\ ~Allowed(c)
  <2> DEFINE rejected == [status |-> "rejected", bid |-> c, prevPrice |-> 0, prevBid |-> NoBid]
             raised == [price |-> Current(c), bid |-> bidState[Auction(c)].bid]
  <2>1. /\ idem' = [idem EXCEPT ![KeyOf(c)] = rejected]
        /\ bidState' = [bidState EXCEPT ![Auction(c)].price = Current(c)]
    BY <1>5 DEF PrepareScript, NoRecord
  <2>2. [bidState[Auction(c)] EXCEPT !.price = Current(c)] = raised
    BY <1>2 DEF State
  <2>3. bidState' = [bidState EXCEPT ![Auction(c)] = raised]
    BY <2>1, <2>2
  <2>4. rejected \in Record /\ raised \in State
    BY <1>2, <1>3 DEF Record, State
  <2> HIDE DEF rejected, raised
  <2> QED
    BY <1>1, <2>1, <2>3, <2>4, SMTT(30) DEF TypeOK
<1>6. CASE Allowed(c)
  <2> DEFINE processing == [status |-> "processing", bid |-> c, prevPrice |-> Current(c),
                            prevBid |-> bidState[Auction(c)].bid]
             top == [price |-> Amount(c), bid |-> c]
  <2>1. /\ idem' = [idem EXCEPT ![KeyOf(c)] = processing]
        /\ bidState' = [bidState EXCEPT ![Auction(c)] = top]
    BY <1>6 DEF PrepareScript, Allowed
  <2>2. processing \in Record /\ top \in State
    BY <1>1, <1>2, <1>3 DEF Record, State
  <2> QED
    BY <1>1, <2>1, <2>2 DEF TypeOK
<1> QED
  BY <1>4, <1>5, <1>6 DEF PrepareScript

LEMMA CompleteTyping ==
    ASSUME TypeOK, NEW c \in DOMAIN req,
           NEW verdict \in {"accepted", "rejected"}, CompleteScript(c, verdict)
    PROVE  idem' \in [Users \X Keys -> Record] /\ bidState' \in [Auctions -> State]
<1> DEFINE rec == idem[KeyOf(c)]
<1>1. KeyOf(c) \in Users \X Keys /\ Auction(c) \in Auctions
  BY ConstantsAssumption DEF TypeOK, KeyOf, Auction
<1>2. CASE UNCHANGED redisVars
  BY <1>2 DEF TypeOK, redisVars
<1>3. CASE ~UNCHANGED redisVars
  <2>1. /\ idem' = [idem EXCEPT ![KeyOf(c)].status = verdict]
        /\ \/ bidState' = bidState
           \/ bidState' = [bidState EXCEPT ![Auction(c)] = [price |-> rec.prevPrice,
                                                            bid |-> rec.prevBid]]
    BY <1>3 DEF CompleteScript
  <2>2. rec \in Record
    BY <1>1 DEF TypeOK
  <2>3. [rec EXCEPT !.status = verdict] \in Record
    BY <2>2 DEF Record
  <2> DEFINE judged == [rec EXCEPT !.status = verdict]
             former == [price |-> rec.prevPrice, bid |-> rec.prevBid]
  <2>4. judged \in Record /\ former \in State
    BY <2>2, <2>3 DEF Record, State
  <2>5. /\ idem' = [idem EXCEPT ![KeyOf(c)] = judged]
        /\ bidState' = bidState \/ bidState' = [bidState EXCEPT ![Auction(c)] = former]
    BY <2>1
  <2> HIDE DEF judged, former
  <2> QED
    BY <1>1, <2>4, <2>5 DEF TypeOK
<1> QED
  BY <1>2, <1>3

LEMMA TypeInit == Init => TypeOK
  BY ConstantsAssumption
     DEF Init, TypeOK, NoRecord, NoState, NoPrice, BidIds, Places, Answers, Record, State

LEMMA TypeStep == TypeOK /\ [Next]_vars => TypeOK'
<1> SUFFICES ASSUME TypeOK, [Next]_vars PROVE TypeOK'
  OBVIOUS
<1> USE DEF Goto, Answer, Finish, At, Places, Answers
<1>0. \A c \in DOMAIN req : /\ c \in Calls /\ req[c] \in Requests
                            /\ KeyOf(c) \in Users \X Keys
                            /\ Auction(c) \in Auctions /\ Amount(c) \in Nat
  BY ConstantsAssumption DEF TypeOK, KeyOf, Auction, Amount
<1>1. ASSUME NEW c \in Calls, NEW r \in Requests, Submit(c, r) PROVE TypeOK'
  BY <1>1 DEF TypeOK, Submit, redisVars, dbVars
<1>2. ASSUME NEW c \in Calls, NEW late \in BOOLEAN, CheckAuction(c, late) PROVE TypeOK'
  <2>1. c \in DOMAIN req /\ seen' \in [Calls -> Nat]
    BY <1>0, <1>2 DEF TypeOK, CheckAuction
  <2>2. /\ pc' \in [Calls -> Places]
        /\ DOMAIN req' = {d \in Calls : pc'[d] # "idle"}
        /\ outcome' \in [Calls -> Answers]
    BY <1>2 DEF TypeOK, CheckAuction
  <2> QED
    BY <1>2, <2>1, <2>2 DEF TypeOK, CheckAuction, redisVars, dbVars
<1>3. ASSUME NEW c \in Calls, CheckAuctionFails(c) PROVE TypeOK'
  BY <1>3 DEF TypeOK, CheckAuctionFails, redisVars, dbVars
<1>4. ASSUME NEW c \in Calls, PrepareBid(c) PROVE TypeOK'
  <2>1. /\ pc' \in [Calls -> Places]
        /\ DOMAIN req' = {d \in Calls : pc'[d] # "idle"}
        /\ outcome' \in [Calls -> Answers]
    BY <1>4 DEF TypeOK, PrepareBid
  <2> QED
    BY <1>4, <2>1, ScriptTyping DEF TypeOK, PrepareBid, dbVars
<1>5. ASSUME NEW c \in Calls, PrepareBidFails(c) PROVE TypeOK'
  BY <1>5, ScriptTyping DEF TypeOK, PrepareBidFails, redisVars, dbVars
<1>6. ASSUME NEW c \in Calls, NEW reply \in Replies,
             ValidateReply(c, reply) \/ ReserveReply(c, reply) PROVE TypeOK'
  <2>1. /\ pc' \in [Calls -> Places]
        /\ DOMAIN req' = {d \in Calls : pc'[d] # "idle"}
        /\ outcome' \in [Calls -> Answers]
    <3>1. \E place \in Places \ {"idle"}, answer \in Answers :
             /\ pc[c] # "idle" /\ pc' = [pc EXCEPT ![c] = place]
             /\ outcome' = outcome \/ outcome' = [outcome EXCEPT ![c] = answer]
             /\ UNCHANGED req
      BY <1>6 DEF ValidateReply, ReserveReply, TakeReply, Refuse
    <3> QED
      BY <3>1 DEF TypeOK
  <2> QED
    BY <1>6, <2>1 DEF TypeOK, ValidateReply, ReserveReply, TakeReply, redisVars, dbVars
<1>7. ASSUME NEW c \in DOMAIN req, InsertBid(c)
      PROVE  /\ bids' \subseteq DOMAIN req /\ UNCHANGED status
             /\ currentPrice' \in [Auctions -> Nat]
  <2>1. Auction(c) \in Auctions /\ Amount(c) \in Nat /\ currentPrice[Auction(c)] \in Nat
    BY <1>0 DEF TypeOK
  <2>2. Max({currentPrice[Auction(c)], Amount(c)}) \in Nat
    <3> DEFINE p == currentPrice[Auction(c)]
               q == Amount(c)
    <3>1. p \in Nat /\ q \in Nat /\ p \in Int /\ q \in Int
      BY <2>1
    <3> HIDE DEF p, q
    <3>2. Max({p, q}) \in {p, q}
      BY <3>1, MaxOfTwo
    <3>3. Max({p, q}) \in Nat
      BY <3>1, <3>2
    <3> QED
      BY <3>3 DEF p, q
  <2> QED
    BY <1>7, <2>1, <2>2 DEF TypeOK, InsertBid
<1>8. ASSUME NEW c \in Calls, CreateBid(c) PROVE TypeOK'
  BY <1>7, <1>8 DEF TypeOK, CreateBid, redisVars
<1>9. ASSUME NEW c \in Calls, CreateBidFails(c) PROVE TypeOK'
  BY <1>7, <1>9 DEF TypeOK, CreateBidFails, redisVars, dbVars
<1>10. ASSUME NEW c \in Calls, CompleteBid(c) PROVE TypeOK'
  <2>1. c \in DOMAIN req
    BY <1>10 DEF TypeOK, CompleteBid, Completing
  <2>2. idem' \in [Users \X Keys -> Record] /\ bidState' \in [Auctions -> State]
    BY <1>10, <2>1, CompleteTyping DEF CompleteBid, redisVars, TypeOK
  <2>3. /\ pc' \in [Calls -> Places]
        /\ DOMAIN req' = {d \in Calls : pc'[d] # "idle"}
    BY <1>10 DEF TypeOK, CompleteBid, Completing, CompletedAt
  <2> QED
    BY <1>10, <2>2, <2>3 DEF TypeOK, CompleteBid, dbVars
<1>11. ASSUME NEW c \in Calls, ReleaseReservation(c) PROVE TypeOK'
  BY <1>11 DEF TypeOK, ReleaseReservation, redisVars, dbVars
<1>12. ASSUME NEW c \in Calls, ReadHighest(c) PROVE TypeOK'
  <2>1. highest' \in [Calls -> Nat]
    BY <1>0, <1>12 DEF TypeOK, ReadHighest, RowsOf
  <2> QED
    BY <1>12, <2>1 DEF TypeOK, ReadHighest, redisVars, dbVars
<1>13. ASSUME NEW c \in Calls, PublishUpdate(c) PROVE TypeOK'
  BY <1>0, <1>13 DEF TypeOK, PublishUpdate, redisVars, dbVars
<1>14. ASSUME NEW c \in Calls, Crash(c) PROVE TypeOK'
  BY <1>14 DEF TypeOK, Crash, redisVars, dbVars
<1>15. ASSUME NEW a \in Auctions, AuctionStep(a) PROVE TypeOK'
  <2>1. CASE CreateAuction(a)
    BY <2>1, ConstantsAssumption DEF TypeOK, CreateAuction, callVars, redisVars
  <2>2. CASE \E s \in {"active", "ended"} : UpdateAuctionStatus(a, s)
    BY <2>2 DEF TypeOK, UpdateAuctionStatus, callVars, redisVars
  <2> QED
    BY <1>15, <2>1, <2>2 DEF AuctionStep
<1>16. CASE UNCHANGED vars
  BY <1>16 DEF TypeOK, vars, callVars, redisVars, dbVars
<1> QED
  BY <1>1, <1>2, <1>3, <1>4, <1>5, <1>6, <1>8, <1>9, <1>10, <1>11, <1>12, <1>13,
     <1>14, <1>15, <1>16 DEF Next, CallStep

\* Every state of every execution has its shape.
THEOREM Typing == Spec => []TypeOK
<1> QED
  BY TypeInit, TypeStep, PTL DEF Spec

-----------------------------------------------------------------------------
\* The steps that touch neither store: a reply, a failure, an end.
Moves(c) ==
    /\ pc[c] # "idle"
    /\ \E place \in Places :
          /\ pc' = [pc EXCEPT ![c] = place]
          /\ \/ place = "done"
             \/ place = "update" /\ pc[c] = "highest"
             \/ place \in {"reserve", "create", "refuse"} /\ pc[c] \in {"validate", "reserve"}
    /\ UNCHANGED <<req, seen, redisVars, dbVars>>

LEMMA StepKinds ==
    ASSUME [Next]_vars
    PROVE  \/ \E c \in Calls :
                 \/ \E r \in Requests : Submit(c, r)
                 \/ \E late \in BOOLEAN : CheckAuction(c, late)
                 \/ PrepareBid(c) \/ PrepareBidFails(c)
                 \/ CreateBid(c) \/ CreateBidFails(c)
                 \/ CompleteBid(c)
                 \/ Moves(c)
           \/ \E a \in Auctions : AuctionStep(a)
           \/ UNCHANGED vars
<1> USE DEF At, Goto, Finish, Places, dbVars, redisVars
<1>1. ASSUME NEW c \in Calls, CheckAuctionFails(c) PROVE Moves(c)
  BY <1>1 DEF CheckAuctionFails, Moves
<1>2. ASSUME NEW c \in Calls, NEW reply \in Replies,
             ValidateReply(c, reply) \/ ReserveReply(c, reply) PROVE Moves(c)
  BY <1>2 DEF ValidateReply, ReserveReply, TakeReply, Refuse, Moves
<1>3. ASSUME NEW c \in Calls, ReleaseReservation(c) PROVE Moves(c)
  BY <1>3 DEF ReleaseReservation, Moves
<1>4. ASSUME NEW c \in Calls, ReadHighest(c) PROVE Moves(c)
  BY <1>4 DEF ReadHighest, Moves
<1>5. ASSUME NEW c \in Calls, PublishUpdate(c) PROVE Moves(c)
  BY <1>5 DEF PublishUpdate, Moves
<1>6. ASSUME NEW c \in Calls, Crash(c) PROVE Moves(c)
  BY <1>6 DEF Crash, Moves
<1> QED
  BY <1>1, <1>2, <1>3, <1>4, <1>5, <1>6 DEF Next, CallStep

-----------------------------------------------------------------------------
\* The price in the database, and what calls have seen of it.

PriceInv == CallsKnowTheirAuction /\ PriceIsHighestBid /\ SeenIsOld

LEMMA RequestTypes ==
    ASSUME TypeOK, NEW c \in DOMAIN req
    PROVE  /\ c \in Calls /\ pc[c] # "idle" /\ req[c] \in Requests
           /\ KeyOf(c) \in Users \X Keys /\ KeyOf(c) = <<req[c].user, req[c].key>>
           /\ Auction(c) \in Auctions /\ Auction(c) = req[c].auction
           /\ Amount(c) \in Nat /\ Amount(c) = req[c].amount
  BY ConstantsAssumption DEF TypeOK, KeyOf, Auction, Amount

\* Rows and requests that stay keep the price the highest.
LEMMA PriceFrame ==
    ASSUME TypeOK, PriceIsHighestBid, UNCHANGED <<bids, currentPrice>>,
           \A d \in DOMAIN req : req'[d] = req[d]
    PROVE  PriceIsHighestBid'
<1>1. \A b \in bids : Auction(b)' = Auction(b) /\ Amount(b)' = Amount(b)
  BY DEF TypeOK, Auction, Amount
<1>2. \A a \in Auctions : Prices(a)' = Prices(a)
  BY <1>1 DEF Prices, RowsOf
<1> QED
  BY <1>2 DEF PriceIsHighestBid, IsHighest

LEMMA InsertKeepsPrice ==
    ASSUME TypeOK, PriceIsHighestBid, NEW c \in DOMAIN req, InsertBid(c), UNCHANGED req
    PROVE  /\ PriceIsHighestBid'
           /\ \A a \in Auctions : currentPrice'[a] \in Nat /\ currentPrice'[a] >= currentPrice[a]
<1>0. PICK a \in Auctions : a = Auction(c)
  BY RequestTypes
<1> DEFINE p == currentPrice[a]
           q == Amount(c)
<1>1. /\ p \in Nat /\ q \in Nat /\ p \in Int /\ q \in Int
      /\ \A b \in Auctions : currentPrice[b] \in Nat
  BY <1>0, RequestTypes DEF TypeOK
<1>2. Max({p, q}) \in {p, q} /\ p <= Max({p, q}) /\ q <= Max({p, q})
  <2> HIDE DEF p, q
  <2> QED
    BY <1>1, MaxOfTwo
<1>3. /\ currentPrice' = [currentPrice EXCEPT ![a] = Max({p, q})]
      /\ bids' = bids \cup {c}
  BY <1>0 DEF InsertBid
<1>4. \A b \in bids' : Auction(b)' = Auction(b) /\ Amount(b)' = Amount(b)
  BY DEF Auction, Amount
<1>5. Prices(a)' = Prices(a) \cup {q}
  BY <1>0, <1>3, <1>4 DEF Prices, RowsOf
<1>6. \A b \in Auctions \ {a} : Prices(b)' = Prices(b)
  BY <1>0, <1>3, <1>4 DEF Prices, RowsOf
<1>7. \A b \in Auctions : \A n \in Prices(b) : n \in Nat
  BY RequestTypes, ConstantsAssumption DEF Prices, RowsOf, TypeOK
<1>8. currentPrice'[a] = Max({p, q}) /\ \A b \in Auctions \ {a} : currentPrice'[b] = currentPrice[b]
  BY <1>1, <1>3 DEF TypeOK
<1> HIDE DEF p, q
<1>9. IsHighest(p, Prices(a)) /\ \A b \in Auctions : IsHighest(currentPrice[b], Prices(b))
  BY <1>1 DEF PriceIsHighestBid, p
<1>10. IsHighest(currentPrice'[a], Prices(a)')
  <2> DEFINE m == Max({p, q})
  <2>1. m \in {p, q} /\ p <= m /\ q <= m /\ m \in Nat
    BY <1>1, <1>2
  <2> HIDE DEF m
  <2>2. m \in Prices(a) \cup {q}
    BY <1>9, <2>1 DEF IsHighest
  <2>3. \A n \in Prices(a) \cup {q} : n <= m
    BY <1>1, <1>7, <1>9, <2>1 DEF IsHighest
  <2>4. currentPrice'[a] = m
    BY <1>8 DEF m
  <2> QED
    BY <1>5, <2>2, <2>3, <2>4 DEF IsHighest
<1>11. PriceIsHighestBid'
  <2>1. ASSUME NEW b \in Auctions PROVE IsHighest(currentPrice'[b], Prices(b)')
    <3>1. CASE b = a
      BY <1>10, <3>1
    <3>2. CASE b # a
      BY <1>6, <1>8, <1>9, <3>2
    <3> QED
      BY <3>1, <3>2
  <2> QED
    BY <2>1 DEF PriceIsHighestBid, IsHighest
<1> QED
  BY <1>1, <1>2, <1>8, <1>11 DEF p

\* What a step leaves of the calls: requests stay, one call moves.
LEMMA RequestsStay ==
    ASSUME TypeOK, [Next]_vars
    PROVE  \A d \in DOMAIN req : /\ d \in DOMAIN req' /\ req'[d] = req[d]
                                 /\ KeyOf(d)' = KeyOf(d) /\ Auction(d)' = Auction(d)
                                 /\ Amount(d)' = Amount(d)
<1>1. \A d \in DOMAIN req : d \in DOMAIN req' /\ req'[d] = req[d]
  <2>1. ASSUME NEW c \in Calls, NEW r \in Requests, Submit(c, r)
        PROVE  \A d \in DOMAIN req : d \in DOMAIN req' /\ req'[d] = req[d]
    BY <2>1 DEF TypeOK, Submit, At
  <2> QED
    BY <2>1, StepKinds
       DEF CheckAuction, PrepareBid, PrepareBidFails, CreateBid, CreateBidFails, CompleteBid,
           Moves, AuctionStep, CreateAuction, UpdateAuctionStatus, vars, callVars
<1> QED
  BY <1>1 DEF KeyOf, Auction, Amount

\* The insert of an auction finds the price it writes: it has no bid yet.
LEMMA CreateKeepsPrice ==
    ASSUME TypeOK, CallsKnowTheirAuction, PriceIsHighestBid, NEW a \in Auctions, CreateAuction(a)
    PROVE  UNCHANGED currentPrice
<1>1. \A b \in bids : b \in Calls /\ Auction(b) # a
  BY DEF CallsKnowTheirAuction, CreateAuction, TypeOK
<1>2. Prices(a) = {StartPrice[a]}
  BY <1>1 DEF Prices, RowsOf
<1>3. currentPrice[a] = StartPrice[a]
  BY <1>2 DEF PriceIsHighestBid, IsHighest
<1> QED
  BY <1>3 DEF CreateAuction, TypeOK

LEMMA PriceInit == Init => PriceInv
<1> SUFFICES ASSUME Init PROVE PriceInv
  OBVIOUS
<1>1. CallsKnowTheirAuction /\ SeenIsOld
  BY DEF Init, CallsKnowTheirAuction, SeenIsOld
<1>2. \A a \in Auctions : Prices(a) = {StartPrice[a]} /\ StartPrice[a] \in Nat
  BY ConstantsAssumption DEF Init, Prices, RowsOf
<1>3. PriceIsHighestBid
  BY <1>2 DEF Init, PriceIsHighestBid, IsHighest
<1> QED
  BY <1>1, <1>3 DEF PriceInv

LEMMA PriceStep == TypeOK /\ PriceInv /\ [Next]_vars => PriceInv'
<1> SUFFICES ASSUME TypeOK, TypeOK', CallsKnowTheirAuction, PriceIsHighestBid, SeenIsOld, [Next]_vars
             PROVE  PriceInv'
  BY TypeStep DEF PriceInv
<1>0. /\ \A d \in DOMAIN req : d \in DOMAIN req' /\ req'[d] = req[d] /\ Auction(d)' = Auction(d)
      /\ \A d \in DOMAIN req : d \in Calls /\ pc[d] # "idle" /\ Auction(d) \in Auctions
      /\ \A d \in Calls : pc[d] # "idle" => d \in DOMAIN req
      /\ bids \subseteq DOMAIN req
      /\ \A a \in Auctions : currentPrice[a] \in Nat /\ StartPrice[a] \in Nat
  BY RequestsStay, RequestTypes, ConstantsAssumption DEF TypeOK
\* Calls that only move on, in auctions that stay in the table.
<1>1. ASSUME NEW c \in Calls, UNCHANGED <<seen, bids, currentPrice, status>>,
             NEW place \in Places \ {"prepare"}, pc' = [pc EXCEPT ![c] = place],
             place \in {"idle", "lookup", "done"} \/ pc[c] \notin {"idle", "lookup", "done"}
      PROVE  PriceInv'
  <2>1. PriceIsHighestBid'
    BY <1>0, <1>1, PriceFrame
  <2>2. CallsKnowTheirAuction'
    BY <1>0, <1>1 DEF CallsKnowTheirAuction, TypeOK
  <2>3. SeenIsOld'
    BY <1>0, <1>1 DEF SeenIsOld, TypeOK
  <2> QED
    BY <2>1, <2>2, <2>3 DEF PriceInv
<1>2. ASSUME NEW c \in Calls, NEW r \in Requests, Submit(c, r) PROVE PriceInv'
  BY <1>1, <1>2 DEF Submit, At, Goto, Places, dbVars
<1>3. ASSUME NEW c \in Calls, NEW late \in BOOLEAN, CheckAuction(c, late) PROVE PriceInv'
  <2>1. /\ UNCHANGED <<bids, currentPrice, status>>
        /\ c \in DOMAIN req
    BY <1>0, <1>3 DEF CheckAuction, At, dbVars
  <2>2. /\ \/ pc' = [pc EXCEPT ![c] = "done"]
           \/ pc' = [pc EXCEPT ![c] = "prepare"] /\ status[Auction(c)] # "absent"
        /\ seen' = [seen EXCEPT ![c] = currentPrice[Auction(c)]]
    BY <1>3 DEF CheckAuction, Goto, Finish
  <2>3. PriceIsHighestBid'
    BY <1>0, <2>1, PriceFrame
  <2>4. CallsKnowTheirAuction'
    BY <1>0, <2>1, <2>2 DEF CallsKnowTheirAuction, TypeOK
  <2>5. StartPrice[Auction(c)] <= currentPrice[Auction(c)]
    BY <1>0, <2>1 DEF PriceIsHighestBid, IsHighest, Prices
  <2>6. \A d \in Calls : pc'[d] = "prepare" =>
            /\ d \in DOMAIN req
            /\ d # c => pc[d] = "prepare" /\ seen'[d] = seen[d]
            /\ d = c => seen'[d] = currentPrice[Auction(c)]
    BY <1>0, <2>1, <2>2 DEF TypeOK
  <2>7. SeenIsOld'
    BY <1>0, <2>1, <2>5, <2>6 DEF SeenIsOld
  <2> QED
    BY <2>3, <2>4, <2>7 DEF PriceInv
<1>4. ASSUME NEW c \in Calls, PrepareBid(c) \/ PrepareBidFails(c) PROVE PriceInv'
  BY <1>1, <1>4 DEF PrepareBid, PrepareBidFails, At, Goto, Finish, Places, dbVars
<1>5. ASSUME NEW c \in Calls, CompleteBid(c) PROVE PriceInv'
  BY <1>1, <1>5 DEF CompleteBid, Completing, CompletedAt, At, Goto, Places, dbVars
<1>6. ASSUME NEW c \in Calls, Moves(c) PROVE PriceInv'
  BY <1>1, <1>6 DEF Moves, dbVars
<1>7. ASSUME NEW c \in Calls, CreateBid(c) \/ CreateBidFails(c) PROVE PriceInv'
  <2>1. /\ pc[c] = "create" /\ c \in DOMAIN req /\ UNCHANGED <<req, seen, status>>
        /\ \E place \in {"accept", "undo"} : pc' = [pc EXCEPT ![c] = place]
        /\ InsertBid(c) \/ UNCHANGED dbVars
    BY <1>0, <1>7 DEF CreateBid, CreateBidFails, At, Goto, InsertBid, dbVars
  <2>2. CASE UNCHANGED dbVars
    BY <1>1, <2>1, <2>2 DEF Places, dbVars
  <2>3. CASE InsertBid(c)
    <3>1. /\ PriceIsHighestBid'
          /\ \A a \in Auctions : currentPrice'[a] \in Nat /\ currentPrice'[a] >= currentPrice[a]
      BY <2>1, <2>3, InsertKeepsPrice
    <3>2. CallsKnowTheirAuction'
      BY <1>0, <2>1, <2>3 DEF CallsKnowTheirAuction, InsertBid, TypeOK
    <3>3. SeenIsOld'
      BY <1>0, <2>1, <3>1 DEF SeenIsOld, TypeOK
    <3> QED
      BY <3>1, <3>2, <3>3 DEF PriceInv
  <2> QED
    BY <2>1, <2>2, <2>3
<1>8. ASSUME NEW a \in Auctions, AuctionStep(a) PROVE PriceInv'
  <2>1. UNCHANGED <<pc, req, seen, bids>> /\ status' \in [Auctions -> {"absent", "pending", "active", "ended"}]
    BY <1>8 DEF AuctionStep, CreateAuction, UpdateAuctionStatus, callVars, TypeOK
  <2>2. UNCHANGED currentPrice
    BY <1>8, CreateKeepsPrice DEF AuctionStep, UpdateAuctionStatus
  <2>3. PriceIsHighestBid'
    BY <1>0, <2>1, <2>2, PriceFrame
  <2>4. \A b \in Auctions : status'[b] = "absent" => status[b] = "absent"
    BY <1>8 DEF AuctionStep, CreateAuction, UpdateAuctionStatus, TypeOK
  <2>5. CallsKnowTheirAuction'
    BY <1>0, <2>1, <2>4 DEF CallsKnowTheirAuction, TypeOK
  <2>6. SeenIsOld'
    BY <1>0, <2>1, <2>2 DEF SeenIsOld
  <2> QED
    BY <2>3, <2>5, <2>6 DEF PriceInv
<1>9. CASE UNCHANGED vars
  <2>1. UNCHANGED <<pc, req, seen, bids, status, currentPrice>>
    BY <1>9 DEF vars, callVars, dbVars
  <2> QED
    BY <1>0, <2>1, PriceFrame DEF PriceInv, CallsKnowTheirAuction, SeenIsOld, Auction
<1> QED
  BY <1>2, <1>3, <1>4, <1>5, <1>6, <1>7, <1>8, <1>9, StepKinds

\* The price an auction shows is its highest bid, whatever fails and in
\* whatever order the bids are inserted.
THEOREM PriceIsRight == Spec => []PriceIsHighestBid
<1>1. PriceInv => PriceIsHighestBid
  BY DEF PriceInv
<1> QED
  BY <1>1, Typing, PriceInit, PriceStep, PTL DEF Spec

-----------------------------------------------------------------------------
\* What the two scripts do, in the terms of the invariants below.

LEMMA PrepareEffect ==
    ASSUME TypeOK, NEW c \in Calls, pc[c] = "prepare", PrepareScript(c)
    PROVE  \/ Duplicate(c) /\ UNCHANGED <<idem, bidState>>
           \/ /\ ~Duplicate(c)
              /\ \A k \in (Users \X Keys) \ {KeyOf(c)} : idem'[k] = idem[k]
              /\ \A a \in Auctions \ {Auction(c)} : bidState'[a] = bidState[a]
              /\ idem'[KeyOf(c)].status # "none" /\ idem'[KeyOf(c)].bid = c
              /\ \/ /\ ~Allowed(c)
                    /\ bidState'[Auction(c)] = [price |-> Current(c), bid |-> bidState[Auction(c)].bid]
                 \/ /\ Allowed(c)
                    /\ bidState'[Auction(c)] = [price |-> Amount(c), bid |-> c]
                    /\ idem'[KeyOf(c)].prevPrice = Current(c)
                    /\ idem'[KeyOf(c)].prevBid = bidState[Auction(c)].bid
<1>1. /\ c \in DOMAIN req /\ KeyOf(c) \in Users \X Keys /\ Auction(c) \in Auctions
      /\ DOMAIN idem = Users \X Keys /\ DOMAIN bidState = Auctions
      /\ bidState[Auction(c)] \in State
  BY RequestTypes DEF TypeOK
<1>2. CASE Duplicate(c)
  BY <1>2 DEF PrepareScript, Allowed, redisVars
<1>3. CASE ~Duplicate(c) /\ ~Allowed(c)
  <2>1. /\ idem' = [idem EXCEPT ![KeyOf(c)] = [status |-> "rejected", bid |-> c,
                                                prevPrice |-> 0, prevBid |-> NoBid]]
        /\ bidState' = [bidState EXCEPT ![Auction(c)].price = Current(c)]
    BY <1>3 DEF PrepareScript, NoRecord
  <2>3. [bidState[Auction(c)] EXCEPT !.price = Current(c)]
          = [price |-> Current(c), bid |-> bidState[Auction(c)].bid]
    BY <1>1 DEF State
  <2>4. idem'[KeyOf(c)] = [status |-> "rejected", bid |-> c, prevPrice |-> 0, prevBid |-> NoBid]
    BY <1>1, <2>1
  <2>5. bidState'[Auction(c)] = [price |-> Current(c), bid |-> bidState[Auction(c)].bid]
    BY <1>1, <2>1, <2>3
  <2> QED
    BY <1>1, <1>3, <2>1, <2>4, <2>5
<1>4. CASE Allowed(c)
  <2>1. /\ idem' = [idem EXCEPT ![KeyOf(c)] = [status |-> "processing", bid |-> c,
                           prevPrice |-> Current(c), prevBid |-> bidState[Auction(c)].bid]]
        /\ bidState' = [bidState EXCEPT ![Auction(c)] = [price |-> Amount(c), bid |-> c]]
        /\ ~Duplicate(c)
    BY <1>4 DEF PrepareScript, Allowed
  <2> QED
    BY <1>1, <1>4, <2>1
<1> QED
  BY <1>2, <1>3, <1>4

LEMMA CompleteEffect ==
    ASSUME TypeOK, NEW c \in DOMAIN req,
           NEW verdict \in {"accepted", "rejected"}, CompleteScript(c, verdict)
    PROVE  /\ \A k \in Users \X Keys :
                 /\ idem'[k].bid = idem[k].bid
                 /\ idem'[k].prevPrice = idem[k].prevPrice
                 /\ idem'[k].prevBid = idem[k].prevBid
                 /\ idem[k].status # "none" => idem'[k].status # "none"
           /\ \/ UNCHANGED bidState
              \/ /\ verdict = "rejected" /\ bidState[Auction(c)].bid = c
                 /\ \A a \in Auctions \ {Auction(c)} : bidState'[a] = bidState[a]
                 /\ bidState'[Auction(c)] = [price |-> idem[KeyOf(c)].prevPrice,
                                             bid |-> idem[KeyOf(c)].prevBid]
<1>1. /\ KeyOf(c) \in Users \X Keys /\ Auction(c) \in Auctions
      /\ DOMAIN idem = Users \X Keys /\ DOMAIN bidState = Auctions
      /\ idem[KeyOf(c)] \in Record
  BY RequestTypes DEF TypeOK
<1>2. CASE UNCHANGED redisVars
  BY <1>2 DEF redisVars
<1>3. CASE ~UNCHANGED redisVars
  <2>1. /\ idem' = [idem EXCEPT ![KeyOf(c)].status = verdict]
        /\ \/ bidState' = bidState
           \/ /\ verdict # "accepted" /\ bidState[Auction(c)].bid = c
              /\ bidState' = [bidState EXCEPT ![Auction(c)] = [price |-> idem[KeyOf(c)].prevPrice,
                                                               bid |-> idem[KeyOf(c)].prevBid]]
    BY <1>3 DEF CompleteScript
  <2>2. /\ \A k \in (Users \X Keys) \ {KeyOf(c)} : idem'[k] = idem[k]
        /\ idem'[KeyOf(c)] = [idem[KeyOf(c)] EXCEPT !.status = verdict]
    BY <1>1, <2>1
  <2>3. /\ idem'[KeyOf(c)].bid = idem[KeyOf(c)].bid
        /\ idem'[KeyOf(c)].prevPrice = idem[KeyOf(c)].prevPrice
        /\ idem'[KeyOf(c)].prevBid = idem[KeyOf(c)].prevBid
        /\ idem'[KeyOf(c)].status = verdict
    BY <1>1, <2>2 DEF Record
  <2> QED
    BY <1>1, <2>1, <2>2, <2>3
<1> QED
  BY <1>2, <1>3

-----------------------------------------------------------------------------
\* One bid for a key.

LEMMA CountingTypes == TypeOK => Counting \subseteq DOMAIN req
  BY DEF TypeOK, Counting, Undecided

\* Only an allowed preparation adds a counting call.
LEMMA CountingShrinks ==
    ASSUME TypeOK, [Next]_vars,
           ~ \E c \in Calls : PrepareBid(c) /\ Allowed(c)
    PROVE  Counting' \subseteq Counting /\ Undecided' \subseteq Undecided
<1> USE DEF Counting, Undecided, At, Goto, Finish, TypeOK
<1>1. ASSUME NEW c \in Calls, NEW r \in Requests, Submit(c, r)
      PROVE  bids' = bids /\ Undecided' \subseteq Undecided
  BY <1>1 DEF Submit, dbVars
<1>2. ASSUME NEW c \in Calls, NEW late \in BOOLEAN, CheckAuction(c, late)
      PROVE  bids' = bids /\ Undecided' \subseteq Undecided
  BY <1>2 DEF CheckAuction, dbVars
<1>3. ASSUME NEW c \in Calls, PrepareBid(c) \/ PrepareBidFails(c)
      PROVE  bids' = bids /\ Undecided' \subseteq Undecided
  BY <1>3 DEF PrepareBid, PrepareBidFails, dbVars
<1>4. ASSUME NEW c \in Calls, CreateBid(c) \/ CreateBidFails(c)
      PROVE  bids' \subseteq bids \cup {c} /\ c \in Undecided /\ Undecided' \subseteq Undecided
  BY <1>4 DEF CreateBid, CreateBidFails, InsertBid, dbVars
<1>5. ASSUME NEW c \in Calls, CompleteBid(c)
      PROVE  bids' = bids /\ Undecided' \subseteq Undecided
  BY <1>5 DEF CompleteBid, Completing, CompletedAt, dbVars
<1>6. ASSUME NEW c \in Calls, Moves(c)
      PROVE  bids' = bids /\ Undecided' \subseteq Undecided
  BY <1>6 DEF Moves, dbVars
<1>7. ASSUME NEW a \in Auctions, AuctionStep(a)
      PROVE  bids' = bids /\ Undecided' \subseteq Undecided
  BY <1>7 DEF AuctionStep, CreateAuction, UpdateAuctionStatus, callVars
<1>8. CASE UNCHANGED vars
  BY <1>8 DEF vars, callVars, dbVars
<1> QED
  BY <1>1, <1>2, <1>3, <1>4, <1>5, <1>6, <1>7, <1>8, StepKinds

\* An allowed preparation counts the one call, whose key had no record.
LEMMA CountingGrows ==
    ASSUME TypeOK, NEW c \in Calls, PrepareBid(c), Allowed(c)
    PROVE  /\ Counting' = Counting \cup {c} /\ Undecided' = Undecided \cup {c}
           /\ c \in DOMAIN req /\ pc[c] = "prepare" /\ PrepareScript(c) /\ ~Duplicate(c)
           /\ UNCHANGED <<req, dbVars>>
<1>1. /\ pc[c] = "prepare" /\ PrepareScript(c) /\ ~Duplicate(c) /\ UNCHANGED <<req, dbVars>>
      /\ pc' = [pc EXCEPT ![c] = "validate"]
  BY DEF PrepareBid, Allowed, At, Goto
<1> QED
  BY <1>1 DEF Counting, Undecided, TypeOK, dbVars

\* What a record says of its bid is never changed, only its verdict.
LEMMA RecordsStay ==
    ASSUME TypeOK, [Next]_vars
    PROVE  \A k \in Users \X Keys : idem[k].status # "none" =>
              /\ idem'[k].status # "none" /\ idem'[k].bid = idem[k].bid
              /\ idem'[k].prevPrice = idem[k].prevPrice /\ idem'[k].prevBid = idem[k].prevBid
<1> DEFINE Stays == \A k \in Users \X Keys : idem[k].status # "none" =>
              /\ idem'[k].status # "none" /\ idem'[k].bid = idem[k].bid
              /\ idem'[k].prevPrice = idem[k].prevPrice /\ idem'[k].prevBid = idem[k].prevBid
<1>1. ASSUME NEW c \in Calls, PrepareBid(c) \/ PrepareBidFails(c) PROVE Stays
  <2>1. CASE PrepareScript(c)
    <3>1. pc[c] = "prepare"
      BY <1>1 DEF PrepareBid, PrepareBidFails, At
    <3> QED
      BY <2>1, <3>1, PrepareEffect DEF Duplicate
  <2> QED
    BY <1>1, <2>1 DEF PrepareBid, PrepareBidFails, redisVars
<1>2. ASSUME NEW c \in Calls, CompleteBid(c) PROVE Stays
  <2>1. c \in DOMAIN req
    BY <1>2 DEF CompleteBid, Completing, TypeOK
  <2> QED
    BY <1>2, <2>1, CompleteEffect DEF CompleteBid, redisVars
<1>3. UNCHANGED idem => Stays
  OBVIOUS
<1> HIDE DEF Stays
<1> QED
  <2>1. Stays
    BY <1>1, <1>2, <1>3, StepKinds
       DEF Submit, CheckAuction, CreateBid, CreateBidFails, Moves, AuctionStep, CreateAuction,
           UpdateAuctionStatus, vars, redisVars
  <2> QED
    BY <2>1 DEF Stays

LEMMA OwnInit == Init => BidsOwnTheirKey
  BY DEF Init, BidsOwnTheirKey, Counting, Undecided

LEMMA OwnStep == TypeOK /\ BidsOwnTheirKey /\ [Next]_vars => BidsOwnTheirKey'
<1> SUFFICES ASSUME TypeOK, BidsOwnTheirKey, [Next]_vars PROVE BidsOwnTheirKey'
  OBVIOUS
<1>1. \A d \in Counting : /\ idem'[KeyOf(d)].status # "none" /\ idem'[KeyOf(d)].bid = d
                          /\ KeyOf(d)' = KeyOf(d)
  <2>1. \A d \in Counting : d \in DOMAIN req /\ KeyOf(d) \in Users \X Keys
    BY CountingTypes, RequestTypes
  <2> QED
    BY <2>1, RecordsStay, RequestsStay DEF BidsOwnTheirKey
<1>2. ASSUME NEW c \in Calls, PrepareBid(c), Allowed(c) PROVE BidsOwnTheirKey'
  <2>1. /\ Counting' = Counting \cup {c} /\ c \in DOMAIN req /\ KeyOf(c)' = KeyOf(c)
        /\ idem'[KeyOf(c)].status # "none" /\ idem'[KeyOf(c)].bid = c
    BY <1>2, CountingGrows, PrepareEffect, RequestsStay
  <2> QED
    BY <1>1, <2>1 DEF BidsOwnTheirKey
<1>3. CASE ~ \E c \in Calls : PrepareBid(c) /\ Allowed(c)
  BY <1>1, <1>3, CountingShrinks DEF BidsOwnTheirKey
<1> QED
  BY <1>2, <1>3

\* Retries of one request insert one row at most, whatever fails: the record of
\* a key names the one call that may insert it.
THEOREM OneBid == Spec => []OneBidPerKey
<1>1. BidsOwnTheirKey => OneBidPerKey
  BY DEF BidsOwnTheirKey, OneBidPerKey, Counting
<1> QED
  BY <1>1, Typing, OwnInit, OwnStep, PTL DEF Spec

-----------------------------------------------------------------------------
\* What callers are told, and what Redis keeps of it.

\* The verdicts the two scripts may write.
LEMMA PrepareVerdict ==
    ASSUME TypeOK, NEW c \in Calls, pc[c] = "prepare", PrepareScript(c)
    PROVE  \A k \in Users \X Keys :
              \/ idem'[k] = idem[k]
              \/ ~Allowed(c) /\ idem'[k].status = "rejected" /\ idem'[k].bid = c
              \/ Allowed(c) /\ idem'[k].status = "processing"
<1>1. KeyOf(c) \in Users \X Keys /\ DOMAIN idem = Users \X Keys
  BY RequestTypes DEF TypeOK
<1>2. CASE Duplicate(c)
  BY <1>2 DEF PrepareScript, Allowed, redisVars
<1>3. CASE ~Duplicate(c) /\ ~Allowed(c)
  <2>1. idem' = [idem EXCEPT ![KeyOf(c)] = [status |-> "rejected", bid |-> c,
                                             prevPrice |-> 0, prevBid |-> NoBid]]
    BY <1>3 DEF PrepareScript, NoRecord
  <2> QED
    BY <1>1, <1>3, <2>1
<1>4. CASE Allowed(c)
  <2>1. idem' = [idem EXCEPT ![KeyOf(c)] = [status |-> "processing", bid |-> c,
                           prevPrice |-> Current(c), prevBid |-> bidState[Auction(c)].bid]]
    BY <1>4 DEF PrepareScript, Allowed
  <2> QED
    BY <1>1, <1>4, <2>1
<1> QED
  BY <1>2, <1>3, <1>4

LEMMA CompleteVerdict ==
    ASSUME TypeOK, NEW c \in DOMAIN req,
           NEW verdict \in {"accepted", "rejected"}, CompleteScript(c, verdict)
    PROVE  \A k \in Users \X Keys :
              \/ idem'[k] = idem[k]
              \/ k = KeyOf(c) /\ idem'[k].status = verdict /\ idem'[k].bid = c
<1>1. KeyOf(c) \in Users \X Keys /\ DOMAIN idem = Users \X Keys /\ idem[KeyOf(c)] \in Record
  BY RequestTypes DEF TypeOK
<1>2. CASE UNCHANGED redisVars
  BY <1>2 DEF redisVars
<1>3. CASE ~UNCHANGED redisVars
  <2>1. idem' = [idem EXCEPT ![KeyOf(c)].status = verdict] /\ idem[KeyOf(c)].bid = c
    BY <1>3 DEF CompleteScript
  <2>2. idem'[KeyOf(c)] = [idem[KeyOf(c)] EXCEPT !.status = verdict]
    BY <1>1, <2>1
  <2>3. idem'[KeyOf(c)].status = verdict /\ idem'[KeyOf(c)].bid = c
    BY <1>1, <2>1, <2>2 DEF Record
  <2> QED
    BY <1>1, <2>1, <2>3
<1> QED
  BY <1>2, <1>3

\* A row comes with the transaction and not before it, and a call on its way to
\* record an acceptance has one.
RowsComeInTime ==
    \A c \in Calls :
        /\ pc[c] \in {"idle", "lookup", "prepare", "validate", "reserve", "create", "refuse"}
             => c \notin bids
        /\ pc[c] = "accept" => c \in bids

AcceptancesHaveRows ==
    \A k \in Users \X Keys :
        idem[k].status = "accepted" => \E b \in bids : idem[k].bid = b /\ KeyOf(b) = k

AnswersHaveGrounds ==
    \A c \in Calls :
        /\ outcome[c] = "accepted" /\ pc[c] # "done" => c \in bids
        /\ outcome[c] = "rejected" => pc[c] \in {"refuse", "done"}
        /\ pc[c] \in {"refuse", "undo"} => outcome[c] # "accepted"

AnswerInv == RowsComeInTime /\ AcceptancesHaveRows /\ AnswersHaveGrounds

LEMMA AnswerInit == Init => AnswerInv
BY DEF Init, AnswerInv, RowsComeInTime, AcceptancesHaveRows, AnswersHaveGrounds, NoRecord

\* Rows that are there stay, and so do the keys of their calls.
LEMMA RowsStay ==
    ASSUME TypeOK, [Next]_vars
    PROVE  bids \subseteq bids' /\ \A b \in bids : KeyOf(b)' = KeyOf(b)
<1>1. bids \subseteq bids'
  BY StepKinds
     DEF Submit, CheckAuction, PrepareBid, PrepareBidFails, CreateBid, CreateBidFails, InsertBid,
         CompleteBid, Moves, AuctionStep, CreateAuction, UpdateAuctionStatus, vars, dbVars
<1> QED
  BY <1>1, RequestsStay DEF TypeOK

\* Only the transaction adds a row.
LEMMA RowsAreInserted ==
    ASSUME TypeOK, [Next]_vars, bids' # bids
    PROVE  \E c \in Calls : /\ pc[c] = "create" /\ bids' = bids \cup {c}
                            /\ \/ pc' = [pc EXCEPT ![c] = "accept"]
                               \/ pc' = [pc EXCEPT ![c] = "undo"]
                            /\ UNCHANGED redisVars
BY StepKinds
   DEF Submit, CheckAuction, PrepareBid, PrepareBidFails, CreateBid, CreateBidFails, InsertBid,
       CompleteBid, Moves, AuctionStep, CreateAuction, UpdateAuctionStatus, vars, dbVars, At, Goto

LEMMA InTimeStep == ASSUME TypeOK, RowsComeInTime, [Next]_vars PROVE RowsComeInTime'
<1> USE DEF TypeOK, RowsComeInTime, At, Goto, Finish
<1>1. CASE bids' # bids
  BY <1>1, RowsAreInserted
<1>2. CASE bids' = bids
  <2>1. ASSUME NEW c \in Calls, NEW r \in Requests, Submit(c, r) PROVE RowsComeInTime'
    BY <1>2, <2>1 DEF Submit
  <2>2. ASSUME NEW c \in Calls, NEW late \in BOOLEAN, CheckAuction(c, late) PROVE RowsComeInTime'
    BY <1>2, <2>2 DEF CheckAuction
  <2>3. ASSUME NEW c \in Calls, PrepareBid(c) \/ PrepareBidFails(c) PROVE RowsComeInTime'
    BY <1>2, <2>3 DEF PrepareBid, PrepareBidFails
  <2>4. ASSUME NEW c \in Calls, CreateBid(c) \/ CreateBidFails(c) PROVE RowsComeInTime'
    BY <1>2, <2>4 DEF CreateBid, CreateBidFails, InsertBid
  <2>5. ASSUME NEW c \in Calls, CompleteBid(c) PROVE RowsComeInTime'
    BY <1>2, <2>5 DEF CompleteBid, Completing, CompletedAt
  <2>6. ASSUME NEW c \in Calls, Moves(c) PROVE RowsComeInTime'
    BY <1>2, <2>6 DEF Moves
  <2> QED
    BY <1>2, <2>1, <2>2, <2>3, <2>4, <2>5, <2>6, StepKinds
       DEF AuctionStep, CreateAuction, UpdateAuctionStatus, vars, callVars
<1> QED
  BY <1>1, <1>2

LEMMA AcceptanceStep ==
    ASSUME TypeOK, RowsComeInTime, AcceptancesHaveRows, [Next]_vars
    PROVE  AcceptancesHaveRows'
<1>1. ASSUME NEW k \in Users \X Keys, idem'[k] = idem[k], idem[k].status = "accepted"
      PROVE  \E b \in bids' : idem'[k].bid = b /\ KeyOf(b)' = k
  <2>1. PICK b \in bids : idem[k].bid = b /\ KeyOf(b) = k
    BY <1>1 DEF AcceptancesHaveRows
  <2> QED
    BY <1>1, <2>1, RowsStay
<1>2. CASE UNCHANGED idem
  BY <1>1, <1>2 DEF AcceptancesHaveRows
<1>3. ASSUME NEW c \in Calls, PrepareBid(c) \/ PrepareBidFails(c) PROVE AcceptancesHaveRows'
  <2>1. CASE PrepareScript(c)
    <3>1. pc[c] = "prepare"
      BY <1>3 DEF PrepareBid, PrepareBidFails, At
    <3>2. \A k \in Users \X Keys : idem'[k] = idem[k] \/ idem'[k].status # "accepted"
      BY <2>1, <3>1, PrepareVerdict
    <3> QED
      BY <1>1, <3>2 DEF AcceptancesHaveRows
  <2> QED
    BY <1>2, <1>3, <2>1 DEF PrepareBid, PrepareBidFails, redisVars
<1>4. ASSUME NEW c \in Calls, CompleteBid(c) PROVE AcceptancesHaveRows'
  <2>1. c \in DOMAIN req
    BY <1>4 DEF CompleteBid, Completing, TypeOK
  <2>2. \A k \in Users \X Keys :
           \/ idem'[k] = idem[k]
           \/ k = KeyOf(c) /\ idem'[k].bid = c /\ (idem'[k].status = "accepted" => At(c, "accept"))
    BY <1>4, <2>1, CompleteVerdict DEF CompleteBid, redisVars
  <2>3. At(c, "accept") => c \in bids' /\ KeyOf(c)' = KeyOf(c)
    BY RowsStay DEF RowsComeInTime, At
  <2>4. ASSUME NEW k \in Users \X Keys, idem'[k] # idem[k], idem'[k].status = "accepted"
        PROVE  \E b \in bids' : idem'[k].bid = b /\ KeyOf(b)' = k
    BY <2>2, <2>3, <2>4
  <2> QED
    BY <1>1, <2>4 DEF AcceptancesHaveRows
<1> QED
  BY <1>2, <1>3, <1>4, StepKinds
     DEF Submit, CheckAuction, CreateBid, CreateBidFails, Moves, AuctionStep, CreateAuction,
         UpdateAuctionStatus, vars, redisVars

\* Steps of a call that leave its answer as it is.
LEMMA PlainSteps ==
    ASSUME TypeOK, [Next]_vars, NEW c \in Calls, outcome'[c] = outcome[c]
    PROVE  /\ pc[c] = "done" => pc'[c] = "done"
           /\ pc[c] = "refuse" => pc'[c] \in {"refuse", "done"}
           /\ pc'[c] = "refuse" => pc[c] = "refuse" \/ outcome[c] # "accepted"
           /\ pc'[c] = "undo" => pc[c] = "undo" \/ outcome[c] # "accepted"
<1> DEFINE Plain == /\ pc[c] = "done" => pc'[c] = "done"
                    /\ pc[c] = "refuse" => pc'[c] \in {"refuse", "done"}
                    /\ pc'[c] = "refuse" => pc[c] = "refuse" \/ outcome[c] # "accepted"
                    /\ pc'[c] = "undo" => pc[c] = "undo" \/ outcome[c] # "accepted"
<1> USE DEF TypeOK, At, Goto, Answer, Finish
<1>1. ASSUME NEW d \in Calls, NEW r \in Requests, Submit(d, r) PROVE Plain
  BY <1>1 DEF Submit
<1>2. ASSUME NEW d \in Calls, NEW late \in BOOLEAN, CheckAuction(d, late) PROVE Plain
  BY <1>2 DEF CheckAuction
<1>3. ASSUME NEW d \in Calls, CheckAuctionFails(d) PROVE Plain
  BY <1>3 DEF CheckAuctionFails
<1>4. ASSUME NEW d \in Calls, PrepareBid(d) \/ PrepareBidFails(d) PROVE Plain
  BY <1>4 DEF PrepareBid, PrepareBidFails
<1>5. ASSUME NEW d \in Calls, NEW reply \in Replies,
             ValidateReply(d, reply) \/ ReserveReply(d, reply) PROVE Plain
  BY <1>5 DEF ValidateReply, ReserveReply, TakeReply, Refuse
<1>6. ASSUME NEW d \in Calls, CreateBid(d) \/ CreateBidFails(d) PROVE Plain
  BY <1>6 DEF CreateBid, CreateBidFails
<1>7. ASSUME NEW d \in Calls, CompleteBid(d) PROVE Plain
  BY <1>7 DEF CompleteBid, Completing, CompletedAt
<1>8. ASSUME NEW d \in Calls, ReleaseReservation(d) \/ ReadHighest(d) \/ PublishUpdate(d) \/ Crash(d)
      PROVE  Plain
  BY <1>8 DEF ReleaseReservation, ReadHighest, PublishUpdate, Crash
<1>9. UNCHANGED callVars => Plain
  BY DEF callVars
<1> HIDE DEF Plain
<1>10. Plain
  BY <1>1, <1>2, <1>3, <1>4, <1>5, <1>6, <1>7, <1>8, <1>9
     DEF Next, CallStep, AuctionStep, CreateAuction, UpdateAuctionStatus, vars
<1> QED
  BY <1>10 DEF Plain

\* An answer changes with a step of its own call only, and then has its grounds.
LEMMA AnswerKinds ==
    ASSUME TypeOK, [Next]_vars
    PROVE  \/ UNCHANGED outcome
           \/ \E c \in Calls, answer \in Answers :
                 /\ outcome' = [outcome EXCEPT ![c] = answer]
                 /\ answer = "accepted" => \/ pc'[c] = "done" /\ pc[c] = "prepare"
                                           \/ pc'[c] = "accept" /\ pc[c] = "create" /\ c \in bids'
                 /\ answer = "rejected" => pc'[c] \in {"refuse", "done"}
<1> DEFINE Grounded(c, answer) ==
             /\ outcome' = [outcome EXCEPT ![c] = answer]
             /\ answer = "accepted" => \/ pc'[c] = "done" /\ pc[c] = "prepare"
                                       \/ pc'[c] = "accept" /\ pc[c] = "create" /\ c \in bids'
             /\ answer = "rejected" => pc'[c] \in {"refuse", "done"}
           Kinds == UNCHANGED outcome \/ \E c \in Calls, answer \in Answers : Grounded(c, answer)
<1> USE DEF At, Goto, Answer, Finish, Answers
<1>1. ASSUME NEW c \in Calls, NEW late \in BOOLEAN, CheckAuction(c, late) PROVE Kinds
  BY <1>1 DEF CheckAuction, TypeOK
<1>2. ASSUME NEW c \in Calls, CheckAuctionFails(c) PROVE Kinds
  BY <1>2 DEF CheckAuctionFails
<1>3. ASSUME NEW c \in Calls, PrepareBid(c) PROVE Kinds
  BY <1>3 DEF PrepareBid, TypeOK
<1>4. ASSUME NEW c \in Calls, PrepareBidFails(c) PROVE Kinds
  BY <1>4 DEF PrepareBidFails
<1>5. ASSUME NEW c \in Calls, NEW reply \in Replies,
             ValidateReply(c, reply) \/ ReserveReply(c, reply) PROVE Kinds
  BY <1>5 DEF ValidateReply, ReserveReply, TakeReply, Refuse, TypeOK
<1>6. ASSUME NEW c \in Calls, CreateBid(c) PROVE Kinds
  BY <1>6 DEF CreateBid, InsertBid, TypeOK
<1>7. ASSUME NEW c \in Calls, CreateBidFails(c) PROVE Kinds
  BY <1>7 DEF CreateBidFails
<1>8. ASSUME NEW c \in Calls, Crash(c) PROVE Kinds
  BY <1>8 DEF Crash
<1> HIDE DEF Kinds
<1>9. UNCHANGED outcome => Kinds
  BY DEF Kinds
<1>10. Kinds
  BY <1>1, <1>2, <1>3, <1>4, <1>5, <1>6, <1>7, <1>8, <1>9
     DEF Next, CallStep, Submit, CompleteBid, ReleaseReservation, ReadHighest, PublishUpdate,
         AuctionStep, CreateAuction, UpdateAuctionStatus, vars, callVars
<1> QED
  BY <1>10 DEF Kinds

LEMMA AnswerStep == TypeOK /\ AnswerInv /\ [Next]_vars => AnswerInv'
<1> SUFFICES ASSUME TypeOK, RowsComeInTime, AcceptancesHaveRows, AnswersHaveGrounds, [Next]_vars
             PROVE  AnswerInv'
  BY DEF AnswerInv
<1>1. RowsComeInTime' /\ AcceptancesHaveRows'
  BY InTimeStep, AcceptanceStep
<1> DEFINE Grounded(c) == /\ outcome[c] = "accepted" /\ pc[c] # "done" => c \in bids
                          /\ outcome[c] = "rejected" => pc[c] \in {"refuse", "done"}
                          /\ pc[c] \in {"refuse", "undo"} => outcome[c] # "accepted"
<1>2. ASSUME NEW c \in Calls, outcome'[c] = outcome[c] PROVE Grounded(c)'
  BY <1>2, PlainSteps, RowsStay DEF AnswersHaveGrounds
<1>3. AnswersHaveGrounds'
  <2>1. CASE UNCHANGED outcome
    BY <1>2, <2>1 DEF AnswersHaveGrounds
  <2>2. ASSUME NEW c \in Calls, NEW answer \in Answers,
               outcome' = [outcome EXCEPT ![c] = answer],
               answer = "accepted" => \/ pc'[c] = "done" /\ pc[c] = "prepare"
                                      \/ pc'[c] = "accept" /\ pc[c] = "create" /\ c \in bids',
               answer = "rejected" => pc'[c] \in {"refuse", "done"}
        PROVE  AnswersHaveGrounds'
    <3>1. outcome'[c] = answer /\ \A d \in Calls \ {c} : outcome'[d] = outcome[d]
      BY <2>2 DEF TypeOK
    <3>2. Grounded(c)'
      BY <2>2, <3>1
    <3> QED
      BY <1>2, <3>1, <3>2 DEF AnswersHaveGrounds
  <2> QED
    BY <2>1, <2>2, AnswerKinds
<1> QED
  BY <1>1, <1>3 DEF AnswerInv

-----------------------------------------------------------------------------
\* What a retry finds on record.

\* The record of a call on its way to the transaction is at "processing", and
\* leaves it for "accepted", unless that script fails or the call does not answer
\* "accepted".
Waiting == {"validate", "reserve", "create"}

RecordsFollowRows ==
    /\ \A c \in Calls : pc[c] \in Waiting => idem[KeyOf(c)].status = "processing"
    /\ \A b \in bids : outcome[b] = "accepted" =>
          \/ idem[KeyOf(b)].status = "accepted"
          \/ idem[KeyOf(b)].status = "processing" /\ (pc[b] = "accept" \/ "redis" \in Faults)

LEMMA RecordsInit == Init => RecordsFollowRows
BY DEF Init, RecordsFollowRows, Waiting

\* Only the completion by the call of a record changes its verdict.
LEMMA VerdictsMove ==
    ASSUME TypeOK, [Next]_vars, NEW k \in Users \X Keys, idem[k].status # "none"
    PROVE  \/ idem'[k] = idem[k]
           \/ \E c \in Calls : /\ CompleteBid(c) /\ idem[k].bid = c
                               /\ At(c, "accept") => idem'[k].status = "accepted"
<1> DEFINE Moved == \E c \in Calls : /\ CompleteBid(c) /\ idem[k].bid = c
                                     /\ At(c, "accept") => idem'[k].status = "accepted"
<1>1. ASSUME NEW c \in Calls, PrepareBid(c) \/ PrepareBidFails(c) PROVE idem'[k] = idem[k]
  <2>1. pc[c] = "prepare" /\ (PrepareScript(c) \/ UNCHANGED redisVars)
    BY <1>1 DEF PrepareBid, PrepareBidFails, At
  <2> QED
    BY <2>1, PrepareEffect DEF Duplicate, redisVars
<1>2. ASSUME NEW c \in Calls, CompleteBid(c) PROVE idem'[k] = idem[k] \/ Moved
  <2>1. c \in DOMAIN req
    BY <1>2 DEF CompleteBid, Completing, TypeOK
  <2>2. \/ idem'[k] = idem[k]
        \/ idem'[k].bid = c /\ (At(c, "accept") => idem'[k].status = "accepted")
    BY <1>2, <2>1, CompleteVerdict DEF CompleteBid, redisVars
  <2>3. idem'[k].bid = idem[k].bid
    BY RecordsStay
  <2> QED
    BY <1>2, <2>2, <2>3
<1> HIDE DEF Moved
<1>3. idem'[k] = idem[k] \/ Moved
  BY <1>1, <1>2, StepKinds
     DEF Submit, CheckAuction, CreateBid, CreateBidFails, Moves, AuctionStep, CreateAuction,
         UpdateAuctionStatus, vars, redisVars
<1> QED
  BY <1>3 DEF Moved

\* A call begins to wait with an allowed preparation.
LEMMA WaitingBegins ==
    ASSUME TypeOK, [Next]_vars, NEW c \in Calls, pc'[c] \in Waiting
    PROVE  pc[c] \in Waiting \/ (PrepareBid(c) /\ Allowed(c))
<1> USE DEF TypeOK, At, Goto, Finish, Waiting
<1>1. ASSUME NEW d \in Calls, NEW r \in Requests, Submit(d, r) PROVE pc[c] \in Waiting
  BY <1>1 DEF Submit
<1>2. ASSUME NEW d \in Calls, NEW late \in BOOLEAN, CheckAuction(d, late) PROVE pc[c] \in Waiting
  BY <1>2 DEF CheckAuction
<1>3. ASSUME NEW d \in Calls, PrepareBid(d)
      PROVE  pc[c] \in Waiting \/ (PrepareBid(c) /\ Allowed(c))
  BY <1>3 DEF PrepareBid
<1>4. ASSUME NEW d \in Calls, PrepareBidFails(d) PROVE pc[c] \in Waiting
  BY <1>4 DEF PrepareBidFails
<1>5. ASSUME NEW d \in Calls, CreateBid(d) \/ CreateBidFails(d) PROVE pc[c] \in Waiting
  BY <1>5 DEF CreateBid, CreateBidFails
<1>6. ASSUME NEW d \in Calls, CompleteBid(d) PROVE pc[c] \in Waiting
  BY <1>6 DEF CompleteBid, Completing, CompletedAt
<1>7. ASSUME NEW d \in Calls, Moves(d) PROVE pc[c] \in Waiting
  BY <1>7 DEF Moves
<1> QED
  BY <1>1, <1>2, <1>3, <1>4, <1>5, <1>6, <1>7, StepKinds
     DEF AuctionStep, CreateAuction, UpdateAuctionStatus, vars, callVars

\* A call leaves "accept" with its verdict on record, or dies, or the script failed.
LEMMA AcceptEnds ==
    ASSUME TypeOK, [Next]_vars, NEW c \in Calls, pc[c] = "accept", pc'[c] # "accept"
    PROVE  outcome'[c] = "none" \/ "redis" \in Faults \/ (CompleteBid(c) /\ CompleteScript(c, "accepted"))
<1> DEFINE Ends == \/ outcome'[c] = "none" \/ "redis" \in Faults
                   \/ CompleteBid(c) /\ CompleteScript(c, "accepted")
<1> USE DEF TypeOK, At, Goto, Answer, Finish
<1>1. ASSUME NEW d \in Calls, NEW r \in Requests, Submit(d, r) PROVE Ends
  BY <1>1 DEF Submit
<1>2. ASSUME NEW d \in Calls, NEW late \in BOOLEAN, CheckAuction(d, late) PROVE Ends
  BY <1>2 DEF CheckAuction
<1>3. ASSUME NEW d \in Calls, CheckAuctionFails(d) PROVE Ends
  BY <1>3 DEF CheckAuctionFails
<1>4. ASSUME NEW d \in Calls, PrepareBid(d) \/ PrepareBidFails(d) PROVE Ends
  BY <1>4 DEF PrepareBid, PrepareBidFails
<1>5. ASSUME NEW d \in Calls, NEW reply \in Replies,
             ValidateReply(d, reply) \/ ReserveReply(d, reply) PROVE Ends
  BY <1>5 DEF ValidateReply, ReserveReply, TakeReply, Refuse
<1>6. ASSUME NEW d \in Calls, CreateBid(d) \/ CreateBidFails(d) PROVE Ends
  BY <1>6 DEF CreateBid, CreateBidFails
<1>7. ASSUME NEW d \in Calls, CompleteBid(d) PROVE Ends
  BY <1>7 DEF CompleteBid, Completing, CompletedAt
<1>8. ASSUME NEW d \in Calls, ReleaseReservation(d) \/ ReadHighest(d) \/ PublishUpdate(d) \/ Crash(d)
      PROVE  Ends
  BY <1>8 DEF ReleaseReservation, ReadHighest, PublishUpdate, Crash
<1>9. UNCHANGED callVars => Ends
  BY DEF callVars
<1> HIDE DEF Ends
<1>10. Ends
  BY <1>1, <1>2, <1>3, <1>4, <1>5, <1>6, <1>7, <1>8, <1>9
     DEF Next, CallStep, AuctionStep, CreateAuction, UpdateAuctionStatus, vars
<1> QED
  BY <1>10 DEF Ends

LEMMA RecordsStep ==
    ASSUME TypeOK, BidsOwnTheirKey, AnswerInv, RecordsFollowRows, [Next]_vars
    PROVE  RecordsFollowRows'
<1> USE DEF AnswerInv
<1>1. \A c \in Counting : /\ c \in Calls /\ c \in DOMAIN req /\ KeyOf(c)' = KeyOf(c)
                          /\ KeyOf(c) \in Users \X Keys
                          /\ idem[KeyOf(c)].status # "none" /\ idem[KeyOf(c)].bid = c
  BY CountingTypes, RequestTypes, RequestsStay DEF BidsOwnTheirKey, TypeOK
\* The record of a counting call changes with its own completion.
<1>2. ASSUME NEW c \in Counting
      PROVE  \/ idem'[KeyOf(c)] = idem[KeyOf(c)]
             \/ CompleteBid(c) /\ (At(c, "accept") => idem'[KeyOf(c)].status = "accepted")
  BY <1>1, VerdictsMove
<1>3. ASSUME NEW c \in Calls, pc'[c] \in Waiting PROVE idem'[KeyOf(c)'].status = "processing"
  <2>1. CASE pc[c] \in Waiting
    <3>1. c \in Counting /\ pc[c] \notin Completing
      BY <2>1 DEF Counting, Undecided, Waiting, Completing
    <3> QED
      BY <1>1, <1>2, <2>1, <3>1 DEF RecordsFollowRows, CompleteBid
  <2>2. CASE PrepareBid(c) /\ Allowed(c)
    <3>1. /\ c \in DOMAIN req /\ pc[c] = "prepare" /\ PrepareScript(c) /\ ~Duplicate(c)
          /\ KeyOf(c) \in Users \X Keys /\ KeyOf(c)' = KeyOf(c)
      BY <2>2, CountingGrows, RequestTypes, RequestsStay
    <3>2. idem'[KeyOf(c)].status # "none"
      BY <3>1, PrepareEffect
    <3> QED
      BY <2>2, <3>1, <3>2, PrepareVerdict DEF Duplicate
  <2> QED
    BY <1>3, <2>1, <2>2, WaitingBegins
<1>4. ASSUME NEW b \in bids', outcome'[b] = "accepted"
      PROVE  \/ idem'[KeyOf(b)'].status = "accepted"
             \/ idem'[KeyOf(b)'].status = "processing" /\ (pc'[b] = "accept" \/ "redis" \in Faults)
  <2>1. CASE b \in bids
    <3>1. b \in Counting /\ b \in Calls /\ pc[b] \notin {"prepare", "create"}
      BY <1>1, <2>1 DEF Counting, RowsComeInTime
    <3>2. outcome[b] = "accepted"
      BY <1>4, <3>1, AnswerKinds DEF TypeOK
    <3>3. pc[b] \notin {"refuse", "undo"}
      BY <3>1, <3>2 DEF AnswersHaveGrounds
    <3>4. CompleteBid(b) => At(b, "accept")
      BY <3>3 DEF CompleteBid, Completing, At
    <3>5. CASE idem'[KeyOf(b)] # idem[KeyOf(b)]
      BY <1>1, <1>2, <3>1, <3>4, <3>5
    <3>6. CASE idem'[KeyOf(b)] = idem[KeyOf(b)]
      <4>1. CASE idem[KeyOf(b)].status = "accepted" \/ "redis" \in Faults \/ pc'[b] = "accept"
        BY <1>1, <2>1, <3>1, <3>2, <3>6, <4>1 DEF RecordsFollowRows
      <4>2. CASE /\ idem[KeyOf(b)].status = "processing" /\ pc[b] = "accept"
                 /\ pc'[b] # "accept" /\ "redis" \notin Faults
        <5>1. CompleteScript(b, "accepted")
          BY <1>4, <3>1, <4>2, AcceptEnds
        <5>2. idem' = [idem EXCEPT ![KeyOf(b)].status = "accepted"]
          BY <1>1, <3>1, <5>1 DEF CompleteScript
        <5>3. idem[KeyOf(b)] \in Record /\ DOMAIN idem = Users \X Keys
          BY <1>1, <3>1 DEF TypeOK
        <5>4. idem'[KeyOf(b)].status = "accepted"
          BY <1>1, <3>1, <5>2, <5>3 DEF Record
        <5> QED
          BY <1>1, <3>1, <5>4
      <4> QED
        BY <2>1, <3>2, <4>1, <4>2 DEF RecordsFollowRows
    <3> QED
      BY <3>5, <3>6
  <2>2. CASE b \notin bids
    <3>1. PICK c \in Calls : /\ pc[c] = "create" /\ bids' = bids \cup {c}
                             /\ \/ pc' = [pc EXCEPT ![c] = "accept"]
                                \/ pc' = [pc EXCEPT ![c] = "undo"]
                             /\ UNCHANGED redisVars
      BY <2>2, RowsAreInserted
    <3>2. b = c /\ b \in Calls /\ b \in Counting
      BY <2>2, <3>1 DEF Counting, Undecided
    <3>3. AnswersHaveGrounds'
      BY AnswerStep
    <3>4. pc'[b] # "undo"
      BY <1>4, <3>2, <3>3 DEF AnswersHaveGrounds
    <3>5. pc'[b] = "accept"
      BY <3>1, <3>2, <3>4 DEF TypeOK
    <3> QED
      BY <1>1, <3>1, <3>2, <3>5 DEF RecordsFollowRows, Waiting, redisVars
  <2> QED
    BY <2>1, <2>2
<1> QED
  BY <1>3, <1>4 DEF RecordsFollowRows

TruthInv == BidsOwnTheirKey /\ AnswerInv /\ RecordsFollowRows

\* A row of a key that a call finds taken, and its excuse.
LEMMA RepeatsAreTold ==
    ASSUME TypeOK, TruthInv, NEW c \in Calls, pc[c] = "prepare",
           NEW b \in bids, KeyOf(b) = KeyOf(c), ~Excused(c, b)
    PROVE  idem[KeyOf(c)].status = "accepted"
<1>1. outcome[b] = "accepted" /\ ~(/\ idem[KeyOf(b)].status = "processing"
                                   /\ pc[b] = "accept" \/ "redis" \in Faults)
  BY DEF Excused, At
<1> QED
  BY <1>1 DEF TruthInv, RecordsFollowRows

\* The steps that answer a call.
LEMMA AnsweringSteps ==
    ASSUME TypeOK, [Next]_vars, NEW c \in Calls, pc[c] # "done", pc'[c] = "done"
    PROVE  \/ pc[c] = "lookup" /\ outcome'[c] # "accepted"
           \/ PrepareBid(c)
           \/ outcome'[c] \in {"error", "none"}
           \/ pc[c] \in {"refuse", "release", "update"} /\ outcome'[c] = outcome[c]
<1> DEFINE Kinds == \/ pc[c] = "lookup" /\ outcome'[c] # "accepted"
                    \/ PrepareBid(c)
                    \/ outcome'[c] \in {"error", "none"}
                    \/ pc[c] \in {"refuse", "release", "update"} /\ outcome'[c] = outcome[c]
<1> USE DEF TypeOK, At, Goto, Answer, Finish
<1>1. ASSUME NEW d \in Calls, NEW r \in Requests, Submit(d, r) PROVE Kinds
  BY <1>1 DEF Submit
<1>2. ASSUME NEW d \in Calls, NEW late \in BOOLEAN, CheckAuction(d, late) PROVE Kinds
  BY <1>2 DEF CheckAuction
<1>3. ASSUME NEW d \in Calls, CheckAuctionFails(d) PROVE Kinds
  BY <1>3 DEF CheckAuctionFails
<1>4. ASSUME NEW d \in Calls, PrepareBid(d) PROVE Kinds
  BY <1>4 DEF PrepareBid
<1>5. ASSUME NEW d \in Calls, PrepareBidFails(d) PROVE Kinds
  BY <1>5 DEF PrepareBidFails
<1>6. ASSUME NEW d \in Calls, NEW reply \in Replies,
             ValidateReply(d, reply) \/ ReserveReply(d, reply) PROVE Kinds
  BY <1>6 DEF ValidateReply, ReserveReply, TakeReply, Refuse
<1>7. ASSUME NEW d \in Calls, CreateBid(d) \/ CreateBidFails(d) PROVE Kinds
  BY <1>7 DEF CreateBid, CreateBidFails
<1>8. ASSUME NEW d \in Calls, CompleteBid(d) PROVE Kinds
  BY <1>8 DEF CompleteBid, Completing, CompletedAt
<1>9. ASSUME NEW d \in Calls, ReleaseReservation(d) \/ ReadHighest(d) \/ PublishUpdate(d) \/ Crash(d)
      PROVE  Kinds
  BY <1>9 DEF ReleaseReservation, ReadHighest, PublishUpdate, Crash
<1>10. UNCHANGED callVars => Kinds
  BY DEF callVars
<1> HIDE DEF Kinds
<1>11. Kinds
  BY <1>1, <1>2, <1>3, <1>4, <1>5, <1>6, <1>7, <1>8, <1>9, <1>10
     DEF Next, CallStep, AuctionStep, CreateAuction, UpdateAuctionStatus, vars
<1> QED
  BY <1>11 DEF Kinds

LEMMA AnswersAreGiven ==
    ASSUME TypeOK, TruthInv, [Next]_vars, NEW c \in Calls PROVE AnswersTruly(c)
<1> SUFFICES ASSUME pc[c] # "done", pc'[c] = "done"
             PROVE  /\ outcome'[c] = "accepted" => Told(c) \in bids /\ KeyOf(Told(c)) = KeyOf(c)
                    /\ outcome'[c] = "rejected" =>
                          \A b \in bids : KeyOf(b) = KeyOf(c) => b # c /\ Excused(c, b)
  BY DEF AnswersTruly
<1> USE DEF TruthInv, AnswerInv
<1>1. CASE pc[c] = "lookup" /\ outcome'[c] # "accepted"
  BY <1>1 DEF RowsComeInTime, Excused, At
<1>2. CASE PrepareBid(c)
  <2>1. /\ pc[c] = "prepare" /\ c \notin bids /\ c \in DOMAIN req /\ KeyOf(c) \in Users \X Keys
        /\ Told(c) = idem[KeyOf(c)].bid
    BY <1>2, RequestTypes DEF PrepareBid, At, RowsComeInTime, Told, TypeOK
  <2>2. /\ outcome'[c] = "accepted" => idem[KeyOf(c)].status = "accepted"
        /\ outcome'[c] = "rejected" => idem[KeyOf(c)].status # "accepted"
    BY <1>2 DEF PrepareBid, Finish, Goto, Answer, Duplicate, Allowed, TypeOK
  <2>3. idem[KeyOf(c)].status = "accepted" => Told(c) \in bids /\ KeyOf(Told(c)) = KeyOf(c)
    BY <2>1 DEF AcceptancesHaveRows
  <2>4. ASSUME NEW b \in bids, KeyOf(b) = KeyOf(c), idem[KeyOf(c)].status # "accepted"
        PROVE  b # c /\ Excused(c, b)
    BY <2>1, <2>4, RepeatsAreTold
  <2> QED
    BY <2>2, <2>3, <2>4
<1>3. CASE outcome'[c] \in {"error", "none"}
  BY <1>3
<1>4. CASE pc[c] \in {"refuse", "release", "update"} /\ outcome'[c] = outcome[c]
  <2>1. outcome'[c] = "accepted" => Told(c) \in bids /\ KeyOf(Told(c)) = KeyOf(c)
    BY <1>4 DEF AnswersHaveGrounds, Told, At
  <2>2. ASSUME outcome'[c] = "rejected", NEW b \in bids, KeyOf(b) = KeyOf(c)
        PROVE  b # c /\ Excused(c, b)
    <3>1. pc[c] = "refuse"
      BY <1>4, <2>2 DEF AnswersHaveGrounds
    <3>2. c \in Counting /\ b \in Counting /\ c \notin bids
      BY <3>1 DEF Counting, Undecided, RowsComeInTime
    <3> QED
      BY <2>2, <3>2 DEF BidsOwnTheirKey
  <2> QED
    BY <2>1, <2>2
<1> QED
  BY <1>1, <1>2, <1>3, <1>4, AnsweringSteps

\* Every answer agrees with the bids table at its time, whatever fails: an
\* acceptance, first or repeated, names a row of the caller's key; a refusal is
\* not told beside the call's own row, nor to a retry whose key has an acceptance
\* on record (PlaceBid).
THEOREM AnswersTrue == Spec => AnswersAreTrue
<1>1. TypeOK /\ TruthInv /\ [Next]_vars => TruthInv'
  BY OwnStep, AnswerStep, RecordsStep DEF TruthInv
<1>2. Init => TruthInv
  BY OwnInit, AnswerInit, RecordsInit DEF TruthInv
<1>3. TypeOK /\ TruthInv /\ [Next]_vars => [\A c \in Calls : AnswersTruly(c)]_vars
  BY AnswersAreGiven
<1> QED
  BY <1>1, <1>2, <1>3, Typing, PTL DEF Spec, AnswersAreTrue

-----------------------------------------------------------------------------
\* What watchers are shown.

\* A call that updates watchers has its row, and what it shows is not above the price.
UpdatesAreBelow ==
    \A c \in Calls :
        /\ pc[c] \in {"highest", "update"} => c \in bids
        /\ pc[c] = "update" => highest[c] <= currentPrice[Auction(c)]

LEMMA PriceGrows ==
    ASSUME TypeOK, PriceInv, [Next]_vars
    PROVE  \A a \in Auctions : currentPrice'[a] \in Nat /\ currentPrice'[a] >= currentPrice[a]
<1>1. ASSUME UNCHANGED currentPrice
      PROVE  \A a \in Auctions : currentPrice'[a] \in Nat /\ currentPrice'[a] >= currentPrice[a]
  BY <1>1 DEF TypeOK
<1>2. ASSUME NEW c \in Calls, CreateBid(c) \/ CreateBidFails(c)
      PROVE  \A a \in Auctions : currentPrice'[a] \in Nat /\ currentPrice'[a] >= currentPrice[a]
  <2>1. c \in DOMAIN req /\ UNCHANGED req
    BY <1>2 DEF CreateBid, CreateBidFails, At, TypeOK
  <2>2. InsertBid(c) \/ UNCHANGED currentPrice
    BY <1>2 DEF CreateBid, CreateBidFails, dbVars
  <2> QED
    BY <1>1, <2>1, <2>2, InsertKeepsPrice DEF PriceInv
<1>3. ASSUME NEW a \in Auctions, AuctionStep(a) PROVE UNCHANGED currentPrice
  BY <1>3, CreateKeepsPrice DEF AuctionStep, UpdateAuctionStatus, PriceInv
<1> QED
  BY <1>1, <1>2, <1>3, StepKinds
     DEF Submit, CheckAuction, PrepareBid, PrepareBidFails, CompleteBid, Moves, vars, dbVars

\* The steps on the way to an update.
LEMMA UpdateKinds ==
    ASSUME TypeOK, [Next]_vars
    PROVE  \/ \E c \in Calls : ReadHighest(c) \/ PublishUpdate(c) \/ CompleteBid(c)
           \/ /\ UNCHANGED <<shown, highest>>
              /\ \A d \in Calls : pc'[d] \in {"highest", "update"} => pc'[d] = pc[d]
<1> DEFINE Other == /\ UNCHANGED <<shown, highest>>
                    /\ \A d \in Calls : pc'[d] \in {"highest", "update"} => pc'[d] = pc[d]
<1> USE DEF TypeOK, At, Goto, Finish
<1>1. ASSUME NEW c \in Calls, NEW r \in Requests, Submit(c, r) PROVE Other
  BY <1>1 DEF Submit
<1>2. ASSUME NEW c \in Calls, NEW late \in BOOLEAN, CheckAuction(c, late) PROVE Other
  BY <1>2 DEF CheckAuction
<1>3. ASSUME NEW c \in Calls, CheckAuctionFails(c) PROVE Other
  BY <1>3 DEF CheckAuctionFails
<1>4. ASSUME NEW c \in Calls, PrepareBid(c) \/ PrepareBidFails(c) PROVE Other
  BY <1>4 DEF PrepareBid, PrepareBidFails
<1>5. ASSUME NEW c \in Calls, NEW reply \in Replies,
             ValidateReply(c, reply) \/ ReserveReply(c, reply) PROVE Other
  BY <1>5 DEF ValidateReply, ReserveReply, TakeReply, Refuse
<1>6. ASSUME NEW c \in Calls, CreateBid(c) \/ CreateBidFails(c) PROVE Other
  BY <1>6 DEF CreateBid, CreateBidFails
<1>7. ASSUME NEW c \in Calls, ReleaseReservation(c) \/ Crash(c) PROVE Other
  BY <1>7 DEF ReleaseReservation, Crash
<1>8. ASSUME NEW a \in Auctions, AuctionStep(a) PROVE Other
  BY <1>8 DEF AuctionStep, CreateAuction, UpdateAuctionStatus, callVars
<1>9. ASSUME UNCHANGED vars PROVE Other
  BY <1>9 DEF vars, callVars
<1> HIDE DEF Other, TypeOK, At, Goto, Finish
<1>10. Other \/ \E c \in Calls : ReadHighest(c) \/ PublishUpdate(c) \/ CompleteBid(c)
  BY <1>1, <1>2, <1>3, <1>4, <1>5, <1>6, <1>7, <1>8, <1>9 DEF Next, CallStep
<1> QED
  BY <1>10 DEF Other

LEMMA UpdateStep ==
    ASSUME TypeOK, PriceInv, RowsComeInTime, UpdatesAreBelow, UpdateIsReached, [Next]_vars
    PROVE  UpdatesAreBelow' /\ UpdateIsReached'
<1>1. /\ \A a \in Auctions : /\ currentPrice[a] \in Nat /\ currentPrice'[a] \in Nat
                             /\ currentPrice'[a] >= currentPrice[a] /\ shown[a] \in Nat
      /\ \A c \in bids : /\ c \in Calls /\ c \in bids' /\ Auction(c) \in Auctions
                         /\ Auction(c)' = Auction(c)
                         /\ Amount(c) \in Nat /\ Amount(c) <= currentPrice[Auction(c)]
      /\ \A c \in Calls : highest[c] \in Nat
  <2>1. \A a \in Auctions : currentPrice'[a] \in Nat /\ currentPrice'[a] >= currentPrice[a]
    BY PriceGrows
  <2>2. \A c \in bids : c \in DOMAIN req
    BY DEF TypeOK
  <2>3. \A c \in bids : /\ c \in Calls /\ Auction(c) \in Auctions /\ Amount(c) \in Nat
                        /\ c \in bids' /\ Auction(c)' = Auction(c)
    BY <2>2, RequestTypes, RequestsStay, RowsStay
  <2>4. \A c \in bids : Amount(c) <= currentPrice[Auction(c)]
    BY <2>3 DEF PriceInv, PriceIsHighestBid, IsHighest, Prices, RowsOf
  <2> QED
    BY <2>1, <2>3, <2>4 DEF TypeOK
<1>2. ASSUME UNCHANGED shown PROVE UpdateIsReached'
  BY <1>1, <1>2 DEF UpdateIsReached
<1>3. ASSUME NEW c \in Calls, pc[c] \in {"highest", "update"}, highest'[c] = highest[c],
             pc'[c] = pc[c]
      PROVE  c \in bids' /\ (pc'[c] = "update" => highest'[c] <= currentPrice'[Auction(c)'])
  <2>1. c \in bids /\ (pc[c] = "update" => highest[c] <= currentPrice[Auction(c)])
    BY <1>3 DEF UpdatesAreBelow
  <2> QED
    BY <1>1, <1>3, <2>1
<1>4. ASSUME NEW c \in Calls, PublishUpdate(c) PROVE UpdatesAreBelow' /\ UpdateIsReached'
  <2>1. /\ c \in bids /\ highest[c] <= currentPrice[Auction(c)]
        /\ shown' = [shown EXCEPT ![Auction(c)] = highest[c]] /\ UNCHANGED highest
        /\ \A d \in Calls : pc'[d] \in {"highest", "update"} => pc'[d] = pc[d]
    BY <1>4 DEF PublishUpdate, UpdatesAreBelow, At, Goto, TypeOK
  <2>2. UpdateIsReached'
    BY <1>1, <2>1 DEF UpdateIsReached, TypeOK
  <2>3. UpdatesAreBelow'
    BY <1>3, <2>1 DEF UpdatesAreBelow, Auction
  <2> QED
    BY <2>2, <2>3
<1>5. ASSUME NEW c \in Calls, ReadHighest(c) PROVE UpdatesAreBelow' /\ UpdateIsReached'
  <2>1. /\ c \in bids /\ pc' = [pc EXCEPT ![c] = "update"] /\ UNCHANGED shown
        /\ \E b \in RowsOf(Auction(c)) \cup {c} : highest' = [highest EXCEPT ![c] = Amount(b)]
    BY <1>5 DEF ReadHighest, UpdatesAreBelow, At, Goto
  <2>2. PICK b \in bids : Auction(b) = Auction(c) /\ highest' = [highest EXCEPT ![c] = Amount(b)]
    BY <2>1 DEF RowsOf
  <2>3. /\ highest'[c] = Amount(b) /\ pc'[c] = "update"
        /\ \A d \in Calls \ {c} : highest'[d] = highest[d] /\ pc'[d] = pc[d]
    BY <2>1, <2>2 DEF TypeOK
  <2>4. c \in bids' /\ highest'[c] <= currentPrice'[Auction(c)']
    BY <1>1, <2>1, <2>2, <2>3
  <2>5. UpdatesAreBelow'
    BY <1>3, <2>3, <2>4 DEF UpdatesAreBelow, Auction
  <2> QED
    BY <1>2, <2>1, <2>5
<1>6. ASSUME NEW c \in Calls, CompleteBid(c) PROVE UpdatesAreBelow' /\ UpdateIsReached'
  <2>1. /\ UNCHANGED <<shown, highest>>
        /\ \A d \in Calls : pc'[d] = "update" => pc'[d] = pc[d]
        /\ \A d \in Calls : pc'[d] = "highest" => pc'[d] = pc[d] \/ pc[d] = "accept"
    BY <1>6 DEF CompleteBid, Completing, CompletedAt, At, Goto, TypeOK
  <2>2. \A d \in Calls : pc[d] = "accept" => d \in bids'
    BY <1>1 DEF RowsComeInTime
  <2>3. UpdatesAreBelow'
    BY <1>3, <2>1, <2>2 DEF UpdatesAreBelow, Auction
  <2> QED
    BY <1>2, <2>1, <2>3
<1>7. CASE /\ UNCHANGED <<shown, highest>>
           /\ \A d \in Calls : pc'[d] \in {"highest", "update"} => pc'[d] = pc[d]
  BY <1>2, <1>3, <1>7 DEF UpdatesAreBelow, Auction
<1> QED
  BY <1>4, <1>5, <1>6, <1>7, UpdateKinds

\* Watchers are never shown a price that no bid in the database has reached,
\* whatever fails and however the updates of two calls overtake each other
\* (publishAuctionUpdate in PlaceBid).
THEOREM UpdatesAreReached == Spec => []UpdateIsReached
<1> DEFINE ShownInv == PriceInv /\ AnswerInv /\ UpdatesAreBelow /\ UpdateIsReached
<1>1. Init => ShownInv
  <2>1. Init => UpdatesAreBelow /\ UpdateIsReached
    BY ConstantsAssumption DEF Init, UpdatesAreBelow, UpdateIsReached
  <2> QED
    BY <2>1, PriceInit, AnswerInit
<1>2. TypeOK /\ ShownInv /\ [Next]_vars => ShownInv'
  BY PriceStep, AnswerStep, UpdateStep DEF AnswerInv
<1>3. ShownInv => UpdateIsReached
  OBVIOUS
<1> HIDE DEF ShownInv
<1> QED
  BY <1>1, <1>2, <1>3, Typing, PTL DEF Spec

-----------------------------------------------------------------------------
\* Bids keep their distance when a failed commit has not happened.

NoAmbiguity == "ambiguous" \notin Faults

GuardInv == PriceInv /\ BidsOwnTheirKey /\ UndecidedHaveNoRow /\ RedisGuards

LEMMA NoRowStep ==
    ASSUME NoAmbiguity, TypeOK, BidsOwnTheirKey, UndecidedHaveNoRow, [Next]_vars
    PROVE  UndecidedHaveNoRow'
<1>1. ASSUME NEW c \in Calls, PrepareBid(c), Allowed(c) PROVE UndecidedHaveNoRow'
  BY <1>1, CountingGrows DEF UndecidedHaveNoRow, BidsOwnTheirKey, Counting, Duplicate, dbVars
<1>2. CASE ~ \E c \in Calls : PrepareBid(c) /\ Allowed(c)
  <2>1. Undecided' \subseteq Undecided
    BY <1>2, CountingShrinks
  <2>2. ASSUME NEW c \in Calls, CreateBid(c) \/ CreateBidFails(c) PROVE UndecidedHaveNoRow'
    BY <2>1, <2>2
       DEF NoAmbiguity, UndecidedHaveNoRow, CreateBid, CreateBidFails, InsertBid, Goto, Undecided,
           TypeOK, dbVars
  <2>3. bids' = bids => UndecidedHaveNoRow'
    BY <2>1 DEF UndecidedHaveNoRow
  <2> QED
    BY <2>2, <2>3, StepKinds
       DEF Submit, CheckAuction, PrepareBid, PrepareBidFails, CompleteBid, Moves, AuctionStep,
           CreateAuction, UpdateAuctionStatus, vars, dbVars
<1> QED
  BY <1>1, <1>2

\* The parts of the guard that an unchanged or smaller set of calls keeps.
LEMMA GuardFrame ==
    ASSUME TypeOK, [Next]_vars, BidsOwnTheirKey, RedisGuards,
           Counting' \subseteq Counting, Undecided' \subseteq Undecided,
           NEW a \in Auctions, MinIncrement[a] > 0
    PROVE  /\ CountingAreApart(a)' /\ UndoIsSafe(a)'
           /\ bidState'[a] = bidState[a] => TopIsNamed(a)' /\ CountingAreBelow(a)'
<1>1. \A d \in DOMAIN req : /\ d \in DOMAIN req' /\ KeyOf(d)' = KeyOf(d)
                            /\ Auction(d)' = Auction(d) /\ Amount(d)' = Amount(d)
                            /\ KeyOf(d) \in Users \X Keys
  BY RequestsStay, RequestTypes
<1>2. /\ Counting \subseteq DOMAIN req /\ Undecided \subseteq Counting
      /\ TopIsNamed(a) /\ CountingAreBelow(a) /\ CountingAreApart(a) /\ UndoIsSafe(a)
  BY CountingTypes DEF Counting, RedisGuards
<1>3. CountingAreApart(a)'
  BY <1>1, <1>2 DEF CountingAreApart, Apart
<1>4. UndoIsSafe(a)'
  <2> SUFFICES ASSUME NEW c \in Undecided', Auction(c)' = a
               PROVE  /\ Named(a, idem[KeyOf(c)].prevPrice, idem[KeyOf(c)].prevBid)'
                      /\ \A d \in Counting' \ {c} : Auction(d)' = a =>
                            \/ Amount(d)' <= idem'[KeyOf(c)'].prevPrice
                            \/ Amount(d)' >= Amount(c)' + MinIncrement[a]
    BY DEF UndoIsSafe
  <2>1. c \in Undecided /\ c \in DOMAIN req /\ Auction(c) = a
    BY <1>1, <1>2
  <2>2. /\ idem'[KeyOf(c)].prevPrice = idem[KeyOf(c)].prevPrice
        /\ idem'[KeyOf(c)].prevBid = idem[KeyOf(c)].prevBid
        /\ KeyOf(c)' = KeyOf(c)
    BY <1>1, <1>2, <2>1, RecordsStay DEF BidsOwnTheirKey
  <2>3. /\ Named(a, idem[KeyOf(c)].prevPrice, idem[KeyOf(c)].prevBid)
        /\ \A d \in Counting \ {c} : Auction(d) = a =>
              Amount(d) <= idem[KeyOf(c)].prevPrice \/ Amount(d) >= Amount(c) + MinIncrement[a]
    BY <1>2, <2>1 DEF UndoIsSafe
  <2>4. Named(a, idem[KeyOf(c)].prevPrice, idem[KeyOf(c)].prevBid)'
    BY <1>1, <2>2, <2>3 DEF Named
  <2> QED
    BY <1>1, <1>2, <2>1, <2>2, <2>3, <2>4
<1>5. ASSUME bidState'[a] = bidState[a] PROVE TopIsNamed(a)' /\ CountingAreBelow(a)'
  BY <1>1, <1>2, <1>5 DEF TopIsNamed, Named, CountingAreBelow
<1> QED
  BY <1>3, <1>4, <1>5

\* The price against which a bid is prepared covers the auction.
LEMMA CurrentCovers ==
    ASSUME TypeOK, PriceInv, RedisGuards, NEW c \in Calls, pc[c] = "prepare",
           MinIncrement[Auction(c)] > 0
    PROVE  /\ c \in DOMAIN req /\ Current(c) \in Nat
           /\ Named(Auction(c), Current(c), bidState[Auction(c)].bid)
           /\ \A d \in Counting : Auction(d) = Auction(c) => Amount(d) <= Current(c)
<1>1. PICK a \in Auctions : a = Auction(c)
  BY RequestTypes DEF TypeOK
<1>2. /\ c \in DOMAIN req /\ StartPrice[a] \in Nat /\ currentPrice[a] \in Nat /\ seen[c] \in Nat
      /\ StartPrice[a] <= seen[c] /\ seen[c] <= currentPrice[a]
      /\ TopIsNamed(a) /\ CountingAreBelow(a)
      /\ \A d \in Counting : Amount(d) \in Nat
  BY <1>1, ConstantsAssumption, CountingTypes, RequestTypes
     DEF PriceInv, SeenIsOld, RedisGuards, TypeOK
<1>3. CASE bidState[a] = NoState
  <2>1. bidState[a].price = -1 /\ bidState[a].bid = NoBid
    BY <1>3 DEF NoState, NoPrice
  <2>2. Current(c) = seen[c]
    BY <1>1, <1>2, <2>1 DEF Current
  <2>3. \A d \in Counting : Auction(d) # a
    BY <1>2, <2>1 DEF CountingAreBelow
  <2> QED
    BY <1>1, <1>2, <2>1, <2>2, <2>3 DEF Named
<1>4. CASE Named(a, bidState[a].price, bidState[a].bid)
  <2>1. bidState[a].price \in Nat
    <3>1. bidState[a].price \in Nat \cup {-1}
      BY DEF TypeOK, State, NoPrice
    <3> QED
      BY <1>2, <1>4, <3>1 DEF Named
  <2>2. currentPrice[a] <= bidState[a].price
    <3>1. currentPrice[a] = StartPrice[a] \/ \E b \in bids : Auction(b) = a /\ currentPrice[a] = Amount(b)
      BY DEF PriceInv, PriceIsHighestBid, IsHighest, Prices, RowsOf
    <3> QED
      BY <1>2, <1>4, <3>1 DEF Named, CountingAreBelow, Counting
  <2>3. Current(c) = bidState[a].price
    BY <1>1, <1>2, <2>1, <2>2 DEF Current
  <2> QED
    BY <1>1, <1>2, <1>4, <2>1, <2>3 DEF CountingAreBelow
<1> QED
  BY <1>2, <1>3, <1>4 DEF TopIsNamed

\* A bid that is let in rises above all that count.
LEMMA GuardPrepare ==
    ASSUME TypeOK, PriceInv, BidsOwnTheirKey, RedisGuards, [Next]_vars,
           NEW c \in Calls, PrepareBid(c), Allowed(c)
    PROVE  RedisGuards'
<1>1. PICK a \in Auctions : a = Auction(c)
  BY RequestTypes DEF TypeOK, PrepareBid, At
<1>2. /\ Counting' = Counting \cup {c} /\ Undecided' = Undecided \cup {c}
      /\ c \in DOMAIN req /\ pc[c] = "prepare" /\ PrepareScript(c) /\ ~Duplicate(c)
      /\ c \notin Counting
  BY CountingGrows DEF BidsOwnTheirKey, Duplicate
<1>3. /\ \A b \in Auctions \ {a} : bidState'[b] = bidState[b]
      /\ bidState'[a] = [price |-> Amount(c), bid |-> c]
      /\ idem'[KeyOf(c)].prevPrice = Current(c)
      /\ idem'[KeyOf(c)].prevBid = bidState[a].bid
  BY <1>1, <1>2, PrepareEffect
<1>4. \A d \in DOMAIN req : /\ d \in DOMAIN req' /\ KeyOf(d)' = KeyOf(d)
                            /\ Auction(d)' = Auction(d) /\ Amount(d)' = Amount(d)
                            /\ KeyOf(d) \in Users \X Keys /\ Amount(d) \in Nat
  BY RequestsStay, RequestTypes
<1>5. \A d \in Undecided : /\ idem'[KeyOf(d)].prevPrice = idem[KeyOf(d)].prevPrice
                           /\ idem'[KeyOf(d)].prevBid = idem[KeyOf(d)].prevBid
  BY <1>4, CountingTypes, RecordsStay DEF BidsOwnTheirKey, Counting
<1>6. Counting \subseteq DOMAIN req /\ Undecided \subseteq Counting
  BY CountingTypes DEF Counting
<1>7. ASSUME NEW b \in Auctions \ {a}, MinIncrement[b] > 0
      PROVE  (TopIsNamed(b) /\ CountingAreBelow(b) /\ CountingAreApart(b) /\ UndoIsSafe(b))'
  <2>1. TopIsNamed(b) /\ CountingAreBelow(b) /\ CountingAreApart(b) /\ UndoIsSafe(b)
    BY <1>7 DEF RedisGuards
  <2>2. Auction(c) # b /\ Auction(c)' = Auction(c) /\ bidState'[b] = bidState[b]
    BY <1>1, <1>2, <1>3, <1>4
  <2>3. TopIsNamed(b)' /\ CountingAreBelow(b)'
    BY <1>2, <1>4, <1>6, <2>1, <2>2 DEF TopIsNamed, Named, CountingAreBelow
  <2>4. CountingAreApart(b)'
    BY <1>2, <1>4, <1>6, <2>1, <2>2 DEF CountingAreApart, Apart
  <2>5. UndoIsSafe(b)'
    BY <1>2, <1>4, <1>5, <1>6, <2>1, <2>2 DEF UndoIsSafe, Named
  <2> QED
    BY <2>3, <2>4, <2>5
<1>8. ASSUME MinIncrement[a] > 0
      PROVE  (TopIsNamed(a) /\ CountingAreBelow(a) /\ CountingAreApart(a) /\ UndoIsSafe(a))'
  <2>1. /\ CountingAreApart(a) /\ UndoIsSafe(a)
        /\ Current(c) \in Nat /\ Named(a, Current(c), bidState[a].bid)
        /\ \A d \in Counting : Auction(d) = a => Amount(d) <= Current(c)
    BY <1>1, <1>2, <1>8, CurrentCovers DEF RedisGuards
  <2>2. Amount(c) >= Current(c) + MinIncrement[a] /\ MinIncrement[a] \in Nat
    BY <1>1, ConstantsAssumption DEF Allowed
  <2>3. TopIsNamed(a)'
    BY <1>1, <1>2, <1>3, <1>4, <2>1, <2>2, ConstantsAssumption DEF TopIsNamed, Named
  <2>4. CountingAreBelow(a)'
    BY <1>2, <1>3, <1>4, <1>6, <1>8, <2>1, <2>2 DEF CountingAreBelow
  <2>5. \A d \in Counting : Auction(d) = a => Amount(c) >= Amount(d) + MinIncrement[a]
    BY <1>2, <1>4, <1>6, <2>1, <2>2
  <2>6. CountingAreApart(a)'
    BY <1>1, <1>2, <1>4, <1>6, <2>1, <2>5 DEF CountingAreApart, Apart
  <2>7. UndoIsSafe(a)'
    <3>1. ASSUME NEW d \in Undecided, Auction(d)' = a
          PROVE  /\ Named(a, idem[KeyOf(d)].prevPrice, idem[KeyOf(d)].prevBid)'
                 /\ \A e \in Counting' \ {d} : Auction(e)' = a =>
                       \/ Amount(e)' <= idem'[KeyOf(d)'].prevPrice
                       \/ Amount(e)' >= Amount(d)' + MinIncrement[a]
      BY <1>2, <1>4, <1>5, <1>6, <2>1, <2>5, <3>1 DEF UndoIsSafe, Named
    <3>2. /\ Named(a, idem[KeyOf(c)].prevPrice, idem[KeyOf(c)].prevBid)'
          /\ \A e \in Counting' \ {c} : Auction(e)' = a => Amount(e)' <= idem'[KeyOf(c)'].prevPrice
      BY <1>2, <1>3, <1>4, <1>6, <2>1 DEF Named
    <3> QED
      BY <1>2, <3>1, <3>2 DEF UndoIsSafe
  <2> QED
    BY <2>3, <2>4, <2>6, <2>7
<1> QED
  BY <1>7, <1>8 DEF RedisGuards

\* A refusal puts back a price that covers the bids that remain.
LEMMA GuardComplete ==
    ASSUME NoAmbiguity, TypeOK, BidsOwnTheirKey, UndecidedHaveNoRow, RedisGuards, [Next]_vars,
           NEW c \in Calls, CompleteBid(c), Counting' \subseteq Counting,
           Undecided' \subseteq Undecided
    PROVE  RedisGuards'
<1>1. PICK a \in Auctions : a = Auction(c)
  BY RequestTypes DEF TypeOK, CompleteBid, Completing
<1>2. /\ c \in DOMAIN req /\ pc'[c] \in {"highest", "done", "release"} /\ bids' = bids
  BY DEF CompleteBid, Completing, CompletedAt, Goto, At, TypeOK, dbVars
<1>3. CASE UNCHANGED bidState
  BY <1>3, GuardFrame DEF RedisGuards
<1>4. CASE ~UNCHANGED bidState
  <2>1. PICK verdict \in {"accepted", "rejected"} :
           /\ verdict = IF At(c, "accept") THEN "accepted" ELSE "rejected"
           /\ CompleteScript(c, verdict)
    BY <1>4 DEF CompleteBid, redisVars
  <2>2. /\ verdict = "rejected" /\ bidState[a].bid = c
        /\ \A b \in Auctions \ {a} : bidState'[b] = bidState[b]
        /\ bidState'[a] = [price |-> idem[KeyOf(c)].prevPrice, bid |-> idem[KeyOf(c)].prevBid]
    BY <1>1, <1>2, <1>4, <2>1, CompleteEffect
  <2>3. c \in Undecided /\ c \notin Counting'
    BY <1>2, <2>1, <2>2 DEF CompleteBid, Completing, At, Undecided, UndecidedHaveNoRow, Counting
  <2>4. \A d \in DOMAIN req : /\ d \in DOMAIN req' /\ Auction(d)' = Auction(d)
                              /\ Amount(d)' = Amount(d) /\ Amount(d) \in Nat
    BY RequestsStay, RequestTypes
  <2>5. ASSUME MinIncrement[a] > 0 PROVE TopIsNamed(a)' /\ CountingAreBelow(a)'
    <3>1. /\ Named(a, idem[KeyOf(c)].prevPrice, idem[KeyOf(c)].prevBid)
          /\ \A d \in Counting \ {c} : Auction(d) = a =>
                Amount(d) <= idem[KeyOf(c)].prevPrice \/ Amount(d) >= Amount(c) + MinIncrement[a]
      BY <1>1, <2>3, <2>5 DEF RedisGuards, UndoIsSafe
    <3>2. Amount(c) = bidState[a].price /\ CountingAreBelow(a)
      BY <2>2, <2>5, ConstantsAssumption DEF RedisGuards, TopIsNamed, Named, NoState
    <3>3. \A d \in Counting' : Auction(d) = a => Amount(d) <= idem[KeyOf(c)].prevPrice
      <4> SUFFICES ASSUME NEW d \in Counting', Auction(d) = a
                   PROVE  Amount(d) <= idem[KeyOf(c)].prevPrice
        OBVIOUS
      <4>1. d \in Counting \ {c} /\ d \in DOMAIN req
        BY <2>3, CountingTypes
      <4>2. Amount(d) <= Amount(c) /\ Amount(d) \in Nat /\ Amount(c) \in Nat
        BY <1>2, <2>4, <3>2, <4>1 DEF CountingAreBelow
      <4> QED
        BY <2>5, <3>1, <4>1, <4>2, ConstantsAssumption
    <3> QED
      BY <2>2, <2>4, <3>1, <3>3, CountingTypes DEF TopIsNamed, Named, CountingAreBelow
  <2>6. ASSUME NEW b \in Auctions, MinIncrement[b] > 0
        PROVE  (TopIsNamed(b) /\ CountingAreBelow(b) /\ CountingAreApart(b) /\ UndoIsSafe(b))'
    BY <2>2, <2>5, <2>6, GuardFrame
  <2> QED
    BY <2>6 DEF RedisGuards
<1> QED
  BY <1>3, <1>4

\* A preparation that lets nothing in, or whose answer is lost, only raises the
\* price in Redis.
LEMMA GuardRefuse ==
    ASSUME TypeOK, PriceInv, BidsOwnTheirKey, RedisGuards, [Next]_vars,
           NEW c \in Calls, pc[c] = "prepare", PrepareScript(c),
           Counting' \subseteq Counting, Undecided' \subseteq Undecided
    PROVE  RedisGuards'
<1>1. PICK a \in Auctions : a = Auction(c)
  BY RequestTypes DEF TypeOK
<1>2. CASE UNCHANGED bidState
  BY <1>2, GuardFrame DEF RedisGuards
<1>3. CASE ~UNCHANGED bidState
  <2>1. /\ \A b \in Auctions \ {a} : bidState'[b] = bidState[b]
        /\ \/ bidState'[a] = [price |-> Current(c), bid |-> bidState[a].bid]
           \/ Allowed(c) /\ bidState'[a] = [price |-> Amount(c), bid |-> c]
    BY <1>1, <1>3, PrepareEffect
  <2>2. \A d \in DOMAIN req : /\ d \in DOMAIN req' /\ Auction(d)' = Auction(d)
                              /\ Amount(d)' = Amount(d) /\ Amount(d) \in Nat
    BY RequestsStay, RequestTypes
  <2>3. ASSUME MinIncrement[a] > 0 PROVE TopIsNamed(a)' /\ CountingAreBelow(a)'
    <3>1. /\ c \in DOMAIN req /\ Current(c) \in Nat /\ Named(a, Current(c), bidState[a].bid)
          /\ \A d \in Counting : Auction(d) = a => Amount(d) <= Current(c)
      BY <1>1, <2>3, CurrentCovers
    <3>2. CASE bidState'[a] = [price |-> Current(c), bid |-> bidState[a].bid]
      BY <2>2, <3>1, <3>2, CountingTypes DEF TopIsNamed, Named, CountingAreBelow
    <3>3. CASE Allowed(c) /\ bidState'[a] = [price |-> Amount(c), bid |-> c]
      <4>1. Amount(c) >= Current(c) /\ Amount(c) \in Nat /\ StartPrice[a] \in Nat
        BY <1>1, <2>2, <3>1, <3>3, ConstantsAssumption DEF Allowed
      <4>2. \A d \in Counting' : Auction(d)' = a => Amount(d)' <= Amount(c)
        BY <2>2, <3>1, <4>1, CountingTypes
      <4>3. StartPrice[a] <= Amount(c)
        BY <3>1, <4>1 DEF Named
      <4> QED
        BY <1>1, <2>2, <3>1, <3>3, <4>2, <4>3 DEF TopIsNamed, Named, CountingAreBelow
    <3> QED
      BY <2>1, <3>2, <3>3
  <2>4. ASSUME NEW b \in Auctions, MinIncrement[b] > 0
        PROVE  (TopIsNamed(b) /\ CountingAreBelow(b) /\ CountingAreApart(b) /\ UndoIsSafe(b))'
    BY <2>1, <2>3, <2>4, GuardFrame
  <2> QED
    BY <2>4 DEF RedisGuards
<1> QED
  BY <1>2, <1>3

LEMMA GuardInit == Init => GuardInv
<1> SUFFICES ASSUME Init PROVE UndecidedHaveNoRow /\ RedisGuards
  BY PriceInit, OwnInit DEF GuardInv
<1>1. Undecided = {} /\ Counting = {} /\ \A a \in Auctions : bidState[a] = NoState
  BY DEF Init, Undecided, Counting
<1> QED
  BY <1>1 DEF UndecidedHaveNoRow, RedisGuards, TopIsNamed, CountingAreBelow,
              CountingAreApart, UndoIsSafe

LEMMA GuardStep == NoAmbiguity /\ TypeOK /\ GuardInv /\ [Next]_vars => GuardInv'
<1> SUFFICES ASSUME NoAmbiguity, TypeOK, GuardInv, [Next]_vars PROVE RedisGuards'
  BY PriceStep, OwnStep, NoRowStep DEF GuardInv
<1>1. PriceInv /\ BidsOwnTheirKey /\ UndecidedHaveNoRow /\ RedisGuards
  BY DEF GuardInv
<1>2. ASSUME NEW c \in Calls, PrepareBid(c), Allowed(c) PROVE RedisGuards'
  BY <1>1, <1>2, GuardPrepare
<1>3. CASE ~ \E c \in Calls : PrepareBid(c) /\ Allowed(c)
  <2>1. Counting' \subseteq Counting /\ Undecided' \subseteq Undecided
    BY <1>3, CountingShrinks
  <2>2. CASE UNCHANGED bidState
    BY <1>1, <2>1, <2>2, GuardFrame DEF RedisGuards
  <2>3. ASSUME NEW c \in Calls, CompleteBid(c) PROVE RedisGuards'
    BY <1>1, <2>1, <2>3, GuardComplete
  <2>4. ASSUME NEW c \in Calls, PrepareBid(c) \/ PrepareBidFails(c), ~UNCHANGED bidState
        PROVE  RedisGuards'
    <3>1. pc[c] = "prepare" /\ PrepareScript(c)
      BY <2>4 DEF PrepareBid, PrepareBidFails, At, redisVars
    <3> QED
      BY <1>1, <2>1, <3>1, GuardRefuse
  <2> QED
    BY <2>2, <2>3, <2>4, StepKinds
       DEF Submit, CheckAuction, CreateBid, CreateBidFails, Moves, AuctionStep, CreateAuction,
           UpdateAuctionStatus, vars, redisVars
<1> QED
  BY <1>2, <1>3

LEMMA GuardMeansApart == TypeOK /\ GuardInv => BidsKeepIncrement
<1> SUFFICES ASSUME TypeOK, GuardInv, NEW c \in bids, NEW d \in bids, c # d, Auction(c) = Auction(d)
             PROVE  Apart(c, d)
  BY DEF BidsKeepIncrement
<1>1. /\ c \in DOMAIN req /\ d \in DOMAIN req /\ c \in Counting /\ d \in Counting
      /\ Amount(c) \in Nat /\ Amount(d) \in Nat /\ MinIncrement[Auction(c)] \in Nat
      /\ Auction(c) \in Auctions
  BY RequestTypes, ConstantsAssumption DEF TypeOK, Counting
<1>2. CASE MinIncrement[Auction(c)] = 0
  BY <1>1, <1>2 DEF Apart
<1>3. CASE MinIncrement[Auction(c)] > 0
  BY <1>1, <1>3 DEF GuardInv, RedisGuards, CountingAreApart
<1> QED
  BY <1>1, <1>2, <1>3

\* Accepted bids are a minimum increment apart, although each is let in against
\* a price in Redis that refusals take back in any order.
THEOREM BidsStayApart == NoAmbiguity => (Spec => []BidsKeepIncrement)
<1> SUFFICES ASSUME NoAmbiguity PROVE Spec => []BidsKeepIncrement
  OBVIOUS
<1>1. TypeOK /\ GuardInv /\ [Next]_vars => GuardInv'
  BY GuardStep
<1>2. Spec => []GuardInv
  BY <1>1, Typing, GuardInit, PTL DEF Spec
<1> QED
  BY <1>2, Typing, GuardMeansApart, PTL

\* Redis covers every bid that has or may get a row, now and after any undo, under
\* the same assumption: the invariant the theorem above rests on (prepareBidScript,
\* completeBidScript).
THEOREM PricesStayGuarded == NoAmbiguity => (Spec => []PricesAreGuarded)
<1> SUFFICES ASSUME NoAmbiguity PROVE Spec => []PricesAreGuarded
  OBVIOUS
<1>1. TypeOK /\ GuardInv /\ [Next]_vars => GuardInv'
  BY GuardStep
<1>2. GuardInv => PricesAreGuarded
  BY DEF GuardInv, PriceInv, PricesAreGuarded
<1> QED
  BY <1>1, <1>2, Typing, GuardInit, PTL DEF Spec

-----------------------------------------------------------------------------
\* The verdicts in Redis when a failed commit has not happened.

\* The call of a refusal on record can get no row any more.
RefusalsAreOver ==
    \A k \in Users \X Keys : idem[k].status = "rejected" =>
        idem[k].bid \notin bids /\ \A c \in Calls : idem[k].bid = c => pc[c] \in {"release", "done"}

LEMMA OverStays ==
    ASSUME TypeOK, [Next]_vars, NEW c \in Calls, pc[c] \in {"release", "done"}
    PROVE  pc'[c] \in {"release", "done"}
<1> USE DEF TypeOK, At, Goto, Finish
<1>1. ASSUME NEW d \in Calls, NEW r \in Requests, Submit(d, r) PROVE pc'[c] \in {"release", "done"}
  BY <1>1 DEF Submit
<1>2. ASSUME NEW d \in Calls, NEW late \in BOOLEAN, CheckAuction(d, late)
      PROVE  pc'[c] \in {"release", "done"}
  BY <1>2 DEF CheckAuction
<1>3. ASSUME NEW d \in Calls, PrepareBid(d) \/ PrepareBidFails(d)
      PROVE  pc'[c] \in {"release", "done"}
  BY <1>3 DEF PrepareBid, PrepareBidFails
<1>4. ASSUME NEW d \in Calls, CreateBid(d) \/ CreateBidFails(d)
      PROVE  pc'[c] \in {"release", "done"}
  BY <1>4 DEF CreateBid, CreateBidFails
<1>5. ASSUME NEW d \in Calls, CompleteBid(d) PROVE pc'[c] \in {"release", "done"}
  BY <1>5 DEF CompleteBid, Completing, CompletedAt
<1>6. ASSUME NEW d \in Calls, Moves(d) PROVE pc'[c] \in {"release", "done"}
  BY <1>6 DEF Moves
<1> QED
  BY <1>1, <1>2, <1>3, <1>4, <1>5, <1>6, StepKinds
     DEF AuctionStep, CreateAuction, UpdateAuctionStatus, vars, callVars

LEMMA RefusalStep ==
    ASSUME TypeOK, RowsComeInTime, UndecidedHaveNoRow, RefusalsAreOver, [Next]_vars
    PROVE  RefusalsAreOver'
<1>1. ASSUME NEW k \in Users \X Keys, idem'[k] = idem[k], idem[k].status = "rejected"
      PROVE  /\ idem'[k].bid \notin bids'
             /\ \A c \in Calls : idem'[k].bid = c => pc'[c] \in {"release", "done"}
  <2>1. /\ idem[k].bid \notin bids
        /\ \A c \in Calls : idem[k].bid = c => pc[c] \in {"release", "done"}
    BY <1>1 DEF RefusalsAreOver
  <2>2. idem[k].bid \notin bids'
    BY <2>1, RowsAreInserted
  <2> QED
    BY <1>1, <2>1, <2>2, OverStays
<1>2. CASE UNCHANGED idem
  BY <1>1, <1>2 DEF RefusalsAreOver
<1>3. ASSUME NEW c \in Calls, c \notin bids', pc'[c] \in {"release", "done"},
             \A k \in Users \X Keys :
                idem'[k] = idem[k] \/ (idem'[k].status = "rejected" => idem'[k].bid = c)
      PROVE  RefusalsAreOver'
  BY <1>1, <1>3 DEF RefusalsAreOver
<1>4. ASSUME NEW c \in Calls, PrepareBid(c) \/ PrepareBidFails(c) PROVE RefusalsAreOver'
  <2>1. CASE PrepareScript(c)
    <3>1. pc[c] = "prepare" /\ bids' = bids /\ c \notin bids
      BY <1>4 DEF PrepareBid, PrepareBidFails, At, RowsComeInTime, dbVars
    <3>2. pc'[c] = "done" \/ Allowed(c)
      BY <1>4 DEF PrepareBid, PrepareBidFails, Finish, Goto, TypeOK
    <3>3. CASE Allowed(c)
      <4>1. \A k \in Users \X Keys : idem'[k] = idem[k] \/ idem'[k].status # "rejected"
        BY <2>1, <3>1, <3>3, PrepareVerdict
      <4> QED
        BY <1>1, <4>1 DEF RefusalsAreOver
    <3>4. CASE ~Allowed(c)
      <4>1. \A k \in Users \X Keys : idem'[k] = idem[k] \/ idem'[k].bid = c
        BY <2>1, <3>1, <3>4, PrepareVerdict
      <4> QED
        BY <1>3, <3>1, <3>2, <3>4, <4>1
    <3> QED
      BY <3>3, <3>4
  <2> QED
    BY <1>2, <1>4, <2>1 DEF PrepareBid, PrepareBidFails, redisVars
<1>5. ASSUME NEW c \in Calls, CompleteBid(c) PROVE RefusalsAreOver'
  <2>1. c \in DOMAIN req
    BY <1>5 DEF CompleteBid, Completing, TypeOK
  <2>2. CASE At(c, "accept")
    <3>1. \A k \in Users \X Keys : idem'[k] = idem[k] \/ idem'[k].status = "accepted"
      BY <1>5, <2>1, <2>2, CompleteVerdict DEF CompleteBid, redisVars
    <3> QED
      BY <1>1, <3>1 DEF RefusalsAreOver
  <2>3. CASE pc[c] \in {"refuse", "undo"}
    <3>1. \A k \in Users \X Keys : idem'[k] = idem[k] \/ idem'[k].bid = c
      BY <1>5, <2>1, <2>3, CompleteVerdict DEF CompleteBid, redisVars, At
    <3>2. c \notin bids' /\ pc'[c] \in {"release", "done"}
      BY <1>5, <2>3
         DEF CompleteBid, CompletedAt, At, Goto, TypeOK, UndecidedHaveNoRow, Undecided, dbVars
    <3> QED
      BY <1>3, <3>1, <3>2
  <2> QED
    BY <1>5, <2>2, <2>3 DEF CompleteBid, Completing, At
<1> QED
  BY <1>2, <1>4, <1>5, StepKinds
     DEF Submit, CheckAuction, CreateBid, CreateBidFails, Moves, AuctionStep, CreateAuction,
         UpdateAuctionStatus, vars, redisVars

\* The verdict on record for a key is the one in the database, if no commit is
\* reported as failed although it happened (completeBidScript).
THEOREM RecordsAreTrue == NoAmbiguity => (Spec => []RecordsMatchRows)
<1> SUFFICES ASSUME NoAmbiguity PROVE Spec => []RecordsMatchRows
  OBVIOUS
<1> DEFINE VerdictInv == BidsOwnTheirKey /\ UndecidedHaveNoRow /\ AnswerInv /\ RefusalsAreOver
<1>1. Init => VerdictInv
  <2>1. Init => UndecidedHaveNoRow /\ RefusalsAreOver
    BY DEF Init, UndecidedHaveNoRow, Undecided, RefusalsAreOver, NoRecord
  <2> QED
    BY <2>1, OwnInit, AnswerInit
<1>2. TypeOK /\ VerdictInv /\ [Next]_vars => VerdictInv'
  BY OwnStep, NoRowStep, AnswerStep, RefusalStep DEF AnswerInv
<1>3. VerdictInv => RecordsMatchRows
  BY DEF AnswerInv, AcceptancesHaveRows, RefusalsAreOver, RecordsMatchRows
<1> HIDE DEF VerdictInv
<1> QED
  BY <1>1, <1>2, <1>3, Typing, PTL DEF Spec

-----------------------------------------------------------------------------
\* The bids table is an auction book.

LEMMA BookInit == Init => Book!Init
  BY DEF Init, Book!Init

\* A step that inserts no row and changes no price stutters.
LEMMA BookStutters ==
    ASSUME TypeOK, [Next]_vars, UNCHANGED <<bids, currentPrice>>
    PROVE  UNCHANGED Book!vars
<1>1. \A d \in bids : Row(d)' = Row(d)
  BY RequestsStay DEF Row, TypeOK
<1> QED
  BY <1>1 DEF Book!vars

\* The row a call inserts is one that the book may accept.
LEMMA BookAccepts ==
    ASSUME TypeOK, TypeOK', PriceIsHighestBid, NEW c \in Calls, CreateBid(c), c \notin bids,
           OneBidPerKey', BidsKeepIncrement'
    PROVE  Book!Next
<1>1. /\ c \in DOMAIN req /\ InsertBid(c) /\ UNCHANGED req
      /\ bids' = bids \cup {c} /\ bids \subseteq DOMAIN req
  BY DEF CreateBid, InsertBid, At, TypeOK
<1>2. /\ KeyOf(c) \in Users \X Keys /\ Auction(c) \in Auctions /\ Amount(c) \in Nat
      /\ Amount(c) \in {r.amount : r \in Requests}
      /\ \A d \in bids : Auction(d) \in Auctions /\ Amount(d) \in Nat
  BY <1>1, RequestTypes
<1>3. \A d \in bids : KeyOf(d) # KeyOf(c)
  <2>1. \A d \in bids' : KeyOf(d)' = KeyOf(d)
    BY <1>1 DEF KeyOf
  <2> QED
    BY <1>1, <2>1 DEF OneBidPerKey
<1>4. \A d \in bids : Auction(d) = Auction(c) => Apart(c, d)
  BY <1>1 DEF BidsKeepIncrement, Apart, Auction, Amount
<1>5. {Row(d) : d \in bids}' = {Row(d) : d \in bids} \cup {Row(c)}
  BY <1>1 DEF Row, KeyOf, Auction, Amount
<1>6. currentPrice' = [currentPrice EXCEPT ![Auction(c)] =
                          IF @ < Amount(c) THEN Amount(c) ELSE @]
  <2>1. PICK a \in Auctions : a = Auction(c)
    BY <1>2
  <2> DEFINE p == currentPrice[a]
             q == Amount(c)
  <2>2. p \in Int /\ q \in Int
    BY <1>2, <2>1 DEF TypeOK
  <2>3. currentPrice' = [currentPrice EXCEPT ![a] = Max({p, q})]
    BY <1>1, <2>1 DEF InsertBid
  <2> HIDE DEF p, q
  <2>4. Max({p, q}) = IF p < q THEN q ELSE p
    <3>1. PICK m : m = Max({p, q}) /\ m \in {p, q} /\ p <= m /\ q <= m
      BY <2>2, MaxOfTwo
    <3> QED
      BY <2>2, <3>1
  <2> QED
    BY <2>1, <2>3, <2>4 DEF p, q
<1> DEFINE b == [owner |-> KeyOf(c), auction |-> Auction(c), amount |-> Amount(c)]
<1>7. Book!Accept(b)
  <2>1. \A d \in {Row(d) : d \in bids} : d.owner # b.owner
    BY <1>3 DEF Row
  <2>2. \A d \in {Row(d) : d \in bids} : d.auction = b.auction => Book!Apart(b, d)
    BY <1>4 DEF Row, Apart, Book!Apart
  <2>3. b = Row(c)
    BY DEF Row
  <2> QED
    BY <1>5, <1>6, <2>1, <2>2, <2>3 DEF Book!Accept
<1> QED
  BY <1>2, <1>7 DEF Book!Next

LEMMA GuardMeansBook == TypeOK /\ GuardInv => BidsKeepIncrement /\ OneBidPerKey
  BY GuardMeansApart DEF GuardInv, BidsOwnTheirKey, OneBidPerKey, Counting

LEMMA BookStep ==
    NoAmbiguity /\ TypeOK /\ TypeOK' /\ GuardInv /\ GuardInv' /\ [Next]_vars
        => [Book!Next]_(Book!vars)
<1> SUFFICES ASSUME NoAmbiguity, TypeOK, TypeOK', GuardInv, GuardInv', [Next]_vars
             PROVE  [Book!Next]_(Book!vars)
  OBVIOUS
<1>1. BidsKeepIncrement' /\ OneBidPerKey'
  BY GuardMeansBook, PTL
<1>2. ASSUME NEW c \in Calls, CreateBid(c) PROVE Book!Next
  <2>1. c \notin bids
    BY <1>2 DEF GuardInv, UndecidedHaveNoRow, Undecided, CreateBid, At
  <2> QED
    BY <1>1, <1>2, <2>1, BookAccepts DEF GuardInv, PriceInv
<1>3. ASSUME NEW c \in Calls, CreateBidFails(c) PROVE UNCHANGED <<bids, currentPrice>>
  BY <1>3 DEF CreateBidFails, NoAmbiguity, dbVars
<1>4. ASSUME NEW a \in Auctions, AuctionStep(a) PROVE UNCHANGED <<bids, currentPrice>>
  BY <1>4, CreateKeepsPrice
     DEF AuctionStep, CreateAuction, UpdateAuctionStatus, GuardInv, PriceInv
<1> QED
  BY <1>2, <1>3, <1>4, StepKinds, BookStutters
     DEF Submit, CheckAuction, PrepareBid, PrepareBidFails, CompleteBid, Moves, vars, dbVars

\* Every run of the bidding engine is a run of the auction book: whatever its
\* calls, retries, script failures and crashes do, rows are only added, by new
\* owners and at a distance, and the price follows.
THEOREM PlacementImplementsBook == NoAmbiguity => (Spec => BookSpec)
<1> SUFFICES ASSUME NoAmbiguity PROVE Spec => BookSpec
  OBVIOUS
<1>1. TypeOK /\ GuardInv /\ [Next]_vars => GuardInv'
  BY GuardStep
<1>2. TypeOK /\ TypeOK' /\ GuardInv /\ GuardInv' /\ [Next]_vars => [Book!Next]_(Book!vars)
  BY BookStep
<1>3. Spec => []GuardInv
  BY <1>1, Typing, GuardInit, PTL DEF Spec
<1> QED
  BY <1>2, <1>3, Typing, BookInit, PTL DEF Spec, BookSpec, Book!Spec
=============================================================================
