# licit-go in TLA+

Specifications of the auction platform `licit-go`: the bidding engine, the
auction scheduler, the payment validator, the messages between them, the
WebSocket streamer, and the gateway's clusters and rate limiter. Each is
model-checked with TLC. Every safety property that a passing run checks is also
proved with TLAPS for all values of the constants, also of the composed system.

`PROJECT.json` lists the runs, the code lines behind each definition, the
hazards, the disagreements found and the theorems.

## 1. The system

| Part | Code | State it keeps | Operations |
|---|---|---|---|
| Bidding engine | `internal/bidding/service.go`, `handler.go` | none of its own; each HTTP request is a goroutine | `PlaceBid`, `completeBidInRedis`, `releaseReservation`, `ListenAuctionCreated` |
| Redis scripts | `internal/bidding/redis_bid_processor.go` | `user:bid:<user>:<key>` (idempotency record), `auction:bid:<auction>` (top price and bid) | `prepareBidScript`, `completeBidScript`, each atomic |
| Repository | `internal/bidding/repository.go` | tables `auctions` and `bids` | `CreateAuction`, `GetAuction`, `UpdateAuctionStatus`, `CreateBidAndUpdatePrice`, `GetHighestBid` |
| Auction scheduler | `internal/bidding/service.go:292-380` | none: it works on `auctions` | `checkAuctionTimers` every five seconds in every replica |
| Payment validator | `internal/payment/validator.go` | `reservations`, `userReserved`, in memory behind one mutex | `handleValidate`, `handleReserve`, `handleRelease`, `handleCharge`, `handleAuctionEnded` |
| Messaging | `internal/messaging`, `pkg/events` | NATS connection; streams nobody reads | `Request`, `Publish`, `Subscribe`, `QueueSubscribe` |
| Streamer hub | `internal/streamer/hub.go` | `clients`, `rooms`, the channels | the `Run` loop, `JoinRoom`, `LeaveRoom`, `BroadcastToAuction` |
| Streamer handler | `internal/streamer/handler.go` | two goroutines for each connection | `ServeWS`, `readPump`, `writePump`, the NATS subscriptions |
| Gateway clusters | `internal/gateway/service.go` | a health flag for each backend (atomic), a round-robin counter for each cluster (atomic) | `runHealthChecks`, `checkBackend`, `NextBackend`, `handleProxyError` |
| Rate limiter | `internal/gateway/rate_limiter.go` | a bucket in Redis for each client: tokens, time of the last refill, expiry | `rateLimitScript`, atomic; the middleware |
| Routing, CORS | `service.go`, `cors.go` | none | `matchRoute`, `corsMiddleware` |
| Configuration, start | `internal/config`, `cmd/*` | read once | |

How they interact. The gateway asks the rate limiter, then picks a backend whose
flag is set and proxies the request to it, the bidding engine for one.
`PlaceBid` reads the auction (Postgres), runs `prepareBidScript` (Redis), asks
the validator twice over NATS (validate, reserve; five seconds each), writes the
bid and the price in one transaction, runs `completeBidScript`, publishes
`bid.accepted`, reads the highest bid and publishes `auction.update`. The
scheduler changes the same `auctions` rows, and its `auction.ended` makes the
validator release every hold but the winner's. The streamer copies the published
events to the watchers of an auction.

What is hard. No lock is held over a call: everything a call has read may be old
when it is used. Two stores hold a price, and a failed call repairs one of them
afterwards. Requests time out while the other side still acts on them. Messages
are delivered at most once and without order between calls. Processes die
between two steps. In the streamer, a buffer is closed by one goroutine while
another still sends on it. In the gateway, probes and failing requests write the
flags that other requests read one by one, and the clock the rate limiter counts
by may be set back.

What makes each part correct:

- *PlaceBid*: at most one bid for an idempotency key; the bids of an auction a
  minimum increment apart; the price column the highest bid; answers and
  idempotency records that agree with the database; no key stuck while the two
  scripts themselves run.
- *Scheduler*: pending, active, ended and never back; every auction ends; its end
  is announced, and once.
- *Validator*: one hold for a user in an auction, totals that are the sum of the
  holds, no holds beyond the balance, an accepted bid keeps its funds, a failed
  one gives them back.
- *Streamer*: the hub and its clients agree on the rooms; events in order; a
  buffer closed once; clients that are slow or gone are taken out.
- *Gateway clusters*: a flag is no older than the last two rounds of probes; the
  healthy backends take turns; a dead backend leaves and a living one comes back.
- *Rate limiter*: no window of time admits more than the capacity and what flows
  in; `Retry-After` is long enough and never longer than one refill interval.

## 2. The modules

| Module | Models | Composes |
|---|---|---|
| `AuctionBook` | what the engine promises: a set of accepted bids that only grows | |
| `BidPlacement` | `PlaceBid`, the two scripts, the tables | implements `AuctionBook` |
| `AuctionScheduler` | `StartAuctionScheduler`, `checkAuctionTimers` | |
| `WalletHolds` | what the validator promises: one replaceable hold per user and auction | |
| `PaymentValidator` | the validator's handlers | implements `WalletHolds` |
| `BiddingSystem` | engine, scheduler, validator and the messages between them | `BidPlacement`, `AuctionScheduler`, `PaymentValidator` |
| `StreamerHub` | the hub and the goroutines of its connections | |
| `Gateway` | health checks, `NextBackend`, the proxied requests | |
| `RateMeter` | what the rate limiter promises: a debt of time for each client | |
| `RateLimiter` | the script and the middleware | implements `RateMeter` |
| `BidPlacementProofs`, `AuctionSchedulerProofs`, `PaymentValidatorProofs`, `BiddingSystemProofs`, `StreamerHubProofs`, `GatewayProofs`, `RateLimiterProofs` | the theorems | |
| `BiddingSystemSafetyProofs` | the theorems about the composed system | the proof modules of the components |
| `MC*` | values of the constants, symmetry | |

Money is in whole cents, as in Redis. Uuids are identities: a bid's id is its
call, a reservation's id the call that asked for it. Every module bounds the
number of its calls, reservations, messages or ticks by a constant, and the
comment on the constant says so.

A definition commented `Bug:` is not part of the specification. It is the
definition after it with a plausible programming mistake (a dropped check, a
missing undo, a swapped order); put in that definition's place, it breaks the
property PROJECT.json names with it. Every checked property has one.

### BidPlacement

`pc[c]` says which operation the call does next; each action is one operation on
a shared store together with the local code up to the next one.

| Action | Code (`service.go`) |
|---|---|
| `Submit` | the request reaches `placeBid` with a user and a uuid key (`handler.go:70-96`) |
| `CheckAuction`, `CheckAuctionFails` | `GetAuction` and the checks on status, end and amount (39-62) |
| `PrepareBid`, `PrepareBidFails` | the prepare script and its three verdicts (65-103); a failed call may or may not have run it |
| `ValidateReply`, `ReserveReply` | the two requests: yes, no, garbled or no reply (105-151) |
| `CreateBid`, `CreateBidFails` | the transaction (153-168); it may report a failure although it has happened |
| `CompleteBid` | `completeBidInRedis` with the verdict of this path; its error is dropped (214-230) |
| `ReleaseReservation` | 232-242 |
| `ReadHighest`, `PublishUpdate` | the two steps of the auction update (170-203) |
| `Crash` | the process dies, or the request is cancelled, between two operations |
| `CreateAuction`, `UpdateAuctionStatus` | `ListenAuctionCreated` and the scheduler's updates |

`Faults` chooses which failures may happen. `PlaceBid` without a bid processor
(`bidProcessor == nil`, used in tests only; `cmd/bidding/main.go` always has one)
is left out. So is the expiry of the Redis keys: an idempotency record lives 24
hours, and an auction's price until 24 hours after its end.

### AuctionScheduler

`phase`, `checkTime` and `rows` are the program counter, `now` and the open
query of one `checkAuctionTimers`. The time of a check is read once and its
second query runs after the first loop; an update does not look at the status
it replaces. `End` and `Announce` are two actions, because the process may die
between them and, in the system, bids may be inserted between them.
A failed update skips its row, a failed query gives up the check.

### PaymentValidator

Every handler holds the mutex from its first read to its last write and is one
action. `handleValidate` writes nothing: its verdict is the operator
`Validates`. `Restart` empties both maps, for nothing is persisted.
Requests that do not decode are refused without effect and left out.

### BiddingSystem

`net` is the set of messages on their way. An action of the system is an action
of one component joined with the messages it takes and sends; the components'
own modules are instantiated, not copied, and share `status`, `req` and `bids`.
A reply that comes after its call has gone on finds no inbox and is dropped. A
timeout may happen at any moment of a request, whether or not the validator
handles it later. `StreamAck` is the acknowledgement of the stream `PAYMENT`,
which captures the subjects of the two requests (`nats.go:55`) and answers to
the same inbox; it decodes with `Valid` and `Reserved` false. The wallet service
is external: it answers with a balance that does not change, or not at all.
`charge` is published by nobody in this repository, so the composed system never
charges; the validator alone does.

### StreamerHub

One action is one receive of the hub's select or one critical section. The two
goroutines of a connection are started when the hub has received the client, and
may run before it has entered it (`Register`, `Admit`). `send` is a client's
buffer, `closed` the buffers that have been closed, `kicks` the goroutines that
wait to unregister a client that was found slow. A send on a closed buffer sets
`panic`, which ends the process and therefore the model. An empty room is a
deleted one. The reader of a connection that ends unregisters its client and then
closes the connection (`handler.go:75-78`), which is one action with the hub's
removal; a write in between ends as any other may, and no property depends on it.
Deadlines, pings and pongs of the protocol are a read or a write
that may fail at any time. Messages of NATS that do not decode are dropped and
left out.

### Gateway

`up` is the outside: the backends that answer. Each action is one access to a
flag or a counter, or an answer from outside.

| Action | Code (`service.go`) |
|---|---|
| `StartRound`, `EndRound` | `runHealthChecks`: a goroutine for each backend, `wg.Wait`; the first round runs before the server listens (148-164, 268-283) |
| `ProbeOk`, `ProbeFails` | the answer of a probe: a status below 500, or another, or none in time (285-303) |
| `SetHealth` | the flag follows the probe, however long ago it was answered (304-310) |
| `Receive` | `ServeHTTP` for a path that has a route (179-187) |
| `LoadHealth` | `NextBackend` reads one flag; with none set the answer is 503 (358-368) |
| `TakeTurn` | it adds to the counter and picks by the number (370-371) |
| `Respond`, `ProxyFails` | the answer, or `handleProxyError`, which clears the flag (229-236) |
| `GoesDown`, `ComesUp` | the backend, external |

`next` is kept modulo `Turns`, a multiple of the length of every list it may pick
from, so that coming round changes nothing. The code's counter has 64 bits and
does not come round. `wasUp` and `share` are histories for the properties.

### RateLimiter

The script reads the clock of Redis and is one action with the middleware's
answer: `Admit` (the request is handed on), `Refuse` (429), `StoreFails` (503;
the script may have run, so a token may be gone). `Expire` is Redis deleting a
key, `Tick` and `SetBack` are its clock. The arithmetic is the script's: whole
intervals only, a refill that is full starts from now, the time in the bucket
clamped to the clock. `told` remembers what the last `Retry-After` promised, in
ticks, rounded up to seconds as in `retryAfterSeconds`.

`RateMeter` has no tokens and no expiry. A client owes time: an admission costs
one refill interval, waiting pays it back, and nobody may owe more than
`Capacity` intervals. `DebtOf` maps a bucket to that debt. While the clock is
behind a time it has already shown, the promise is weaker: the clamp may forgive
a part of the debt (`Owed`).

## 3. What is checked

Properties and bounds of the runs that pass:

| Run | Instance | Checks |
|---|---|---|
| `BidPlacementFaults` | 3 calls, 3 keys, 1 auction, amounts at the first two minimum steps; database, Redis and crash failures | `TypeOK`, `OneBidPerKey`, `PriceIsHighestBid`, `BidsKeepIncrement`, `RecordsMatchRows`, `UpdateIsReached`, `PricesAreGuarded` (inductive invariant), `BookSpec` (refinement) |
| `MCPaymentValidator` | 2 users, 2 auctions, 3 reservations, amounts 1 and 2 | `TypeOK`, `OneActivePerKey`, `LedgerMatches`, `HoldsSpec` (refinement) |
| `SchedulerOne` | 1 replica, 2 auctions, clock 0 to 3, every failure, fair | `TypeOK`, `PublishedOnce`, `StatusMovesForward`, `AuctionsEnd` |
| `SystemFaults` | 2 calls, 2 users, 2 keys (low bids with one, high with the other), 1 auction, a clock that moves; Redis failures, crashes, ambiguous commits, timeouts, loss, stream acknowledgements, a wallet service that is down | `TypeOK`, `HeldWithinBalance`, `AcceptedBidIsBacked`, `AnswersAreTrue` (action property) |
| `SystemLive` | 2 calls, one amount for each of 2 users; database failures, timeouts, validator restarts, fair | `KeysSettle`, `CallsAreAnswered`, `FailedBidFreesFunds`, `HoldsEndWithAuction` |
| `Hub` | 2 clients, 1 auction, buffers of 1, queue of 2, 2 events, fair | `TypeOK`, `RoomsAgree`, `EventsStayInOrder`, `ClosedOnce`, `SlowAreTakenOut`, `GoneAreTakenOut` |
| `MCRateLimiter` | 1 client, capacity 2, intervals of 1.5 seconds (3 ticks of half a second), clock to 10 with set-backs up to 3 | `TypeOK`, `WindowIsBounded`, `RetryIsAdmitted`, `WaitIsShort`, `MeterSpec` (refinement) |
| `MCGateway` | 1 cluster of 2 backends, 2 requests at a time, fair | `TypeOK`, `FlagsAreOneRoundOld`, `TurnsAreShared`, `DeadAreTakenOut`, `LiveAreLetIn` |

Why the bounds are enough to be interesting. Three calls are the least for one
to undo between two others, or to retry while another overtakes; two amounts one
step apart make a bid that is allowed only if the price it replaces was put back.
Three reservations let a replaced, a released and a charged one coexist. A
balance of 2 with amounts 1 and 2 covers each bid and not two of them. In the
scheduler's instance one auction starts at once and the other when both end, so
a check may start and end one auction in its two loops.
Buffers of one message make every client slow;
the code's 256 differ in nothing but length. An interval of a second and a half
makes rounding to seconds matter, ten ticks empty a bucket, fill it, and let its
key expire, and a set-back of a whole interval is enough to meet a bucket of the
future; clients share nothing but the clock, so one is enough. Two requests and
two backends are the least for a turn to be taken twice or a flag to change
between two reads. Calls, keys, users, clients,
reservations and rooms are interchangeable, hence the symmetry sets of the safety
runs; runs with a liveness property have none. Where calls or events are bounded, the model
stops when they are used up: those configurations turn deadlock checking off.
The gateway, the rate limiter, the scheduler and the validator never stop, and
their runs check for deadlock.

### Fairness

- A call goes on (`WF` of `CallStep`; each of its steps moves `pc`): each request has a timeout of five seconds
  and each query or script call answers or fails. Crashes are not fair.
- The clock goes on and the ticker fires again (`WF` of `Tick` and `Step`, in the
  system of `CheckTimers`; nothing is assumed there of the clock). The
  database may fail, but not one and the same operation for ever (`SF` of the
  queries and updates): without it no code could end an auction.
- The validator handles the releases and the ends of auctions it has received (`WF`
  of `HandleNotice`). Nothing is assumed of validate and reserve: calls are answered
  without them.
- A round of probes starts and ends, each probe is answered or times out
  (`http.Client.Timeout`), and its goroutine writes the flag (`WF`). A backend that
  stays up answers a probe in time again and again (`SF` of `ProbeOk`); without
  that no health check could tell it from a dead one. Nothing is assumed of
  requests, for the proxy has no timeout of its own.
- The hub's goroutine runs (`WF`), and Go's `select` chooses among the ready cases at
  random, so it starves no sender (`SF` of the two unregister cases). A reader of
  a closed connection and a writer of a closed buffer are told so by the runtime
  (`WF`). Nothing is assumed of peers.

### Where the code does not do what its comments say

Each of these runs has one property, taken from a comment or a test, and TLC
shows how the code violates it (`events.go:36`, `validator.go:74`, `hub.go:82`,
`service_test.go:494`).

| Run | What happens |
|---|---|
| `PhantomPrice` | A (3) is allowed, then B (5) over it. A is refused first; it is not at the top, so nothing is put back. Then B is refused and puts back A's 3. Redis now asks 5 of the next bidder although nobody has bid and 3 is the minimum. |
| `LostEnd` | The process dies after `status = 'ended'` and before `auction.ended`: no check looks at the auction again, and losing bidders' holds stay. |
| `OverCommit` | The balance is compared with the holds of the same auction only, so two bids in two auctions hold more than the wallet has. |
| `SlowClientPanic` | A client unregistered as slow sends a `ping`; the pong is sent on its closed buffer, which panics in spite of the `default` case. If it joins a room instead, the next broadcast there panics. |

The models contain more behaviour that a reader of the code should know of,
where the repository promises nothing to the contrary. An auction may end while a
call waits for the validator, and the bid is inserted all the same. Two accepted
bids may publish their updates in the opposite order, so that the last update
shows the lower price. Two calls of one bidder may reserve in the opposite order,
and the smaller hold replaces the larger. A reservation handled after the end of
its auction is never released; one given up by its caller is released by that end
and not before (`HoldsEndWithAuction`). A release is published to a subscription
of core NATS and may be lost; its hold then lasts as long. The error of
`GetHighestBid` is dropped, so a failed read announces an end without a winner, and
the winner's hold goes with the others'. With two replicas, one with an
old query result may set an auction back to active that the other has ended, and
it is announced twice: `StatusMovesForward` and `PublishedOnce` hold for one.
A client of the gateway that gives up clears the flag of a healthy backend until
the next round of probes, so `LiveAreLetIn` says "again and again". A
request reads the flags one by one: it may be answered 503 although at each
moment some backend had its flag set, and it may go to a backend whose flag has
been cleared since. A probe answered before a proxy error may set the flag after
it; `FlagsAreOneRoundOld` bounds for how long. Setting the flag and noting the
reason are two steps of `setHealth`, so the health endpoint may show a reason
that does not belong to the flag.

`AcceptedBidIsBacked` is worded with care for the same reason: an accepted bid
may lose its hold to another reservation of its bidder in the auction, made for a
later or an earlier call, also one that was then given up, and to an announced end
without a winner. What it excludes is a hold lost to a release, a timeout or a
late reply. An ambiguous commit releases the funds of a bid that has a row; the
property therefore leaves out calls that were answered with an error. It does not
hold over a restart of the validator.

`AnswersAreTrue` is about the moment a call is answered. `accepted`, to a first
call or to a retry, always names a row of the caller's key. `rejected` is never
told to a call that has a row itself, whatever fails. To a retry it *is* sometimes
told although its key has a row, and the property lists exactly when (`Excused`):

- the retry is refused before Redis is asked (`service.go:39-62`), most often
  because the price has moved on, by the accepted bid itself if not by another;
- the caller of the row was not told of an acceptance either: its commit was
  reported as failed, after which the key is on record as rejected, or its call
  died;
- the record still says `processing`, because the accepting call has yet to run the
  second script or because that script failed (`service.go:228`).

`KeysSettle` covers what happens *between* the scripts (requests, timeouts, the
transaction). If a script call fails or the process dies, the record stays at
`processing` for its 24 hours, and every retry is refused.

## 4. What is proved

Every theorem holds for all values of the constants that satisfy the named
assumption of its module, which says no more than what kind of values they are
(natural amounts, a positive capacity, backends that belong to one place of one
cluster). Sets of calls, clients or requests may be infinite.

### BidPlacementProofs

From `ConstantsAssumption`, whatever fails:

- `Typing`: `TypeOK`.
- `OneBid`: no idempotency key has two rows.
- `PriceIsRight`: the price is the highest row or the start price.
- `AnswersTrue`: an acceptance, first or repeated, names a row of the caller's key;
  a refusal is never told beside the call's own row, and beside another row of its
  key only with one of the excuses of section 3.
- `UpdatesAreReached`: watchers are never shown a price that no row has reached.

If no commit is reported as failed although it happened (`NoAmbiguity`):

- `BidsStayApart`: accepted bids are a minimum increment apart.
- `PricesStayGuarded`: the invariant it rests on, `PricesAreGuarded`.
- `RecordsAreTrue`: the verdict on record for a key is the database's.
- `PlacementImplementsBook`: `BidPlacement` implements `AuctionBook`.

The argument. `BidsKeepIncrement` is not inductive: whether a new bid is far
enough from the others depends on the price in Redis, which refused bids change
back, in any order. The invariant (`GuardInv`, checked by TLC with
`PricesAreGuarded`) speaks of all *counting* bids: those with a row and those of
calls that may yet get one or put a price back.

1. The record of a counting bid's key names that bid (`BidsOwnTheirKey`). So a
   key has one counting bid, and a completing call finds its own record.
2. The Redis price is at least every counting bid, and the start price or the
   amount of the bid named with it (`CountingAreBelow`, `TopIsNamed`). A new bid
   is an increment above it, hence above all counting bids (`CountingAreApart`).
3. What a refusal would put back is at least every counting bid *below* the
   refused one; those not below it are an increment above (`UndoIsSafe`). A
   restored price thus still covers what counts. `PhantomPrice` shows that it may
   cover more: the engine is safe, and too strict.

An ambiguous commit breaks the third point at its root: the row stays while the
price it stands for is put back. `OneBid` and `PriceIsRight` need only the first
and do not assume `NoAmbiguity`. An increment of zero protects nothing;
`RedisGuards` speaks of positive ones, and two bids may then be equal.

`AnswersTrue` adds to the first point where a call stands: it has no row before
`CreateBid`, an acceptance under way has one, and every answer has its grounds
(`AnswerInv`). For the retries it adds that a record which says `accepted` names a
row, and that a row whose caller was told so has its record: accepted, or still at
`processing` if the script is yet to run or a script may fail. `RecordsAreTrue` needs that a refusal on record is over: its call
is past the point where it could insert (`RefusalsAreOver`). `UpdatesAreReached`
follows the highest bid a call has read: it is a row's amount, hence at most the
price, which only grows (`UpdatesAreBelow`).

### AuctionSchedulerProofs

`Typing` holds for any number of replicas. With one (`OneReplica`), whatever
fails: `EventsComeOnce` (`PublishedOnce`) and `NoWayBack` (`StatusMovesForward`).
The updates do not look at the status they replace, so both rest on what the rows
of a query still say when their turn comes. `TimerInv` states it: the rows left
to do have the status they were found with (`RowsAreFresh`), an auction between
its update and its announcement has not been announced (`ClosingIsSilent`), and
no check runs ahead of the clock (`ChecksAreLate`).

### PaymentValidatorProofs

From `AmountsAssumption`:

- `Typing`: `TypeOK`. `OneActive`: one active reservation per user and auction.
- `LedgerIsExact` (`LedgerMatches`): the running total of a user in an auction is
  the sum of the reservations that are active or charged.
- `ValidatorImplementsHolds`: each handler is a step of `WalletHolds` or
  invisible there.

`LedgerMatches` is an invariant about a sum over a set of any size, which no
handler computes. `LedgerInv` splits it: what a total has above the key's one hold
is the sum of the *charged* reservations, and only a charge moves an amount from
one side to the other. That a sum grows by what is added, whichever member the
definition of `MapThenSumSet` picks first, is the lemma `AmountAnyMember`. It is an
induction over the size of a set; the induction theorems of the library are out
of the prover's reach, so it is done by taking a smallest counterexample
(`LeastNumber`, `LeastSet`, from the well-foundedness of `<` and of set inclusion).

### BiddingSystemProofs

No theorem of its own, but the lemma that carries the components' theorems to the
system (`SystemImplementsComponents`): every step of the composed system is a step
of the engine, of the scheduler and of the validator, or changes nothing there. It
holds by the way `BiddingSystem` is written, with component actions joined by
messages, and says nothing new of the code. What has to be shown is that the
messages hand a component only what it knows (`SystemInv`): every call that has
begun has a request, every message on its way is about such a call, every bid has
one, and a query of the scheduler finds auctions that exist.

### BiddingSystemSafetyProofs

What is proved of a component holds in the system, whose steps are the component's.
The module instantiates the components' proof modules, shows that these
instances and the ones `BiddingSystem` is built from say the same (the lemmas
`Same...`, `ComponentsAreThere`), and carries the theorems over:

- `SystemTyping` (`TypeOK` of the system) and `SystemAnswersTrue` (`AnswersAreTrue`).
- `SystemIsSafe`: one bid per key, the price the highest bid, no update above it,
  one active hold per user and auction.
- `SystemHoldsFunds`: the system implements `WalletHolds`. If no commit is reported
  as failed although it happened, `SystemStoresAgree` (increments, verdicts) and
  `SystemIsBook` (it implements `AuctionBook`). With one replica, `SystemEndsOnce`.

Two properties belong to the system alone; no component could promise them.

`HoldsAreCovered` (`HeldWithinBalance`), whatever is lost, late or restarted. The
validator compares a bid with the balance when asked to validate and takes the hold
when asked to reserve, with anything in between. That is safe for one auction,
because a hold replaces the earlier one: a bid that was allowed fits the wallet
*by itself*. `HoldInv` says just this of the messages that may still lead to a hold
(`ReservesAreCovered`), and that a total is what its key's one hold takes
(`TotalsAreHolds`; the system never charges). It needs `RepliesFit`: a reply is on
its way only to a call that waits for it, so no late "valid" answers a later
question. `OverCommit` shows that nothing of the kind holds over two auctions.

`BidsStayBacked` (`AcceptedBidIsBacked`), if the validator does not restart
(`NoRestart`: it forgets every reservation when it does). `BackInv` follows a
reservation from its request to its end:

1. A row, or a call that is about to insert one, has been reserved
   (`BidsAreReserved`).
2. A release is sent by a call that ended with an error and for its own
   reservation (`ErrorsAreAnswered`, `ReleasesAreOwn`): ids are not mixed up.
3. An `auction.ended` on its way was announced with that winner
   (`EndsWereAnnounced`), and a reservation carries the user and auction of its
   call (`HoldsKnow`); so an end takes only the holds that it announces lost.
4. Hence a reservation that was made is active, replaced by another one of its
   bidder, given back by its failed call, or lost to an announced end
   (`HoldsAreKept`), in whatever order the messages are handled.

### StreamerHubProofs

From `SizesAssumption`:

- `Typing`: `TypeOK`; the buffers and the hub's queue keep their bounds. No more
  goroutines wait to unregister a client than events have left the queue.
- `RoomsStayAgreed` (`RoomsAgree`) and `BuffersCloseOnce` (`ClosedOnce`). A client is
  taken out by the hub alone but asked to be by several goroutines, at most once by
  each; `HubInv` adds that a connection has one life (`OneLife`): it waits, it is
  entered, it is taken out, and only then is its buffer closed.
- `EventsAreOrdered` (`EventsStayInOrder`), for buffers and queues of any length.
  `ChannelInv` says of each client that its last event, its buffer and the queue
  rise, each below the next, up to the newest event (`InOrder`), pongs apart; a
  dropped event leaves a gap, never a step back.

### GatewayProofs

From `ClusterAssumption`:

- `Typing`, with the substance that no request is sent on without a backend it has
  seen healthy and none sees a backend twice (what it has read stands before its
  place in the list, `ReadBefore`).
- `FlagsAreFresh` (`FlagsAreOneRoundOld`), from `ProbesAreTrue`: an answered probe
  has found its backend up since it was sent.
- `TurnsGoAround` (`TurnsAreShared`), for clusters of any size. `TurnsInv`: put the
  healthy backends in a circle; those who have had a turn stand in a row that
  begins anywhere and ends just before the counter's position (`TurnsFollow`). So
  the next turn falls on one who has had none, until the row closes and all begin
  again. What a request has read matters only if it is the whole circle: a list
  read while flags changed starts the count anew.

### RateLimiterProofs

From `RateAssumption`, for every capacity, interval and correction of the clock:
`Typing`, `WindowsAreBounded`, `WaitsAreShort`, `RetriesAreAdmitted` and
`LimiterImplementsMeter`. The invariant `RateInv` turns tokens into time:

1. A bucket is not deleted before its debt is paid (`BucketsOutliveDebts`): the
   lifetime of a key is the time an empty bucket takes to fill.
2. Each admission since the last set-back is still owed for, or paid by the time
   since (`AdmissionsAreOwed`); hence `WindowIsBounded`.
3. The next token is due by the time a refused client was told (`TokenIsDue`);
   hence `RetryIsAdmitted`.

One lemma on the refill (`RefilledType`) carries the division by whole intervals;
the rest is linear.

### Model-checked only

- Liveness: `KeysSettle`, `AuctionsEnd`, `CallsAreAnswered`,
  `FailedBidFreesFunds`, `HoldsEndWithAuction`, `SlowAreTakenOut`, `GoneAreTakenOut`, `DeadAreTakenOut`,
  `LiveAreLetIn`. Fairness needs `ENABLED`, which the prover does not handle.
- That the runs expecting a violation do violate: a counterexample is one behaviour
  of one instance.

Conditions of the theorems, each also that of the run which checks the property:
one replica for `StatusMovesForward` and `PublishedOnce`, no restart of the
validator for `AcceptedBidIsBacked`, no ambiguous commit for `BidsKeepIncrement`,
`RecordsMatchRows`, `PricesAreGuarded` and `BookSpec`.

## 5. What is not modelled, and why

- Routing and CORS: functions of one request and the configuration that change no
  state. `matchRoute` is the first rule that fits; `Receive` lets any cluster be
  the one it names. Formatting of headers.
- The read-only HTTP handlers and the health endpoints with what only they show
  (time, status and error of a backend's last probe).
- Configuration and the start of the processes: read once.
- The `X-RateLimit` headers, and how a client is identified by its address or
  header: clients are identities. A refill interval below a millisecond, which
  becomes zero in the script: `RateAssumption` asks for a positive one. The
  conversion of the round-robin counter to `int` after 2^63 requests.
- Expiry of the Redis keys of bids.
- Rounding of amounts. The database keeps two decimals, on which `moneyToCents` is
  exact. Nothing limits a request to two: a longer amount is rounded on its way to
  Redis and to the row, and the events published carry it as it was sent
  (`service.go:189`). The model's amounts are whole cents.
- Changes of a wallet's balance: nothing in the repository makes any
  (`handleCharge` has a TODO for it).
- `UpdateAuctionPrice`, `CreateBid` and `UpdateBidStatus`, which nobody calls.
- NATS reconnection and the contents of the streams, which nobody reads.

## 6. Plan

Done: the modules of section 2 with their runs, and the theorems of section 4:
every safety and action property and every refinement the passing runs check.
What is left, in this order:

1. What remains true when the named conditions fall: which of the scheduler's
   promises survive several replicas, what an accepted bid keeps over a restart of
   the validator, how far a price may drift after an ambiguous commit.
2. An abstract specification of the hub (an ordered sequence of events for each
   watcher, with gaps) and of the scheduler, and that they are implemented.
3. The streamer joined with the engine's publications: what a watcher sees last.
