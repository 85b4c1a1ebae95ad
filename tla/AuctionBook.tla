----------------------------- MODULE AuctionBook -----------------------------
(***************************************************************************)
(* What the bidding engine promises of its accepted bids, without calls,   *)
(* Redis or retries: a book that only grows, at most one bid for an owner  *)
(* (a caller and its idempotency key), the bids of an auction a minimum    *)
(* increment apart, the price of an auction its highest bid.               *)
(***************************************************************************)
EXTENDS Integers

CONSTANTS Owners, Auctions, Amounts, StartPrice, MinIncrement

VARIABLES book,   \* the accepted bids
          price   \* auction -> current price

vars == <<book, price>>

Apart(b, d) ==
    \/ b.amount >= d.amount + MinIncrement[b.auction]
    \/ d.amount >= b.amount + MinIncrement[b.auction]

Init == book = {} /\ price = StartPrice

Accept(b) ==
    /\ \A d \in book : d.owner # b.owner
    /\ \A d \in book : d.auction = b.auction => Apart(b, d)
    /\ book' = book \cup {b}
    /\ price' = [price EXCEPT ![b.auction] = IF @ < b.amount THEN b.amount ELSE @]

Next ==
    \E o \in Owners, a \in Auctions : \E m \in Amounts :
        Accept([owner |-> o, auction |-> a, amount |-> m])

Spec == Init /\ [][Next]_vars
=============================================================================
