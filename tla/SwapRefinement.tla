--------------------------- MODULE SwapRefinement ---------------------------
(***************************************************************************)
(* Two chains and the packets between them keep the promises of            *)
(* AtomicSwap, for orders without bids, and those of AtomicAuction, for    *)
(* every order of careful clients.  The phase of an order is read off the  *)
(* payments made on both chains.                                           *)
(***************************************************************************)
EXTENDS CarefulClients

PhaseOf(o) ==
    CASE ledger[o].paid # 0      -> "paid"
      [] ledger[o].paid = 0 /\ ledger[o].delivered # 0 -> "sold"
      [] ledger[o].paid = 0 /\ ledger[o].delivered = 0 /\ ledger[o].refunded # 0
            -> "returned"
      [] OTHER -> IF native[o].loc = "none" THEN "none" ELSE "offered"

Promise == INSTANCE AtomicSwap WITH
    Orders <- PlainOrders,
    phase  <- [o \in PlainOrders |-> PhaseOf(o)],
    buyer  <- [o \in PlainOrders |-> remote[o].taker]

\* Every behaviour of the two contracts is one of AtomicSwap: no relaying,
\* refusal or timeout sells an order that was returned, returns one that a
\* buyer has locked, releases a buyer whose purchase went through, or pays
\* the maker for somebody else's purchase.
AtomicSwapKept == Promise!Spec

-----------------------------------------------------------------------------
\* What the maker of a sold order has yet to get: the price of the order if
\* the mirror is locked by a take, else what the buyer bid.
Due(o) ==
    IF PhaseOf(o) # "sold" THEN 0
    ELSE IF remote[o].taker # NoUser THEN Offer[o].buy
    ELSE remoteBids[o][native[o].taker].amount

Auction == INSTANCE AtomicAuction WITH
    MayBuy  <- [o \in Orders |-> {u \in Users : BuyerOK(o, u)}],
    Amounts <- BidAmounts \cup Additions \cup {Offer[o].buy : o \in Orders},
    phase   <- [o \in Orders |-> PhaseOf(o)],
    stake   <- [o \in Orders |-> ledger[o].held],
    buyer   <- [o \in Orders |-> native[o].taker],
    due     <- [o \in Orders |-> Due(o)]

\* With careful clients, every behaviour of the two contracts is one of
\* AtomicAuction: a sale fixes the price while it is in escrow, and however
\* long the answer takes, the maker gets that price from the one who bought;
\* all else that users get back is their own.
AuctionKept == Auction!Spec
=============================================================================
