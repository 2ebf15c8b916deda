---------------------------- MODULE MCBidQueries ----------------------------
(***************************************************************************)
(* An instance of BidQueries for TLC: one order, auctioned to u1 and u2,   *)
(* and pages of one or two bids.  The account holds nothing but what the   *)
(* maker and the bidders put in.                                           *)
(***************************************************************************)
EXTENDS BidQueries

CONSTANTS gold, silver, lot, u1, u2

Coin(d, n) == [denom |-> d, amount |-> n]

MCOffer ==
    [o \in Orders |->
        [sell |-> Coin(gold, 3), buy |-> Coin(silver, 3), desired |-> AnyTaker,
         takeBids |-> TRUE, minBid |-> 2, expiration |-> 0]]

MCRank == [x \in Orders \cup Users |-> IF x = u1 THEN 1 ELSE 0]
MCLimits == {None, 3}
Nothing == [d \in Denoms |-> 0]
=============================================================================
