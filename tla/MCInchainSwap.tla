--------------------------- MODULE MCInchainSwap ---------------------------
(***************************************************************************)
(* An instance of InchainSwap for TLC: "lot" is auctioned, with u1 and u2  *)
(* bidding; "swap" sells what lot buys, so that the two orders share both  *)
(* balances, and is for u1 until time 0.                                   *)
(***************************************************************************)
EXTENDS InchainSwap, TLC

CONSTANTS gold, silver, lot, swap, u1

Coin(d, n) == [denom |-> d, amount |-> n]

MCOffer ==
    lot :> [sell |-> Coin(gold, 3), buy |-> Coin(silver, 3), desired |-> AnyTaker,
            takeBids |-> TRUE, minBid |-> 2, expiration |-> 1]
    @@
    swap :> [sell |-> Coin(silver, 2), buy |-> Coin(gold, 2), desired |-> u1,
             takeBids |-> FALSE, minBid |-> 0, expiration |-> 0]

OneEach == [d \in Denoms |-> 1]
=============================================================================
