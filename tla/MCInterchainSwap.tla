-------------------------- MODULE MCInterchainSwap --------------------------
(***************************************************************************)
(* Instances of InterchainSwap for TLC: two chains, up to three buyers, and *)
(* four orders of which each configuration takes one or two.               *)
(***************************************************************************)
EXTENDS Claims, SwapInvariants, SwapRefinement, TLC

CONSTANTS c1, c2, plain, reserved, auction, closedAuction, u1, u2, u3

\* "plain" is open to anyone and pays out by vesting; "reserved" goes the
\* other way, so that each sells the token the other one buys, and is for u1
\* until time 0.  "auction" takes bids; "closedAuction" does too but may be
\* sold to u1 only, and pays out by vesting.
Offers ==
    plain :> [home |-> c1, away |-> c2, sell |-> 3, buy |-> 2,
              desired |-> AnyTaker, takeBids |-> FALSE, minBid |-> 0,
              expiration |-> 1, vesting |-> TRUE]
    @@
    reserved :> [home |-> c2, away |-> c1, sell |-> 2, buy |-> 3,
                 desired |-> u1, takeBids |-> FALSE, minBid |-> 0,
                 expiration |-> 0, vesting |-> FALSE]
    @@
    auction :> [home |-> c1, away |-> c2, sell |-> 3, buy |-> 3,
                desired |-> AnyTaker, takeBids |-> TRUE, minBid |-> 2,
                expiration |-> 0, vesting |-> FALSE]
    @@
    closedAuction :> [home |-> c1, away |-> c2, sell |-> 3, buy |-> 3,
                      desired |-> u1, takeBids |-> TRUE, minBid |-> 0,
                      expiration |-> 0, vesting |-> TRUE]

MCOffer == [o \in Orders |-> Offers[o]]
ThreePackets == [o \in Orders |-> 3]
FivePackets == [o \in Orders |-> 5]
FiveThenThree == [o \in Orders |-> IF o = auction THEN 5 ELSE 3]
NoReserve == [c \in Chains |-> 0]
SmallReserve == [c \in Chains |-> 3]
NoTicks == [c \in Chains |-> 0]
OneTickOnHome == [c \in Chains |-> IF c = c1 THEN 1 ELSE 0]
OneTickOnAway == [c \in Chains |-> IF c = c2 THEN 1 ELSE 0]
OnePercent == [c \in Chains |-> 100]
=============================================================================
