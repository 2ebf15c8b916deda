-------------------------------- MODULE Fees --------------------------------
(***************************************************************************)
(* The fee arithmetic both swap contracts share (utils.rs).  Amounts are   *)
(* Uint128 in the code; no amount here comes near 2^128, so they are       *)
(* naturals.                                                               *)
(***************************************************************************)
EXTENDS Integers

\* Fees are stated in basis points of the amount.
FeeBasisPoint == 10000

\* taker_fee and maker_fee: the rounded-down share, but never below one unit.
FeeOf(amount, bps) ==
    LET share == (amount * bps) \div FeeBasisPoint
    IN  IF share = 0 THEN 1 ELSE share

\* What is left for the receiver.
NetOf(amount, bps) == amount - FeeOf(amount, bps)

\* Can the two transfers be made?  A fee above the amount overflows the
\* Uint128 subtraction (a panic), and the bank refuses a transfer of nothing.
Payable(amount, bps) == NetOf(amount, bps) > 0
=============================================================================
