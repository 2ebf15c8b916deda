------------------------------- MODULE Claims -------------------------------
(***************************************************************************)
(* What comments of the code say of bids and cancellation, as formulas     *)
(* that the unrestricted specification violates.  CarefulClients shows     *)
(* which use of the contract makes them true.                              *)
(***************************************************************************)
EXTENDS CarefulClients

\* contract.rs:492-493, "Cancel Bid: Bid maker can cancel their bid / After
\* cancellation amount is refunded": cancelling a bid returns what the user
\* put in, so what a user has in an order is never negative.
CancelRefundsDeposit ==
    \A o \in Orders, u \in Users : ledger[o].held[u] >= 0

\* contract.rs:492, "Bid maker can cancel their bid": a bidder whose placed
\* bid is funded, and who waits for no answer, finds the order it must name
\* to cancel.
PlacedBidCancellable ==
    \A o \in Orders, u \in Users :
        /\ remoteBids[o][u].status = "Placed"
        /\ ledger[o].held[u] > 0
        /\ \A p \in packets : ~(p.order = o /\ p.who = u)
        => Found(remote[o])

\* ibc.rs:113, "return fund to original sender": the sender of a take that
\* the home chain refused can be refunded.
RefusedTakeReturnsFund ==
    \A p \in packets :
        p.type = "TakeSwap" /\ p.state = "err" => Found(remote[p.order])

\* state.rs:42, "Cancel, // cancelled": an order whose cancellation was
\* refunded is not sold any more.
CancelledNotSold ==
    [][\A o \in Orders :
        native[o].status = "Cancel" /\ ledger[o].refunded = 1 =>
            ledger'[o].delivered = ledger[o].delivered]_vars
=============================================================================
