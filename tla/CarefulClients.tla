--------------------------- MODULE CarefulClients ---------------------------
(***************************************************************************)
(* The bid handlers check less than they could: a bid can be cancelled in  *)
(* any status, a bid of a cancelled order can be taken, and records change *)
(* only when the answer comes back.  This module states a discipline that  *)
(* front ends can follow, and under which the contract keeps its books for *)
(* orders with bids, too:                                                  *)
(*   - a request that ends an order waits until nothing about the order is *)
(*     in flight, and nothing is asked about the order while it is;        *)
(*   - a bidder asks one thing at a time;                                  *)
(*   - only a placed bid is cancelled, no bid of a cancelled order is      *)
(*     taken, and none whose bidder the home chain will not sell to.       *)
(***************************************************************************)
EXTENDS InterchainSwap

\* Requests about the whole order, which nothing else may overlap.
OrderRequests == {"MakeSwap", "TakeSwap", "CancelSwap", "TakeBid"}

Conflict(p, q) ==
    /\ p.order = q.order
    /\ \/ {p.type, q.type} \cap OrderRequests # {}
       \/ p.who = q.who

Sensible(p) ==
    /\ p.type = "CancelBid" => remoteBids[p.order][p.who].status = "Placed"
    /\ p.type = "TakeBid" =>
          remote[p.order].status # "Cancel" /\ BuyerOK(p.order, p.who)

\* The packet that a step sends is sensible, and conflicts with none.
Careful ==
    \A p \in packets' \ packets :
        Sensible(p) /\ \A q \in packets : ~Conflict(p, q)

CarefulNext ==
    \/ (SwapRequest \/ BidRequest) /\ Careful
    \/ Relay
    \/ Environment

CarefulSpec == Init /\ [][CarefulNext]_vars

-----------------------------------------------------------------------------
\* What a user has in an order: its live bid, additions not yet answered, and
\* the tokens of a take that is not yet answered.
BidStake(o, u) ==
    IF remoteBids[o][u].status \in {"Initial", "Placed"}
    THEN remoteBids[o][u].amount ELSE 0

AdditionTotal(S) == SumFunctionOnSet([p \in S |-> p.amount], S)

AdditionStake(o, u) ==
    AdditionTotal({p \in packets : p.order = o /\ p.who = u /\ p.type = "UpdateBid"})

LockStake(o, u) ==
    IF Found(remote[o]) /\ remote[o].taker = u THEN Offer[o].buy ELSE 0

\* The contract holds exactly what each user has in each order: every bid is
\* refunded or paid once, in full, with its additions.
StakesHeld ==
    \A o \in Orders, u \in Users :
        ledger[o].held[u] =
            BidStake(o, u) + AdditionStake(o, u) + LockStake(o, u)

\* What users have in orders, in the account of chain c.
Stakes(c) ==
    [e \in Orders \X Users |->
        IF Away(e[1]) = c
        THEN BidStake(e[1], e[2]) + AdditionStake(e[1], e[2]) + LockStake(e[1], e[2])
        ELSE 0]

\* Orders with bids that share the account of a contract do not spend each
\* other's tokens either: beyond the reserve, the account holds the sell
\* tokens of the orders not yet sold or returned and what the records and the
\* messages in flight say users have in orders, no more and no less.
BooksBalanceAll ==
    \A c \in Chains :
        bank[c] = Reserve[c] + SumFunctionOnSet(Unsettled(c), Orders)
                             + SumFunctionOnSet(Stakes(c), Orders \X Users)

\* What the away chain pays out when it finishes with packet p: the take, the
\* bid or the addition goes back or to the maker.
AwayDue(p) ==
    IF p.type \in {"TakeBid", "CancelBid"}
    THEN remoteBids[p.order][p.who].amount ELSE p.amount

\* Finishing with p may make the home chain release the sell tokens.
Releases(p) ==
    \/ p.type \in {"TakeSwap", "TakeBid"}
    \/ p.type = "MakeSwap" /\ p.state # "ok"
    \/ p.type = "CancelSwap" /\ p.state = "ok"

\* No payment or refund waits for somebody else's tokens: as long as a message
\* is in flight, each account holds, besides its reserve, what finishing with
\* the message will take from it.
PayoutsCovered ==
    \A p \in packets :
        LET home == Home(p.order)
            away == Away(p.order)
        IN  /\ Covers(away, Reserve[away] + AwayDue(p))
            /\ Releases(p) /\ Found(native[p.order]) =>
                  Covers(home, Reserve[home] + Offer[p.order].sell)

\* No bid is raised past the price of its order: an addition that is still in
\* flight counts, although execute_update_bid looks at the record alone.  (A
\* first bid may be as high as the bidder likes.)
PriceCaps ==
    \A o \in Orders, u \in Users :
        \/ BidStake(o, u) + AdditionStake(o, u) <= Offer[o].buy
        \/ BidStake(o, u) \in BidAmounts /\ AdditionStake(o, u) = 0

\* An order is sold or returned to its maker, never both, even with bids.
SoldOrReturnedAll ==
    \A o \in Orders : ledger[o].delivered + ledger[o].refunded <= 1

\* When nothing about u's bid is in flight, both chains agree on a placed
\* bid: its amount with all additions, its expiration, and that it is placed.
PlacedBidsAgree ==
    \A o \in Orders, u \in Users :
        /\ remoteBids[o][u].status = "Placed"
        /\ \A p \in packets : ~(p.order = o /\ p.who = u)
        => nativeBids[o][u] = remoteBids[o][u]
=============================================================================
