---------------------------- MODULE InchainSwap ----------------------------
(***************************************************************************)
(* The in-chain atomic swap: one contract on one chain, so that an order   *)
(* is made, taken and cancelled in single transactions.  Orders, bids and  *)
(* all their tokens share one account, with a balance per denomination.    *)
(* A transaction that fails changes nothing, so every check of a handler   *)
(* is a guard; that the vesting contract may refuse a payout is one more   *)
(* way to fail.                                                            *)
(***************************************************************************)
EXTENDS Integers, FiniteSets, Functions, Fees

CONSTANTS
    Denoms,       \* denominations of the chain's bank
    Orders,       \* orders makers may create, one per SWAP_SEQUENCE value
    Users,        \* buyers: takers and bidders
    NoUser,       \* the None of Option<TakeSwapMsg>
    AnyTaker,     \* the empty string in MakeSwapMsg.desired_taker
    Offer,        \* what the maker asks for in each order (MakeSwapMsg)
    BidAmounts,   \* amounts a bidder may offer
    BidExpiries,  \* expiration times a bidder may choose
    Additions,    \* amounts a bidder may add to a bid
    MakerFee,     \* basis points the maker pays
    TakerFee,     \* basis points the taker pays
    Reserve,      \* tokens the contract holds that belong to other orders
    MaxTime       \* bound: ticks of the clock

CoinType == [denom: Denoms, amount: Nat \ {0}]

OfferType ==
    [sell: CoinType, buy: CoinType, desired: Users \cup {AnyTaker},
     takeBids: BOOLEAN, minBid: Nat, expiration: Nat]

ASSUME OfferAssumption == Offer \in [Orders -> OfferType]
ASSUME UserAssumption == NoUser \notin Users /\ AnyTaker \notin Users
ASSUME FiniteAssumption == IsFiniteSet(Orders) /\ IsFiniteSet(Users)
ASSUME AmountAssumption ==
    /\ BidAmounts \subseteq Nat \ {0} /\ Additions \subseteq Nat \ {0}
    /\ BidExpiries \subseteq Nat
    /\ MakerFee \in Nat /\ TakerFee \in Nat /\ MaxTime \in Nat
    /\ Reserve \in [Denoms -> Nat]

VARIABLES
    market,  \* Config.state
    now,     \* block time
    orders,  \* orders[o]: its record and the list that holds it
    bids,    \* bids[o][u]: u's bid on o
    bank,    \* bank[d]: the contract's balance of d
    ledger   \* history: how each order was settled, and who is owed what

vars == <<market, now, orders, bids, bank, ledger>>

OrderType ==
    [loc: {"none", "active", "inactive"}, status: {"Sync", "Cancel", "Complete"},
     taker: Users \cup {NoUser}]

BidType ==
    [status: {"none", "Placed", "Cancelled"}, amount: Nat, expire: Nat, received: Nat]

\* delivered, refunded: payouts of the sell tokens to a buyer, to the maker;
\* held[u]: what u put into bids minus what left on u's account.
LedgerType == [delivered: Nat, refunded: Nat, held: [Users -> Int]]

TypeOK ==
    /\ market \in {"Active", "Paused"}
    /\ now \in Nat
    /\ orders \in [Orders -> OrderType]
    /\ bids \in [Orders -> [Users -> BidType]]
    /\ bank \in [Denoms -> Nat]
    /\ ledger \in [Orders -> LedgerType]

NoOrder == [loc |-> "none", status |-> "Sync", taker |-> NoUser]
NoBid == [status |-> "none", amount |-> 0, expire |-> 0, received |-> 0]

Init ==
    /\ market = "Active"
    /\ now = 0
    /\ orders = [o \in Orders |-> NoOrder]
    /\ bids = [o \in Orders |-> [u \in Users |-> NoBid]]
    /\ bank = Reserve
    /\ ledger = [o \in Orders |->
                    [delivered |-> 0, refunded |-> 0, held |-> [u \in Users |-> 0]]]

-----------------------------------------------------------------------------
\* Tokens that come in with a message, and payouts the account can cover.

Credited(account, coin) == [account EXCEPT ![coin.denom] = @ + coin.amount]
Debited(account, coin) == [account EXCEPT ![coin.denom] = @ - coin.amount]
Covers(account, coin) == account[coin.denom] >= coin.amount

BidCoin(o, amount) == [denom |-> Offer[o].buy.denom, amount |-> amount]

Deposited(o, u, amount) == [ledger EXCEPT ![o].held[u] = @ + amount]
Withdrawn(o, u, amount) == [ledger EXCEPT ![o].held[u] = @ - amount]

-----------------------------------------------------------------------------
\* Orders.  Every handler asks that the market is active, all but the first
\* that the order is found among the active ones.

Open(o) == market = "Active" /\ orders[o].loc = "active"

ExecuteMakeSwap(o) ==
    /\ market = "Active"
    /\ orders[o].loc = "none"
    /\ orders' = [orders EXCEPT ![o] = [NoOrder EXCEPT !.loc = "active"]]
    /\ bank' = Credited(bank, Offer[o].sell)
    /\ UNCHANGED <<market, now, bids, ledger>>

DesiredTakerOK(o, u) == Offer[o].desired \in {AnyTaker, u}

\* Fault: the status is not looked at.
UntakenStatusIgnored(o) == orders[o].taker = NoUser
\* May the order still be taken?
Untaken(o) == orders[o].status = "Sync" /\ orders[o].taker = NoUser

\* Fault: the completed order stays in the active list.
SoldInPlace(o, u) == [orders[o] EXCEPT !.status = "Complete", !.taker = u]
\* Fault: the desired taker is recorded in place of the taker.
SoldToDesired(o, u) ==
    [loc |-> "inactive", status |-> "Complete", taker |-> Offer[o].desired]
\* The record a sale leaves: completed, and moved to the inactive list.
Sold(o, u) == [loc |-> "inactive", status |-> "Complete", taker |-> u]

\* Both payouts of a sale, each split between receiver and treasury.
SalePayable(o, paid) ==
    Payable(paid, MakerFee) /\ Payable(Offer[o].sell.amount, TakerFee)

Delivered(entries, o) == [entries EXCEPT ![o].delivered = @ + 1]

\* The taker's buy tokens come in and go out again, to the maker.
ExecuteTakeSwap(o, u) ==
    /\ Open(o) /\ Untaken(o) /\ DesiredTakerOK(o, u)
    /\ now <= Offer[o].expiration
    /\ SalePayable(o, Offer[o].buy.amount)
    /\ Covers(bank, Offer[o].sell)
    /\ bank' = Debited(bank, Offer[o].sell)
    /\ orders' = [orders EXCEPT ![o] = Sold(o, u)]
    /\ ledger' = Delivered(ledger, o)
    /\ UNCHANGED <<market, now, bids>>

\* The order stays in the active list.
ExecuteCancelSwap(o) ==
    /\ Open(o) /\ Untaken(o)
    /\ Covers(bank, Offer[o].sell)
    /\ bank' = Debited(bank, Offer[o].sell)
    /\ orders' = [orders EXCEPT ![o].status = "Cancel"]
    /\ ledger' = [ledger EXCEPT ![o].refunded = @ + 1]
    /\ UNCHANGED <<market, now, bids>>

-----------------------------------------------------------------------------
\* Bids.  None of the handlers looks at the order's status.

\* Fault: a bid may be made over a live one.
BiddableAgain(o, u) == Offer[o].takeBids /\ orders[o].taker = NoUser
\* May u make a bid on o?
Biddable(o, u) ==
    /\ Offer[o].takeBids
    /\ orders[o].taker = NoUser
    /\ bids[o][u].status # "Placed"

ExecuteMakeBid(o, u, amount, expire) ==
    /\ Open(o) /\ Biddable(o, u)
    /\ amount >= Offer[o].minBid
    /\ bids' = [bids EXCEPT ![o][u] =
                   [status |-> "Placed", amount |-> amount, expire |-> expire,
                    received |-> now]]
    /\ bank' = Credited(bank, BidCoin(o, amount))
    /\ ledger' = Deposited(o, u, amount)
    /\ UNCHANGED <<market, now, orders>>

Placed(o, u) == bids[o][u].status = "Placed"

\* Placed, and not expired.
Current(o, u) == Placed(o, u) /\ now <= bids[o][u].expire

\* The record of the bid stays as it is, placed.
ExecuteTakeBid(o, u) ==
    LET price == BidCoin(o, bids[o][u].amount)
        kept  == Debited(bank, price)
    IN  /\ Open(o) /\ Offer[o].takeBids /\ orders[o].taker = NoUser
        /\ DesiredTakerOK(o, u)
        /\ Current(o, u)
        /\ SalePayable(o, price.amount)
        /\ Covers(bank, price) /\ Covers(kept, Offer[o].sell)
        /\ bank' = Debited(kept, Offer[o].sell)
        /\ orders' = [orders EXCEPT ![o] = Sold(o, u)]
        /\ ledger' = Delivered(Withdrawn(o, u, price.amount), o)
        /\ UNCHANGED <<market, now, bids>>

Raised(o, u, addition) == [bids EXCEPT ![o][u].amount = @ + addition]

ExecuteUpdateBid(o, u, addition) ==
    /\ Open(o) /\ Current(o, u)
    /\ bids[o][u].amount + addition <= Offer[o].buy.amount
    /\ bids' = Raised(o, u, addition)
    /\ bank' = Credited(bank, BidCoin(o, addition))
    /\ ledger' = Deposited(o, u, addition)
    /\ UNCHANGED <<market, now, orders>>

\* The bid may have any status.
ExecuteCancelBid(o, u) ==
    LET refund == BidCoin(o, bids[o][u].amount)
    IN  /\ Open(o) /\ Offer[o].takeBids
        /\ bids[o][u].status # "none"
        /\ Covers(bank, refund)
        /\ bank' = Debited(bank, refund)
        /\ bids' = [bids EXCEPT ![o][u].status = "Cancelled"]
        /\ ledger' = Withdrawn(o, u, refund.amount)
        /\ UNCHANGED <<market, now, orders>>

-----------------------------------------------------------------------------
\* execute_pause_market and execute_unpause_market, by the admin.
SetMarket(state) ==
    /\ market # state
    /\ market' = state
    /\ UNCHANGED <<now, orders, bids, bank, ledger>>

ExecutePauseMarket == SetMarket("Paused")
ExecuteUnpauseMarket == SetMarket("Active")

Tick ==
    /\ now < MaxTime
    /\ now' = now + 1
    /\ UNCHANGED <<market, orders, bids, bank, ledger>>

\* What nobody can do wrong, and what the two handlers below leave to the
\* good sense of their callers.
Guarded ==
    \/ \E o \in Orders : ExecuteMakeSwap(o) \/ ExecuteCancelSwap(o)
    \/ \E o \in Orders, u \in Users :
          \/ ExecuteTakeSwap(o, u)
          \/ \E amount \in BidAmounts, expire \in BidExpiries :
                ExecuteMakeBid(o, u, amount, expire)
          \/ \E addition \in Additions : ExecuteUpdateBid(o, u, addition)
    \/ ExecutePauseMarket \/ ExecuteUnpauseMarket \/ Tick

Next ==
    \/ Guarded
    \/ \E o \in Orders, u \in Users : ExecuteTakeBid(o, u) \/ ExecuteCancelBid(o, u)

Spec == Init /\ [][Next]_vars

\* Callers who take no bid of a cancelled order and cancel placed bids only.
CarefulNext ==
    \/ Guarded
    \/ \E o \in Orders, u \in Users :
          \/ orders[o].status = "Sync" /\ ExecuteTakeBid(o, u)
          \/ Placed(o, u) /\ ExecuteCancelBid(o, u)

CarefulSpec == Init /\ [][CarefulNext]_vars

-----------------------------------------------------------------------------
\* Once an order is sold neither its record nor a bid on it changes any more,
\* and no payout is made on its account: bids that lost stay where they are.
SoldIsFinal ==
    [][\A o \in Orders :
        orders[o].status = "Complete" =>
            orders'[o] = orders[o] /\ bids'[o] = bids[o] /\ ledger'[o] = ledger[o]]_vars

\* The sell tokens go out once: to one buyer, or back to the maker.
SoldOrReturned ==
    \A o \in Orders : ledger[o].delivered + ledger[o].refunded <= 1

\* The winner's stake is spent although the record of the bid stays placed.
\* A buyer who took the order may own a bid that was not spent, so the record
\* alone does not tell; what every user has put in and not got back is one
\* of the two.
StakesHeld ==
    \A o \in Orders, u \in Users :
        LET stake == IF Placed(o, u) THEN bids[o][u].amount ELSE 0
        IN  IF orders[o].taker = u THEN ledger[o].held[u] \in {0, stake}
                                   ELSE ledger[o].held[u] = stake

\* What is still for sale, and what bidders have put in, in a denomination.
ForSale(d) ==
    [o \in Orders |->
        IF orders[o].loc = "active" /\ orders[o].status = "Sync" /\ Offer[o].sell.denom = d
        THEN Offer[o].sell.amount ELSE 0]
Staked(d) ==
    [e \in Orders \X Users |->
        IF Offer[e[1]].buy.denom = d THEN ledger[e[1]].held[e[2]] ELSE 0]

\* The account holds, in every denomination, the sell tokens of the orders
\* still for sale and the stakes of the bidders, no more and no less.
BooksBalance ==
    \A d \in Denoms :
        bank[d] = Reserve[d] + SumFunctionOnSet(ForSale(d), Orders)
                             + SumFunctionOnSet(Staked(d), Orders \X Users)
=============================================================================
