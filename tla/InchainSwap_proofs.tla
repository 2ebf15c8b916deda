-------------------------- MODULE InchainSwap_proofs --------------------------
(***************************************************************************)
(* The in-chain swap, for any denominations, orders, users and offers:     *)
(* typing, and that a sale is final, whatever is asked of the contract;    *)
(* that orders are sold or returned and stakes kept, for careful callers;  *)
(* and that the lists of bids, read page by page, are faithful.            *)
(***************************************************************************)
EXTENDS BidQueries, SumTheorems

-----------------------------------------------------------------------------
\* Typing.

LEMMA OfferFacts ==
    ASSUME NEW o \in Orders
    PROVE  /\ Offer[o].sell \in CoinType /\ Offer[o].buy \in CoinType
           /\ Offer[o].desired \in Users \cup {AnyTaker}
BY OfferAssumption DEF OfferType

LEMMA CreditedType ==
    ASSUME NEW account \in [Denoms -> Nat], NEW d \in Denoms, NEW n \in Nat
    PROVE  Credited(account, [denom |-> d, amount |-> n]) \in [Denoms -> Nat]
BY DEF Credited

LEMMA DebitedType ==
    ASSUME NEW account \in [Denoms -> Nat], NEW d \in Denoms, NEW n \in Nat,
           Covers(account, [denom |-> d, amount |-> n])
    PROVE  Debited(account, [denom |-> d, amount |-> n]) \in [Denoms -> Nat]
BY DEF Debited, Covers

LEMMA SellType ==
    ASSUME NEW o \in Orders, NEW account \in [Denoms -> Nat]
    PROVE  /\ Credited(account, Offer[o].sell) \in [Denoms -> Nat]
           /\ Covers(account, Offer[o].sell) =>
                 Debited(account, Offer[o].sell) \in [Denoms -> Nat]
BY OfferFacts DEF CoinType, Credited, Debited, Covers

LEMMA BidCoinType ==
    ASSUME NEW o \in Orders, NEW account \in [Denoms -> Nat], NEW n \in Nat
    PROVE  /\ Credited(account, BidCoin(o, n)) \in [Denoms -> Nat]
           /\ Covers(account, BidCoin(o, n)) =>
                 Debited(account, BidCoin(o, n)) \in [Denoms -> Nat]
<1>1. Offer[o].buy.denom \in Denoms
  BY OfferFacts DEF CoinType
<1> QED
  BY <1>1, CreditedType, DebitedType DEF BidCoin

LEMMA LedgerMoves ==
    ASSUME NEW entries \in [Orders -> LedgerType], NEW o \in Orders
    PROVE  /\ Delivered(entries, o) \in [Orders -> LedgerType]
           /\ [entries EXCEPT ![o].refunded = @ + 1] \in [Orders -> LedgerType]
BY DEF Delivered, LedgerType

LEMMA HeldMoves ==
    ASSUME ledger \in [Orders -> LedgerType],
           NEW o \in Orders, NEW u \in Users, NEW n \in Nat
    PROVE  /\ Deposited(o, u, n) \in [Orders -> LedgerType]
           /\ Withdrawn(o, u, n) \in [Orders -> LedgerType]
<1>1. \A k \in Int : [ledger[o].held EXCEPT ![u] = k] \in [Users -> Int]
  BY DEF LedgerType
<1>2. ledger[o].held[u] \in Int
  BY DEF LedgerType
<1>3. \A h \in [Users -> Int] :
        [ledger EXCEPT ![o].held = h] \in [Orders -> LedgerType]
  BY DEF LedgerType
<1>4. /\ Deposited(o, u, n) =
            [ledger EXCEPT ![o].held = [ledger[o].held EXCEPT ![u] = ledger[o].held[u] + n]]
      /\ Withdrawn(o, u, n) =
            [ledger EXCEPT ![o].held = [ledger[o].held EXCEPT ![u] = ledger[o].held[u] - n]]
  BY DEF Deposited, Withdrawn, LedgerType
<1> QED
  BY <1>1, <1>2, <1>3, <1>4

LEMMA BidMoves ==
    ASSUME bids \in [Orders -> [Users -> BidType]], NEW o \in Orders,
           NEW u \in Users, NEW b \in BidType
    PROVE  [bids EXCEPT ![o][u] = b] \in [Orders -> [Users -> BidType]]
<1>1. [bids[o] EXCEPT ![u] = b] \in [Users -> BidType]
  OBVIOUS
<1> QED
  BY <1>1

LEMMA BidUpdates ==
    ASSUME bids \in [Orders -> [Users -> BidType]],
           NEW o \in Orders, NEW u \in Users, NEW n \in Nat
    PROVE  /\ [bids EXCEPT ![o][u].status = "Cancelled"]
                 \in [Orders -> [Users -> BidType]]
           /\ Raised(o, u, n) \in [Orders -> [Users -> BidType]]
<1>1. /\ [bids[o][u] EXCEPT !.status = "Cancelled"] \in BidType
      /\ [bids[o][u] EXCEPT !.amount = bids[o][u].amount + n] \in BidType
  BY DEF BidType
<1>2. /\ [bids EXCEPT ![o][u].status = "Cancelled"] =
            [bids EXCEPT ![o][u] = [bids[o][u] EXCEPT !.status = "Cancelled"]]
      /\ Raised(o, u, n) =
            [bids EXCEPT ![o][u] = [bids[o][u] EXCEPT !.amount = bids[o][u].amount + n]]
  BY DEF Raised
<1> QED
  BY <1>1, <1>2, BidMoves

LEMMA InitType == Init => TypeOK
BY AmountAssumption DEF Init, TypeOK, NoOrder, NoBid, OrderType, BidType, LedgerType

LEMMA GuardedType ==
    ASSUME TypeOK, Guarded
    PROVE  TypeOK'
<1>1. ASSUME NEW o \in Orders, ExecuteMakeSwap(o)
      PROVE  TypeOK'
  BY <1>1, SellType DEF ExecuteMakeSwap, TypeOK, NoOrder, OrderType
<1>2. ASSUME NEW o \in Orders, ExecuteCancelSwap(o)
      PROVE  TypeOK'
  <2>1. orders' \in [Orders -> OrderType]
    BY <1>2 DEF ExecuteCancelSwap, TypeOK, OrderType
  <2>2. bank' \in [Denoms -> Nat]
    BY <1>2, SellType DEF ExecuteCancelSwap, TypeOK
  <2>3. ledger' \in [Orders -> LedgerType]
    BY <1>2, LedgerMoves DEF ExecuteCancelSwap, TypeOK
  <2> QED
    BY <1>2, <2>1, <2>2, <2>3 DEF ExecuteCancelSwap, TypeOK
<1>3. ASSUME NEW o \in Orders, NEW u \in Users, ExecuteTakeSwap(o, u)
      PROVE  TypeOK'
  BY <1>3, SellType, LedgerMoves DEF ExecuteTakeSwap, TypeOK, Sold, OrderType
<1>4. ASSUME NEW o \in Orders, NEW u \in Users, NEW amount \in BidAmounts,
             NEW expire \in BidExpiries, ExecuteMakeBid(o, u, amount, expire)
      PROVE  TypeOK'
  <2>1. amount \in Nat
    BY AmountAssumption
  <2>2. [status |-> "Placed", amount |-> amount, expire |-> expire, received |-> now]
          \in BidType
    BY <2>1, AmountAssumption DEF BidType, TypeOK
  <2>3. bids' \in [Orders -> [Users -> BidType]]
    BY <1>4, <2>2, BidMoves DEF ExecuteMakeBid, TypeOK
  <2>4. bank' \in [Denoms -> Nat]
    BY <1>4, <2>1, BidCoinType DEF ExecuteMakeBid, TypeOK
  <2>5. ledger' \in [Orders -> LedgerType]
    BY <1>4, <2>1, HeldMoves DEF ExecuteMakeBid, TypeOK
  <2> QED
    BY <1>4, <2>3, <2>4, <2>5 DEF ExecuteMakeBid, TypeOK
<1>5. ASSUME NEW o \in Orders, NEW u \in Users, NEW addition \in Additions,
             ExecuteUpdateBid(o, u, addition)
      PROVE  TypeOK'
  <2>1. addition \in Nat
    BY AmountAssumption
  <2>2. bids' \in [Orders -> [Users -> BidType]]
    BY <1>5, <2>1, BidUpdates DEF ExecuteUpdateBid, TypeOK
  <2>3. bank' \in [Denoms -> Nat]
    BY <1>5, <2>1, BidCoinType DEF ExecuteUpdateBid, TypeOK
  <2>4. ledger' \in [Orders -> LedgerType]
    BY <1>5, <2>1, HeldMoves DEF ExecuteUpdateBid, TypeOK
  <2> QED
    BY <1>5, <2>2, <2>3, <2>4 DEF ExecuteUpdateBid, TypeOK
<1>6. CASE ExecutePauseMarket \/ ExecuteUnpauseMarket \/ Tick
  BY <1>6 DEF ExecutePauseMarket, ExecuteUnpauseMarket, SetMarket, Tick, TypeOK
<1> QED
  BY <1>1, <1>2, <1>3, <1>4, <1>5, <1>6 DEF Guarded

LEMMA TakeBidType ==
    ASSUME TypeOK, NEW o \in Orders, NEW u \in Users, ExecuteTakeBid(o, u)
    PROVE  TypeOK'
<1> DEFINE price == BidCoin(o, bids[o][u].amount)
           kept == Debited(bank, price)
<1>1. bids[o][u].amount \in Nat /\ price.amount = bids[o][u].amount
  BY DEF TypeOK, BidType, BidCoin
<1>2. kept \in [Denoms -> Nat]
  BY <1>1, BidCoinType DEF ExecuteTakeBid, TypeOK
<1>3. Debited(kept, Offer[o].sell) \in [Denoms -> Nat]
  BY <1>2, SellType DEF ExecuteTakeBid
<1>4. Delivered(Withdrawn(o, u, price.amount), o) \in [Orders -> LedgerType]
  BY <1>1, HeldMoves, LedgerMoves DEF TypeOK
<1> QED
  BY <1>3, <1>4 DEF ExecuteTakeBid, TypeOK, Sold, OrderType

LEMMA CancelBidType ==
    ASSUME TypeOK, NEW o \in Orders, NEW u \in Users, ExecuteCancelBid(o, u)
    PROVE  TypeOK'
<1> DEFINE refund == BidCoin(o, bids[o][u].amount)
<1>1. bids[o][u].amount \in Nat /\ refund.amount = bids[o][u].amount
  BY DEF TypeOK, BidType, BidCoin
<1>2. Debited(bank, refund) \in [Denoms -> Nat]
  BY <1>1, BidCoinType DEF ExecuteCancelBid, TypeOK
<1>3. Withdrawn(o, u, refund.amount) \in [Orders -> LedgerType]
  BY <1>1, HeldMoves DEF TypeOK
<1>4. bids' \in [Orders -> [Users -> BidType]]
  BY BidUpdates, 0 \in Nat DEF ExecuteCancelBid, TypeOK
<1> QED
  BY <1>2, <1>3, <1>4 DEF ExecuteCancelBid, TypeOK

LEMMA NextType == TypeOK /\ [Next]_vars => TypeOK'
<1> SUFFICES ASSUME TypeOK, [Next]_vars
             PROVE  TypeOK'
  OBVIOUS
<1>1. CASE UNCHANGED vars
  BY <1>1 DEF vars, TypeOK
<1> QED
  BY <1>1, GuardedType, TakeBidType, CancelBidType DEF Next

\* Every reachable state is typed; no balance is overdrawn, and the buyer of
\* a sold order is on record.
THEOREM TypeCorrect == Spec => []TypeOK
BY InitType, NextType, PTL DEF Spec

-----------------------------------------------------------------------------
\* A sale is final, whatever is asked.

\* What a step may do to one order, and to nothing about the others.
OthersKept(o) ==
    \A x \in Orders \ {o} :
        orders'[x] = orders[x] /\ bids'[x] = bids[x] /\ ledger'[x] = ledger[x]

LEMMA ActsTouchOne ==
    ASSUME TypeOK, NEW o \in Orders, NEW u \in Users,
           \/ ExecuteTakeSwap(o, u)
           \/ \E amount \in BidAmounts, expire \in BidExpiries :
                 ExecuteMakeBid(o, u, amount, expire)
           \/ \E addition \in Additions : ExecuteUpdateBid(o, u, addition)
           \/ ExecuteTakeBid(o, u)
           \/ ExecuteCancelBid(o, u)
    PROVE  orders[o].loc = "active" /\ OthersKept(o)
<1>1. orders[o].loc = "active"
  BY DEF ExecuteTakeSwap, ExecuteMakeBid, ExecuteUpdateBid, ExecuteTakeBid,
         ExecuteCancelBid, Open
<1>2. \A x \in Orders \ {o} : orders'[x] = orders[x]
  BY DEF ExecuteTakeSwap, ExecuteMakeBid, ExecuteUpdateBid, ExecuteTakeBid,
         ExecuteCancelBid, TypeOK
<1>3. \A x \in Orders \ {o} : bids'[x] = bids[x]
  BY DEF ExecuteTakeSwap, ExecuteMakeBid, ExecuteUpdateBid, ExecuteTakeBid,
         ExecuteCancelBid, Raised, TypeOK
<1>4. \A x \in Orders \ {o} : ledger'[x] = ledger[x]
  BY DEF ExecuteTakeSwap, ExecuteMakeBid, ExecuteUpdateBid, ExecuteTakeBid,
         ExecuteCancelBid, Delivered, Deposited, Withdrawn, TypeOK
<1> QED
  BY <1>1, <1>2, <1>3, <1>4 DEF OthersKept

LEMMA StepsTouchOne ==
    ASSUME TypeOK, Next
    PROVE  \/ UNCHANGED <<orders, bids, ledger>>
           \/ \E o \in Orders : orders[o].loc = "none" /\ ExecuteMakeSwap(o)
           \/ \E o \in Orders : orders[o].loc = "active" /\ OthersKept(o)
<1>1. ASSUME NEW o \in Orders, ExecuteCancelSwap(o)
      PROVE  orders[o].loc = "active" /\ OthersKept(o)
  BY <1>1 DEF ExecuteCancelSwap, Open, OthersKept, TypeOK
<1>2. ASSUME NEW o \in Orders, NEW u \in Users,
             \/ ExecuteTakeSwap(o, u)
             \/ \E amount \in BidAmounts, expire \in BidExpiries :
                   ExecuteMakeBid(o, u, amount, expire)
             \/ \E addition \in Additions : ExecuteUpdateBid(o, u, addition)
             \/ ExecuteTakeBid(o, u)
             \/ ExecuteCancelBid(o, u)
      PROVE  orders[o].loc = "active" /\ OthersKept(o)
  BY <1>2, ActsTouchOne
<1>3. CASE ExecutePauseMarket \/ ExecuteUnpauseMarket \/ Tick
  BY <1>3 DEF ExecutePauseMarket, ExecuteUnpauseMarket, SetMarket, Tick
<1>4. ASSUME NEW o \in Orders, ExecuteMakeSwap(o)
      PROVE  orders[o].loc = "none"
  BY <1>4 DEF ExecuteMakeSwap
<1> QED
  BY <1>1, <1>2, <1>3, <1>4 DEF Next, Guarded

\* An order is completed exactly if it was moved to the inactive list.
CompletedAway ==
    \A o \in Orders : orders[o].status = "Complete" <=> orders[o].loc = "inactive"

LEMMA CompletedAwayNext ==
    ASSUME TypeOK, CompletedAway, Next
    PROVE  CompletedAway'
<1>1. ASSUME NEW o \in Orders,
             \/ ExecuteMakeSwap(o)
             \/ ExecuteCancelSwap(o)
             \/ \E u \in Users : ExecuteTakeSwap(o, u) \/ ExecuteTakeBid(o, u)
      PROVE  CompletedAway'
  <2>1. \A x \in Orders \ {o} : orders'[x] = orders[x]
    BY <1>1 DEF ExecuteMakeSwap, ExecuteCancelSwap, ExecuteTakeSwap, ExecuteTakeBid,
                TypeOK
  <2>2. \/ orders'[o].status = "Sync" /\ orders'[o].loc = "active"
        \/ orders'[o].status = "Cancel" /\ orders'[o].loc = "active"
        \/ orders'[o].status = "Complete" /\ orders'[o].loc = "inactive"
    BY <1>1 DEF ExecuteMakeSwap, ExecuteCancelSwap, ExecuteTakeSwap, ExecuteTakeBid,
                Open, Sold, NoOrder, TypeOK, OrderType
  <2> QED
    BY <2>1, <2>2 DEF CompletedAway
<1>2. CASE orders' = orders
  BY <1>2 DEF CompletedAway
<1>3. orders' = orders \/ \E o \in Orders :
        \/ ExecuteMakeSwap(o)
        \/ ExecuteCancelSwap(o)
        \/ \E u \in Users : ExecuteTakeSwap(o, u) \/ ExecuteTakeBid(o, u)
  BY DEF Next, Guarded, ExecuteMakeBid, ExecuteUpdateBid, ExecuteCancelBid,
         ExecutePauseMarket, ExecuteUnpauseMarket, SetMarket, Tick
<1> QED
  BY <1>1, <1>2, <1>3

\* A completed order has left the active list, where all handlers look for it
\* (move_order_to_bottom after execute_take_swap and execute_take_bid).
THEOREM CompletedAwayCorrect == Spec => []CompletedAway
<1>1. Init => CompletedAway
  BY DEF Init, CompletedAway, NoOrder
<1>2. TypeOK /\ CompletedAway /\ [Next]_vars => CompletedAway'
  BY CompletedAwayNext DEF vars, CompletedAway
<1> QED
  BY <1>1, <1>2, TypeCorrect, PTL DEF Spec

\* The records of a sold order, its bids and the payouts on its account are
\* final, also for callers who are not careful.
THEOREM SoldIsFinalCorrect == Spec => SoldIsFinal
<1> DEFINE Final(o) == orders[o].status = "Complete" =>
                         orders'[o] = orders[o] /\ bids'[o] = bids[o] /\ ledger'[o] = ledger[o]
<1>1. ASSUME TypeOK, CompletedAway, [Next]_vars
      PROVE  \A o \in Orders : Final(o)
  <2>1. CASE UNCHANGED vars
    BY <2>1 DEF vars
  <2>2. CASE Next
    <3>1. ASSUME NEW o \in Orders, ExecuteMakeSwap(o), orders[o].loc = "none"
          PROVE  \A x \in Orders : Final(x)
      BY <1>1, <3>1 DEF ExecuteMakeSwap, CompletedAway, TypeOK
    <3>2. ASSUME NEW o \in Orders, orders[o].loc = "active", OthersKept(o)
          PROVE  \A x \in Orders : Final(x)
      BY <1>1, <3>2 DEF OthersKept, CompletedAway
    <3> QED
      BY <1>1, <2>2, <3>1, <3>2, StepsTouchOne
  <2> QED
    BY <1>1, <2>1, <2>2
<1> QED
  BY <1>1, TypeCorrect, CompletedAwayCorrect, PTL DEF Spec, SoldIsFinal

-----------------------------------------------------------------------------
\* Careful callers: orders are sold or returned, and stakes are kept.

LEMMA CarefulIsNext == [CarefulNext]_vars => [Next]_vars
BY DEF CarefulNext, Next

LEMMA CarefulIsSpec == CarefulSpec => Spec
BY CarefulIsNext, PTL DEF CarefulSpec, Spec

\* Each order is settled as its record says, and only a sold one has a taker.
SettledOnce(o) ==
    /\ ledger[o].delivered = IF orders[o].loc = "inactive" THEN 1 ELSE 0
    /\ ledger[o].refunded = IF orders[o].status = "Cancel" THEN 1 ELSE 0
    /\ orders[o].loc # "inactive" => orders[o].taker = NoUser
    /\ orders[o].loc = "none" => orders[o].status = "Sync"

StakeHeld(o, u) ==
    LET stake == IF bids[o][u].status = "Placed" THEN bids[o][u].amount ELSE 0
    IN  IF orders[o].taker = u THEN ledger[o].held[u] \in {0, stake}
                               ELSE ledger[o].held[u] = stake

AccountOf(o) == SettledOnce(o) /\ \A u \in Users : StakeHeld(o, u)
AccountInv == CompletedAway /\ \A o \in Orders : AccountOf(o)

\* The entry of o after a move of its ledger.
LEMMA LedgerEntries ==
    ASSUME TypeOK, NEW o \in Orders, NEW u \in Users, NEW n \in Nat
    PROVE  /\ Deposited(o, u, n)[o].delivered = ledger[o].delivered
           /\ Deposited(o, u, n)[o].refunded = ledger[o].refunded
           /\ Withdrawn(o, u, n)[o].delivered = ledger[o].delivered
           /\ Withdrawn(o, u, n)[o].refunded = ledger[o].refunded
           /\ \A v \in Users :
                /\ Deposited(o, u, n)[o].held[v] =
                      IF v = u THEN ledger[o].held[v] + n ELSE ledger[o].held[v]
                /\ Withdrawn(o, u, n)[o].held[v] =
                      IF v = u THEN ledger[o].held[v] - n ELSE ledger[o].held[v]
BY DEF Deposited, Withdrawn, TypeOK, LedgerType

LEMMA DeliveredEntry ==
    ASSUME NEW entries \in [Orders -> LedgerType], NEW o \in Orders
    PROVE  /\ Delivered(entries, o)[o].delivered = entries[o].delivered + 1
           /\ Delivered(entries, o)[o].refunded = entries[o].refunded
           /\ Delivered(entries, o)[o].held = entries[o].held
BY DEF Delivered, LedgerType

\* Nobody has taken an order that is still active.
LEMMA OpenUntaken ==
    ASSUME AccountInv, NEW o \in Orders, orders[o].loc # "inactive"
    PROVE  /\ ledger[o].delivered = 0 /\ orders[o].taker = NoUser
           /\ \A u \in Users :
                ledger[o].held[u] =
                    IF bids[o][u].status = "Placed" THEN bids[o][u].amount ELSE 0
BY UserAssumption DEF AccountInv, AccountOf, SettledOnce, StakeHeld

LEMMA MakeSwapAccount ==
    ASSUME TypeOK, AccountInv, NEW o \in Orders, ExecuteMakeSwap(o)
    PROVE  AccountOf(o)'
BY OpenUntaken, UserAssumption
   DEF ExecuteMakeSwap, NoOrder, AccountInv, AccountOf, SettledOnce, StakeHeld, TypeOK

LEMMA CancelSwapAccount ==
    ASSUME TypeOK, AccountInv, NEW o \in Orders, ExecuteCancelSwap(o)
    PROVE  AccountOf(o)'
<1>1. /\ orders[o].loc = "active" /\ orders[o].status = "Sync"
      /\ orders'[o].loc = "active" /\ orders'[o].status = "Cancel"
      /\ orders'[o].taker = NoUser
  BY DEF ExecuteCancelSwap, Open, Untaken, TypeOK, OrderType
<1>2. ledger[o].delivered = 0 /\ ledger[o].refunded = 0
  BY <1>1, OpenUntaken DEF AccountInv, AccountOf, SettledOnce
<1>3. /\ ledger'[o].delivered = 0 /\ ledger'[o].refunded = 1
      /\ ledger'[o].held = ledger[o].held
  BY <1>2 DEF ExecuteCancelSwap, TypeOK, LedgerType
<1>4. bids' = bids
  BY DEF ExecuteCancelSwap
<1> QED
  BY <1>1, <1>3, <1>4, OpenUntaken, UserAssumption DEF AccountOf, SettledOnce, StakeHeld

LEMMA TakeSwapAccount ==
    ASSUME TypeOK, AccountInv, NEW o \in Orders, NEW u \in Users, ExecuteTakeSwap(o, u)
    PROVE  AccountOf(o)'
<1>1. /\ orders[o].loc = "active" /\ orders[o].status = "Sync"
      /\ orders'[o] = Sold(o, u) /\ bids' = bids
  BY DEF ExecuteTakeSwap, Open, Untaken, TypeOK
<1>2. ledger[o].delivered = 0 /\ ledger[o].refunded = 0
  BY <1>1, OpenUntaken DEF AccountInv, AccountOf, SettledOnce
<1>3. /\ ledger'[o].delivered = 1 /\ ledger'[o].refunded = 0
      /\ ledger'[o].held = ledger[o].held
  BY <1>2, DeliveredEntry DEF ExecuteTakeSwap, TypeOK
<1> QED
  BY <1>1, <1>3, OpenUntaken, UserAssumption DEF AccountOf, SettledOnce, StakeHeld, Sold

LEMMA TakeBidAccount ==
    ASSUME TypeOK, AccountInv, NEW o \in Orders, NEW u \in Users,
           orders[o].status = "Sync", ExecuteTakeBid(o, u)
    PROVE  AccountOf(o)'
<1> DEFINE n == bids[o][u].amount
           spent == Withdrawn(o, u, n)
<1>1. /\ orders[o].loc = "active" /\ orders'[o] = Sold(o, u) /\ bids' = bids
      /\ bids[o][u].status = "Placed" /\ n \in Nat
      /\ ledger' = Delivered(spent, o)
  BY DEF ExecuteTakeBid, Open, Current, Placed, BidCoin, TypeOK, BidType
<1>2. ledger[o].delivered = 0 /\ ledger[o].refunded = 0 /\ ledger[o].held[u] = n
  BY <1>1, OpenUntaken DEF AccountInv, AccountOf, SettledOnce
<1>3. spent \in [Orders -> LedgerType]
  BY <1>1, HeldMoves DEF TypeOK
<1>4. /\ spent[o].delivered = 0 /\ spent[o].refunded = 0
      /\ spent[o].held[u] = n - n
      /\ \A v \in Users \ {u} : spent[o].held[v] = ledger[o].held[v]
  BY <1>1, <1>2, LedgerEntries
<1>5. /\ ledger'[o].delivered = 1 /\ ledger'[o].refunded = 0
      /\ ledger'[o].held = spent[o].held
  BY <1>1, <1>3, <1>4, DeliveredEntry
<1>6. n - n = 0
  BY <1>1
<1> HIDE DEF spent, n
<1> QED
  BY <1>1, <1>4, <1>5, <1>6, OpenUntaken, UserAssumption
     DEF AccountOf, SettledOnce, StakeHeld, Sold

\* Steps that change u's bid by a signed amount, on an active order.
LEMMA BidChangeAccount ==
    ASSUME TypeOK, AccountInv, NEW o \in Orders, NEW u \in Users,
           orders[o].loc = "active", orders' = orders,
           ledger'[o].delivered = ledger[o].delivered,
           ledger'[o].refunded = ledger[o].refunded,
           \A v \in Users \ {u} :
               bids'[o][v] = bids[o][v] /\ ledger'[o].held[v] = ledger[o].held[v],
           ledger'[o].held[u] =
               IF bids'[o][u].status = "Placed" THEN bids'[o][u].amount ELSE 0
    PROVE  AccountOf(o)'
<1>1. SettledOnce(o)'
  BY DEF AccountInv, AccountOf, SettledOnce
<1>2. ASSUME NEW v \in Users
      PROVE  StakeHeld(o, v)'
  BY OpenUntaken, UserAssumption DEF StakeHeld
<1> QED
  BY <1>1, <1>2 DEF AccountOf

LEMMA MakeBidAccount ==
    ASSUME TypeOK, AccountInv, NEW o \in Orders, NEW u \in Users,
           NEW amount \in BidAmounts, NEW expire \in BidExpiries,
           ExecuteMakeBid(o, u, amount, expire)
    PROVE  AccountOf(o)'
<1>1. amount \in Nat
  BY AmountAssumption
<1>2. /\ orders[o].loc = "active" /\ orders' = orders
      /\ bids[o][u].status # "Placed" /\ ledger' = Deposited(o, u, amount)
  BY DEF ExecuteMakeBid, Open, Biddable
<1>3. ledger[o].held[u] = 0
  BY <1>2, OpenUntaken
<1>4. /\ bids'[o][u].status = "Placed" /\ bids'[o][u].amount = amount
      /\ \A v \in Users \ {u} : bids'[o][v] = bids[o][v]
  BY DEF ExecuteMakeBid, TypeOK
<1>5. /\ ledger'[o].delivered = ledger[o].delivered
      /\ ledger'[o].refunded = ledger[o].refunded
      /\ ledger'[o].held[u] = amount
      /\ \A v \in Users \ {u} : ledger'[o].held[v] = ledger[o].held[v]
  BY <1>1, <1>2, <1>3, LedgerEntries
<1> QED
  BY <1>2, <1>4, <1>5, BidChangeAccount

LEMMA UpdateBidAccount ==
    ASSUME TypeOK, AccountInv, NEW o \in Orders, NEW u \in Users,
           NEW addition \in Additions, ExecuteUpdateBid(o, u, addition)
    PROVE  AccountOf(o)'
<1>1. addition \in Nat
  BY AmountAssumption
<1>2. /\ orders[o].loc = "active" /\ orders' = orders
      /\ bids[o][u].status = "Placed" /\ ledger' = Deposited(o, u, addition)
  BY DEF ExecuteUpdateBid, Open, Current, Placed
<1>3. ledger[o].held[u] = bids[o][u].amount
  BY <1>2, OpenUntaken
<1>4. /\ bids'[o][u].status = "Placed"
      /\ bids'[o][u].amount = bids[o][u].amount + addition
      /\ \A v \in Users \ {u} : bids'[o][v] = bids[o][v]
  BY <1>2 DEF ExecuteUpdateBid, Raised, TypeOK, BidType
<1>5. /\ ledger'[o].delivered = ledger[o].delivered
      /\ ledger'[o].refunded = ledger[o].refunded
      /\ ledger'[o].held[u] = bids[o][u].amount + addition
      /\ \A v \in Users \ {u} : ledger'[o].held[v] = ledger[o].held[v]
  BY <1>1, <1>2, <1>3, LedgerEntries
<1> QED
  BY <1>2, <1>4, <1>5, BidChangeAccount

LEMMA CancelBidAccount ==
    ASSUME TypeOK, AccountInv, NEW o \in Orders, NEW u \in Users,
           Placed(o, u), ExecuteCancelBid(o, u)
    PROVE  AccountOf(o)'
<1> DEFINE n == bids[o][u].amount
<1>1. n \in Nat
  BY DEF TypeOK, BidType
<1>2. /\ orders[o].loc = "active" /\ orders' = orders
      /\ bids[o][u].status = "Placed" /\ ledger' = Withdrawn(o, u, n)
  BY DEF ExecuteCancelBid, Open, Placed, BidCoin
<1>3. ledger[o].held[u] = n
  BY <1>2, OpenUntaken
<1>4. /\ bids'[o][u].status = "Cancelled"
      /\ \A v \in Users \ {u} : bids'[o][v] = bids[o][v]
  BY DEF ExecuteCancelBid, TypeOK, BidType
<1>5. /\ ledger'[o].delivered = ledger[o].delivered
      /\ ledger'[o].refunded = ledger[o].refunded
      /\ ledger'[o].held[u] = 0
      /\ \A v \in Users \ {u} : ledger'[o].held[v] = ledger[o].held[v]
  BY <1>1, <1>2, <1>3, LedgerEntries
<1> QED
  BY <1>2, <1>4, <1>5, BidChangeAccount

LEMMA AccountNext ==
    ASSUME TypeOK, AccountInv, CarefulNext
    PROVE  AccountInv'
<1>1. Next
  BY DEF CarefulNext, Next
<1>2. CompletedAway'
  BY <1>1, CompletedAwayNext DEF AccountInv
<1>3. ASSUME NEW o \in Orders, AccountOf(o)', OthersKept(o)
      PROVE  AccountInv'
  BY <1>2, <1>3 DEF AccountInv, AccountOf, SettledOnce, StakeHeld, OthersKept
<1>4. \/ UNCHANGED <<orders, bids, ledger>>
      \/ \E o \in Orders : AccountOf(o)' /\ OthersKept(o)
  <2>1. ASSUME NEW o \in Orders, ExecuteMakeSwap(o) \/ ExecuteCancelSwap(o)
        PROVE  AccountOf(o)' /\ OthersKept(o)
    BY <2>1, MakeSwapAccount, CancelSwapAccount
       DEF ExecuteMakeSwap, ExecuteCancelSwap, OthersKept, TypeOK
  <2>2. ASSUME NEW o \in Orders, NEW u \in Users,
               \/ ExecuteTakeSwap(o, u)
               \/ \E amount \in BidAmounts, expire \in BidExpiries :
                     ExecuteMakeBid(o, u, amount, expire)
               \/ \E addition \in Additions : ExecuteUpdateBid(o, u, addition)
               \/ orders[o].status = "Sync" /\ ExecuteTakeBid(o, u)
               \/ Placed(o, u) /\ ExecuteCancelBid(o, u)
        PROVE  AccountOf(o)' /\ OthersKept(o)
    <3>1. AccountOf(o)'
      BY <2>2, TakeSwapAccount, MakeBidAccount, UpdateBidAccount, TakeBidAccount,
         CancelBidAccount
    <3> QED
      BY <2>2, <3>1, ActsTouchOne
  <2> QED
    BY <2>1, <2>2 DEF CarefulNext, Guarded, ExecutePauseMarket,
                      ExecuteUnpauseMarket, SetMarket, Tick
<1>5. CASE UNCHANGED <<orders, bids, ledger>>
  BY <1>5 DEF AccountInv, CompletedAway, AccountOf, SettledOnce, StakeHeld
<1> QED
  BY <1>3, <1>4, <1>5

\* The accounts of every order agree with its records.
THEOREM AccountsCorrect == CarefulSpec => []AccountInv
<1>1. Init => AccountInv
  BY UserAssumption
     DEF Init, AccountInv, CompletedAway, AccountOf, SettledOnce, StakeHeld, NoOrder, NoBid
<1>2. TypeOK /\ AccountInv /\ [CarefulNext]_vars => AccountInv'
  <2>1. ASSUME AccountInv, UNCHANGED vars
        PROVE  AccountInv'
    BY <2>1 DEF vars, AccountInv, CompletedAway, AccountOf, SettledOnce, StakeHeld
  <2> QED
    BY <2>1, AccountNext
<1> QED
  BY <1>1, <1>2, CarefulIsSpec, TypeCorrect, PTL DEF CarefulSpec

\* The sell tokens of an order go out at most once, to a buyer or back.
THEOREM SoldOrReturnedCorrect == CarefulSpec => []SoldOrReturned
<1>1. AccountInv => SoldOrReturned
  BY DEF AccountInv, AccountOf, SettledOnce, SoldOrReturned, CompletedAway
<1> QED
  BY <1>1, AccountsCorrect, PTL

\* What a bidder put in is in the contract as long as the bid says so.
THEOREM StakesHeldCorrect == CarefulSpec => []StakesHeld
<1>1. AccountInv => StakesHeld
  BY DEF AccountInv, AccountOf, StakeHeld, StakesHeld, Placed
<1> QED
  BY <1>1, AccountsCorrect, PTL

-----------------------------------------------------------------------------
\* Careful callers: the account holds what is for sale and what is staked.

Stakes == Orders \X Users
HeldBy(e) == ledger[e[1]].held[e[2]]

LEMMA SaleType ==
    ASSUME TypeOK, NEW d \in Denoms
    PROVE  \A o \in Orders : ForSale(d)[o] \in Int
BY OfferFacts DEF ForSale, CoinType

LEMMA StakeType ==
    ASSUME TypeOK, NEW d \in Denoms
    PROVE  \A e \in Stakes : Staked(d)[e] \in Int
BY DEF Staked, Stakes, TypeOK, LedgerType

LEMMA FiniteStakes == IsFiniteSet(Stakes)
BY FiniteAssumption, FS_Product DEF Stakes

LEMMA SumsType ==
    ASSUME TypeOK, NEW d \in Denoms
    PROVE  /\ SumFunctionOnSet(ForSale(d), Orders) \in Int
           /\ SumFunctionOnSet(Staked(d), Stakes) \in Int
BY SaleType, StakeType, FiniteAssumption, FiniteStakes, SumType

\* One order put up for sale, or sold or returned.
LEMMA SaleSum ==
    ASSUME TypeOK, TypeOK', NEW d \in Denoms, NEW o \in Orders,
           \A x \in Orders \ {o} : orders'[x] = orders[x]
    PROVE  SumFunctionOnSet(ForSale(d)', Orders)
              = SumFunctionOnSet(ForSale(d), Orders) + ForSale(d)'[o] - ForSale(d)[o]
<1> DEFINE f == ForSale(d)
           g == ForSale(d)'
<1>1. \A x \in Orders : f[x] \in Int /\ g[x] \in Int
  BY OfferFacts DEF ForSale, CoinType
<1>2. \A x \in Orders \ {o} : f[x] = g[x]
  BY DEF ForSale
<1> HIDE DEF f, g
<1>3. SumFunctionOnSet(g, Orders) = SumFunctionOnSet(f, Orders) + g[o] - f[o]
  BY <1>1, <1>2, FiniteAssumption, SumChange
<1> QED BY <1>3 DEF f, g

\* One stake raised or paid out.
LEMMA StakeSum ==
    ASSUME TypeOK, TypeOK', NEW d \in Denoms, NEW e \in Stakes,
           \A x \in Stakes \ {e} : HeldBy(x)' = HeldBy(x)
    PROVE  SumFunctionOnSet(Staked(d)', Stakes)
              = SumFunctionOnSet(Staked(d), Stakes) + Staked(d)'[e] - Staked(d)[e]
<1> DEFINE f == Staked(d)
           g == Staked(d)'
<1>1. \A x \in Stakes : f[x] \in Int /\ g[x] \in Int
  BY DEF Staked, Stakes, TypeOK, LedgerType
<1>2. \A x \in Stakes \ {e} : f[x] = g[x]
  BY DEF Staked, Stakes, HeldBy
<1> HIDE DEF f, g
<1>3. SumFunctionOnSet(g, Stakes) = SumFunctionOnSet(f, Stakes) + g[e] - f[e]
  BY <1>1, <1>2, FiniteStakes, SumChange
<1> QED BY <1>3 DEF f, g

LEMMA StakesSame ==
    ASSUME \A x \in Stakes : HeldBy(x)' = HeldBy(x), NEW d \in Denoms
    PROVE  Staked(d)' = Staked(d)
BY DEF Staked, Stakes, HeldBy

LEMMA CreditedEntry ==
    ASSUME NEW account \in [Denoms -> Nat], NEW coin, coin.denom \in Denoms, NEW d \in Denoms
    PROVE  /\ Credited(account, coin)[d] =
                 IF coin.denom = d THEN account[d] + coin.amount ELSE account[d]
           /\ Debited(account, coin)[d] =
                 IF coin.denom = d THEN account[d] - coin.amount ELSE account[d]
BY DEF Credited, Debited

\* An order of which nothing but the sale changes.
LEMMA SaleBooks ==
    ASSUME TypeOK, TypeOK', BooksBalance, NEW o \in Orders,
           \A x \in Orders \ {o} : orders'[x] = orders[x],
           \A x \in Stakes : HeldBy(x)' = HeldBy(x),
           \A d \in Denoms : bank'[d] = bank[d] + ForSale(d)'[o] - ForSale(d)[o]
    PROVE  BooksBalance'
<1> SUFFICES ASSUME NEW d \in Denoms
             PROVE  bank'[d] = Reserve[d] + SumFunctionOnSet(ForSale(d)', Orders)
                                          + SumFunctionOnSet(Staked(d)', Stakes)
  BY DEF BooksBalance, Stakes
<1>1. bank[d] = Reserve[d] + SumFunctionOnSet(ForSale(d), Orders)
                           + SumFunctionOnSet(Staked(d), Stakes)
  BY DEF BooksBalance, Stakes
<1>2. Staked(d)' = Staked(d)
  BY StakesSame
<1>3. SumFunctionOnSet(ForSale(d)', Orders)
         = SumFunctionOnSet(ForSale(d), Orders) + ForSale(d)'[o] - ForSale(d)[o]
  BY SaleSum
<1>4. ForSale(d)[o] \in Int /\ ForSale(d)'[o] \in Int
  BY OfferFacts DEF ForSale, CoinType
<1>5. Reserve[d] \in Int
  BY AmountAssumption
<1> QED BY <1>1, <1>2, <1>3, <1>4, <1>5, SumsType

\* A sale and a stake change together, or the stake alone.
LEMMA StakeBooks ==
    ASSUME TypeOK, TypeOK', BooksBalance, NEW o \in Orders, NEW u \in Users,
           NEW sold \in Int, NEW more \in Int,
           \A x \in Orders \ {o} : orders'[x] = orders[x],
           \A d \in Denoms :
               ForSale(d)'[o] = ForSale(d)[o] - (IF Offer[o].sell.denom = d THEN sold ELSE 0),
           \A x \in Stakes \ {<<o, u>>} : HeldBy(x)' = HeldBy(x),
           ledger'[o].held[u] = ledger[o].held[u] + more,
           \A d \in Denoms :
               bank'[d] = bank[d] + (IF Offer[o].buy.denom = d THEN more ELSE 0)
                                  - (IF Offer[o].sell.denom = d THEN sold ELSE 0)
    PROVE  BooksBalance'
<1> SUFFICES ASSUME NEW d \in Denoms
             PROVE  bank'[d] = Reserve[d] + SumFunctionOnSet(ForSale(d)', Orders)
                                          + SumFunctionOnSet(Staked(d)', Stakes)
  BY DEF BooksBalance, Stakes
<1>1. bank[d] = Reserve[d] + SumFunctionOnSet(ForSale(d), Orders)
                           + SumFunctionOnSet(Staked(d), Stakes)
  BY DEF BooksBalance, Stakes
<1>2. <<o, u>> \in Stakes
  BY DEF Stakes
<1>3. SumFunctionOnSet(Staked(d)', Stakes)
         = SumFunctionOnSet(Staked(d), Stakes) + Staked(d)'[<<o, u>>] - Staked(d)[<<o, u>>]
  BY <1>2, StakeSum
<1>4. SumFunctionOnSet(ForSale(d)', Orders)
         = SumFunctionOnSet(ForSale(d), Orders) + ForSale(d)'[o] - ForSale(d)[o]
  BY SaleSum
<1>5. ForSale(d)[o] \in Int
  BY OfferFacts DEF ForSale, CoinType
<1>6. ledger[o].held[u] \in Int /\ Reserve[d] \in Int /\ bank[d] \in Int
  BY AmountAssumption DEF TypeOK, LedgerType
<1>7. Staked(d)'[<<o, u>>]
         = Staked(d)[<<o, u>>] + (IF Offer[o].buy.denom = d THEN more ELSE 0)
  BY <1>2, <1>6 DEF Staked, Stakes
<1>8. Staked(d)[<<o, u>>] \in Int
  BY <1>2, StakeType
<1>9. ForSale(d)'[o] = ForSale(d)[o] - (IF Offer[o].sell.denom = d THEN sold ELSE 0)
  OBVIOUS
<1>10. bank'[d] = bank[d] + (IF Offer[o].buy.denom = d THEN more ELSE 0)
                          - (IF Offer[o].sell.denom = d THEN sold ELSE 0)
  OBVIOUS
<1> DEFINE m == IF Offer[o].buy.denom = d THEN more ELSE 0
           n == IF Offer[o].sell.denom = d THEN sold ELSE 0
<1>11. m \in Int /\ n \in Int
  OBVIOUS
<1> HIDE DEF m, n
<1>12. SumFunctionOnSet(ForSale(d), Orders) \in Int /\ SumFunctionOnSet(Staked(d), Stakes) \in Int
  BY SumsType
<1>13. SumFunctionOnSet(Staked(d)', Stakes) = SumFunctionOnSet(Staked(d), Stakes) + m
  BY <1>3, <1>7, <1>8, <1>11, <1>12 DEF m
<1>14. SumFunctionOnSet(ForSale(d)', Orders) = SumFunctionOnSet(ForSale(d), Orders) - n
  BY <1>4, <1>5, <1>9, <1>11, <1>12 DEF n
<1>15. bank'[d] = bank[d] + m - n
  BY <1>10 DEF m, n
<1> QED BY <1>1, <1>6, <1>11, <1>12, <1>13, <1>14, <1>15

LEMMA MakeSwapBooks ==
    ASSUME TypeOK, TypeOK', BooksBalance, NEW o \in Orders, ExecuteMakeSwap(o)
    PROVE  BooksBalance'
<1>1. /\ \A x \in Orders \ {o} : orders'[x] = orders[x]
      /\ orders[o].loc = "none" /\ orders'[o].loc = "active" /\ orders'[o].status = "Sync"
      /\ bank' = Credited(bank, Offer[o].sell) /\ ledger' = ledger
  BY DEF ExecuteMakeSwap, NoOrder, TypeOK
<1>2. \A d \in Denoms :
        /\ ForSale(d)[o] = 0
        /\ ForSale(d)'[o] = IF Offer[o].sell.denom = d THEN Offer[o].sell.amount ELSE 0
  BY <1>1 DEF ForSale
<1>3. \A d \in Denoms : bank'[d] = bank[d] + ForSale(d)'[o] - ForSale(d)[o]
  <2>1. bank \in [Denoms -> Nat] /\ Offer[o].sell.denom \in Denoms /\ Offer[o].sell.amount \in Nat
    BY OfferFacts DEF TypeOK, CoinType
  <2> QED BY <1>1, <1>2, <2>1, CreditedEntry
<1>4. \A x \in Stakes : HeldBy(x)' = HeldBy(x)
  BY <1>1 DEF HeldBy
<1> QED BY <1>1, <1>3, <1>4, SaleBooks

LEMMA SellBooks ==
    ASSUME TypeOK, TypeOK', BooksBalance, NEW o \in Orders,
           ExecuteCancelSwap(o) \/ \E u \in Users : ExecuteTakeSwap(o, u)
    PROVE  BooksBalance'
<1>1. /\ \A x \in Orders \ {o} : orders'[x] = orders[x]
      /\ orders[o].loc = "active" /\ orders[o].status = "Sync"
      /\ orders'[o].loc # "active" \/ orders'[o].status # "Sync"
      /\ bank' = Debited(bank, Offer[o].sell)
  BY DEF ExecuteCancelSwap, ExecuteTakeSwap, Open, Untaken, Sold, TypeOK, OrderType
<1>2. \A d \in Denoms :
        /\ ForSale(d)[o] = IF Offer[o].sell.denom = d THEN Offer[o].sell.amount ELSE 0
        /\ ForSale(d)'[o] = 0
  BY <1>1 DEF ForSale
<1>3. \A d \in Denoms : bank'[d] = bank[d] + ForSale(d)'[o] - ForSale(d)[o]
  <2>1. bank \in [Denoms -> Nat] /\ Offer[o].sell.denom \in Denoms /\ Offer[o].sell.amount \in Nat
    BY OfferFacts DEF TypeOK, CoinType
  <2> QED BY <1>1, <1>2, <2>1, CreditedEntry
<1>4. \A x \in Stakes : HeldBy(x)' = HeldBy(x)
  <2>1. \/ ledger' = [ledger EXCEPT ![o].refunded = @ + 1]
        \/ ledger' = [ledger EXCEPT ![o].delivered = @ + 1]
    BY DEF ExecuteCancelSwap, ExecuteTakeSwap, Delivered
  <2>2. \A x \in Orders : ledger'[x].held = ledger[x].held
    BY <2>1 DEF TypeOK, LedgerType
  <2> QED BY <2>2 DEF Stakes, HeldBy
<1> QED BY <1>1, <1>3, <1>4, SaleBooks

\* A bid whose stake changes while the order stays as it is.
LEMMA BidBooks ==
    ASSUME TypeOK, TypeOK', BooksBalance, NEW o \in Orders, NEW u \in Users, NEW n \in Nat,
           orders' = orders,
           \/ bank' = Credited(bank, BidCoin(o, n)) /\ ledger' = Deposited(o, u, n)
           \/ bank' = Debited(bank, BidCoin(o, n)) /\ ledger' = Withdrawn(o, u, n)
    PROVE  BooksBalance'
<1>1. /\ bank \in [Denoms -> Nat] /\ BidCoin(o, n).denom = Offer[o].buy.denom
      /\ BidCoin(o, n).denom \in Denoms /\ BidCoin(o, n).amount = n
  BY OfferFacts DEF TypeOK, CoinType, BidCoin
<1>2. \A x \in Stakes \ {<<o, u>>} : HeldBy(x)' = HeldBy(x)
  BY DEF Deposited, Withdrawn, Stakes, HeldBy, TypeOK, LedgerType
<1>3. \A d \in Denoms : ForSale(d)'[o] = ForSale(d)[o] /\ ForSale(d)[o] \in Int
  BY SaleType DEF ForSale
<1>4. ledger[o].held[u] \in Int
  BY DEF TypeOK, LedgerType
<1>5. CASE bank' = Credited(bank, BidCoin(o, n)) /\ ledger' = Deposited(o, u, n)
  <2>1. ledger'[o].held[u] = ledger[o].held[u] + n
    BY <1>5, LedgerEntries
  <2>2. \A d \in Denoms :
          /\ ForSale(d)'[o] = ForSale(d)[o] - (IF Offer[o].sell.denom = d THEN 0 ELSE 0)
          /\ bank'[d] = bank[d] + (IF Offer[o].buy.denom = d THEN n ELSE 0)
                                - (IF Offer[o].sell.denom = d THEN 0 ELSE 0)
    BY <1>1, <1>3, <1>5, CreditedEntry
  <2> QED BY <1>2, <2>1, <2>2, 0 \in Int, StakeBooks
<1>6. CASE bank' = Debited(bank, BidCoin(o, n)) /\ ledger' = Withdrawn(o, u, n)
  <2>1. ledger'[o].held[u] = ledger[o].held[u] + (-n) /\ -n \in Int
    BY <1>4, <1>6, LedgerEntries
  <2>2. \A d \in Denoms :
          /\ ForSale(d)'[o] = ForSale(d)[o] - (IF Offer[o].sell.denom = d THEN 0 ELSE 0)
          /\ bank'[d] = bank[d] + (IF Offer[o].buy.denom = d THEN -n ELSE 0)
                                - (IF Offer[o].sell.denom = d THEN 0 ELSE 0)
    BY <1>1, <1>3, <1>6, CreditedEntry
  <2> QED BY <1>2, <2>1, <2>2, 0 \in Int, StakeBooks
<1> QED BY <1>5, <1>6

LEMMA TakeBidBooks ==
    ASSUME TypeOK, TypeOK', BooksBalance, NEW o \in Orders, NEW u \in Users,
           orders[o].status = "Sync", ExecuteTakeBid(o, u)
    PROVE  BooksBalance'
<1> DEFINE n == bids[o][u].amount
           price == BidCoin(o, n)
           kept == Debited(bank, price)
           spent == Withdrawn(o, u, n)
<1>1. /\ n \in Nat /\ bank \in [Denoms -> Nat]
      /\ price.denom = Offer[o].buy.denom /\ price.amount = n /\ price.denom \in Denoms
      /\ Offer[o].sell.denom \in Denoms /\ Offer[o].sell.amount \in Nat
  BY OfferFacts DEF TypeOK, BidType, CoinType, BidCoin
<1>2. /\ \A x \in Orders \ {o} : orders'[x] = orders[x]
      /\ orders[o].loc = "active" /\ orders'[o].loc = "inactive"
      /\ Covers(bank, price) /\ bank' = Debited(kept, Offer[o].sell)
      /\ ledger' = Delivered(spent, o)
  BY DEF ExecuteTakeBid, Open, Sold, BidCoin, TypeOK
<1>3. kept \in [Denoms -> Nat]
  BY <1>1, <1>2, BidCoinType
<1>4. spent \in [Orders -> LedgerType] /\ ledger \in [Orders -> LedgerType]
  BY <1>1, HeldMoves DEF TypeOK
<1>5. \A d \in Denoms :
        ForSale(d)'[o] = ForSale(d)[o] - (IF Offer[o].sell.denom = d
                                          THEN Offer[o].sell.amount ELSE 0)
  BY <1>1, <1>2 DEF ForSale
<1>6. \A d \in Denoms :
        /\ kept[d] = IF Offer[o].buy.denom = d THEN bank[d] - n ELSE bank[d]
        /\ bank'[d] = IF Offer[o].sell.denom = d THEN kept[d] - Offer[o].sell.amount
                                                 ELSE kept[d]
  <2> HIDE DEF price, n
  <2> QED BY <1>1, <1>2, <1>3, CreditedEntry
<1>7. \A d \in Denoms :
        bank'[d] = bank[d] + (IF Offer[o].buy.denom = d THEN -n ELSE 0)
                           - (IF Offer[o].sell.denom = d THEN Offer[o].sell.amount ELSE 0)
  <2> HIDE DEF kept, n
  <2> QED BY <1>1, <1>3, <1>6
<1>8. ledger[o].held[u] \in Int
  BY DEF TypeOK, LedgerType
<1>9. ledger'[o].held[u] = ledger[o].held[u] + (-n) /\ -n \in Int
  <2>1. ledger'[o].held[u] = spent[o].held[u]
    <3> HIDE DEF spent
    <3> QED BY <1>2, <1>4, DeliveredEntry
  <2>2. spent[o].held[u] = ledger[o].held[u] - n
    <3> HIDE DEF n
    <3> QED BY <1>1, LedgerEntries
  <2> HIDE DEF n, spent
  <2> QED BY <1>1, <1>8, <2>1, <2>2
<1>10. \A x \in Stakes \ {<<o, u>>} : HeldBy(x)' = HeldBy(x)
  <2>1. \A x \in Orders, v \in Users :
           <<x, v>> # <<o, u>> => spent[x].held[v] = ledger[x].held[v]
    BY <1>4 DEF Withdrawn, LedgerType
  <2>2. \A x \in Orders : ledger'[x].held = spent[x].held
    <3> HIDE DEF spent
    <3> QED BY <1>2, <1>4 DEF Delivered, LedgerType
  <2> HIDE DEF spent
  <2> QED BY <2>1, <2>2 DEF Stakes, HeldBy
<1> HIDE DEF n, price, kept, spent
<1>11. Offer[o].sell.amount \in Int
  BY <1>1
<1> QED BY <1>2, <1>5, <1>7, <1>9, <1>10, <1>11, StakeBooks

LEMMA BooksNext == TypeOK /\ TypeOK' /\ BooksBalance /\ [CarefulNext]_vars => BooksBalance'
<1> SUFFICES ASSUME TypeOK, TypeOK', BooksBalance, [CarefulNext]_vars
             PROVE  BooksBalance'
  OBVIOUS
<1>1. ASSUME NEW o \in Orders, ExecuteMakeSwap(o) \/ ExecuteCancelSwap(o)
      PROVE  BooksBalance'
  BY <1>1, MakeSwapBooks, SellBooks
<1>2. ASSUME NEW o \in Orders, NEW u \in Users, ExecuteTakeSwap(o, u)
      PROVE  BooksBalance'
  BY <1>2, SellBooks
<1>3. ASSUME NEW o \in Orders, NEW u \in Users, NEW amount \in BidAmounts,
             NEW expire \in BidExpiries, ExecuteMakeBid(o, u, amount, expire)
      PROVE  BooksBalance'
  <2>1. amount \in Nat
    BY AmountAssumption
  <2> QED BY <1>3, <2>1, BidBooks DEF ExecuteMakeBid
<1>4. ASSUME NEW o \in Orders, NEW u \in Users, NEW addition \in Additions,
             ExecuteUpdateBid(o, u, addition)
      PROVE  BooksBalance'
  <2>1. addition \in Nat
    BY AmountAssumption
  <2> QED BY <1>4, <2>1, BidBooks DEF ExecuteUpdateBid
<1>5. ASSUME NEW o \in Orders, NEW u \in Users, ExecuteCancelBid(o, u)
      PROVE  BooksBalance'
  <2>1. bids[o][u].amount \in Nat
    BY DEF TypeOK, BidType
  <2>2. /\ orders' = orders /\ bank' = Debited(bank, BidCoin(o, bids[o][u].amount))
        /\ ledger' = Withdrawn(o, u, bids[o][u].amount)
    BY <1>5 DEF ExecuteCancelBid, BidCoin
  <2> QED BY <2>1, <2>2, BidBooks
<1>6. CASE UNCHANGED <<orders, ledger, bank>>
  BY <1>6 DEF BooksBalance, ForSale, Staked
<1>7. CASE UNCHANGED vars
  BY <1>6, <1>7 DEF vars
<1>8. CASE ExecutePauseMarket \/ ExecuteUnpauseMarket \/ Tick
  BY <1>6, <1>8 DEF ExecutePauseMarket, ExecuteUnpauseMarket, SetMarket, Tick
<1> QED BY <1>1, <1>2, <1>3, <1>4, <1>5, <1>7, <1>8, TakeBidBooks DEF CarefulNext, Guarded

\* However many orders and bidders share the account, it holds what is for
\* sale and what is staked in each denomination, for callers who take no bid of
\* a cancelled order.
THEOREM BooksBalanceCorrect == CarefulSpec => []BooksBalance
<1>1. Init => BooksBalance
  <2> SUFFICES ASSUME Init, NEW d \in Denoms
               PROVE  bank[d] = Reserve[d] + SumFunctionOnSet(ForSale(d), Orders)
                                           + SumFunctionOnSet(Staked(d), Orders \X Users)
    BY DEF BooksBalance
  <2>1. \A o \in Orders : ForSale(d)[o] = 0
    BY DEF Init, NoOrder, ForSale
  <2>2. \A e \in Stakes : Staked(d)[e] = 0
    BY DEF Init, Staked, Stakes
  <2>3. SumFunctionOnSet(ForSale(d), Orders) = 0
    BY <2>1, FiniteAssumption, SumZero
  <2>4. SumFunctionOnSet(Staked(d), Stakes) = 0
    BY <2>2, FiniteStakes, SumZero
  <2>5. bank[d] = Reserve[d] /\ Reserve[d] \in Int
    BY AmountAssumption DEF Init
  <2> QED BY <2>3, <2>4, <2>5 DEF Stakes
<1> QED
  BY <1>1, BooksNext, CarefulIsSpec, TypeCorrect, PTL DEF CarefulSpec

-----------------------------------------------------------------------------
\* Lists of bids, page by page.

\* The keys of the indexes of bids: an amount or a time, and the rank of the
\* other part of the primary key.
KeyType == Nat \X Nat

\* Keys are compared as pairs of numbers: a strict total order.
LEMMA LessFacts ==
    ASSUME NEW k \in KeyType, NEW l \in KeyType, NEW m \in KeyType
    PROVE  /\ ~ Less(k, k)
           /\ Less(k, l) /\ Less(l, m) => Less(k, m)
           /\ k = l \/ Less(k, l) \/ Less(l, k)
<1>1. k[1] \in Nat /\ k[2] \in Nat /\ l[1] \in Nat /\ l[2] \in Nat /\ m[1] \in Nat /\ m[2] \in Nat
  BY DEF KeyType
<1>2. k[1] = l[1] /\ k[2] = l[2] => k = l
  BY DEF KeyType
<1> QED
  BY <1>1, <1>2 DEF Less

\* So is the order of a query, in either direction.
LEMMA PrecedesFacts ==
    ASSUME NEW type, NEW k \in KeyType, NEW l \in KeyType, NEW m \in KeyType
    PROVE  /\ ~ Precedes(type, k, k)
           /\ Precedes(type, k, l) /\ Precedes(type, l, m) => Precedes(type, k, m)
           /\ k = l \/ Precedes(type, k, l) \/ Precedes(type, l, k)
<1>1. /\ ~ Less(k, k)
      /\ Less(k, l) /\ Less(l, m) => Less(k, m)
      /\ Less(m, l) /\ Less(l, k) => Less(m, k)
      /\ k = l \/ Less(k, l) \/ Less(l, k)
  BY LessFacts
<1> QED
  BY <1>1 DEF Precedes

\* The offset of the first page is no key of an index.
LEMMA NoOffsetIsNoKey == NoOffset \notin KeyType
BY DEF NoOffset, KeyType

\* The paged queries of bids.
QueryTypes == AmountTypes \cup TimeTypes \cup {"BidByBidder"}

\* A query is about an order, or about a bidder.
Asks(type, subject) ==
    \/ type \in AmountTypes \cup TimeTypes /\ subject \in Orders
    \/ type = "BidByBidder" /\ subject \in Users

\* An index is of finitely many bids.
LEMMA IndexFacts ==
    ASSUME NEW type, NEW subject, Asks(type, subject)
    PROVE  Indexed(type, subject) \subseteq Bids /\ IsFiniteSet(Indexed(type, subject))
<1>1. Indexed(type, subject) \subseteq Bids
  BY DEF Asks, Indexed, Bids, AmountTypes, TimeTypes
<1>2. IsFiniteSet(Bids)
  BY FiniteAssumption, FS_Product DEF Bids
<1> QED BY <1>1, <1>2, FS_Subset

\* The key of a bid is a key, as its amount and its time are numbers.
LEMMA KeyFacts ==
    ASSUME TypeOK, NEW type, NEW b \in Bids
    PROVE  /\ IndexKey(type, b) \in KeyType
           /\ BidOf(b) \in BidType
           /\ b[1] \in Orders /\ b[2] \in Users
<1>1. b[1] \in Orders /\ b[2] \in Users
  BY DEF Bids
<1>2. BidOf(b) \in BidType
  BY <1>1 DEF BidOf, TypeOK
<1>3. Rank[b[1]] \in Nat /\ Rank[b[2]] \in Nat /\ BidOf(b).amount \in Nat /\ BidOf(b).received \in Nat
  BY <1>1, <1>2, RankAssumption DEF BidType
<1> QED BY <1>1, <1>2, <1>3 DEF IndexKey, KeyType

\* No two bids of an index have the same key.
LEMMA KeysDiffer ==
    ASSUME NEW type, NEW subject, Asks(type, subject),
           NEW b \in Indexed(type, subject), NEW c \in Indexed(type, subject),
           IndexKey(type, b) = IndexKey(type, c)
    PROVE  b = c
<1>1. /\ b[1] \in Orders /\ b[2] \in Users /\ b = <<b[1], b[2]>>
      /\ c[1] \in Orders /\ c[2] \in Users /\ c = <<c[1], c[2]>>
  BY IndexFacts DEF Bids
<1>2. CASE type \in AmountTypes \cup TimeTypes
  <2>1. b[1] = c[1]
    BY <1>2 DEF Indexed, AmountTypes, TimeTypes
  <2>2. Rank[b[2]] = Rank[c[2]]
    BY <1>2 DEF IndexKey
  <2> QED BY <1>1, <2>1, <2>2, RankAssumption
<1>3. CASE type = "BidByBidder"
  <2>1. b[2] = c[2]
    BY <1>3 DEF Indexed
  <2>2. Rank[b[1]] = Rank[c[1]]
    BY <1>3 DEF IndexKey, AmountTypes, TimeTypes
  <2> QED BY <1>1, <2>1, <2>2, RankAssumption
<1> QED BY <1>2, <1>3 DEF Asks

-----------------------------------------------------------------------------
\* The order of a query on the bids of its index.
BidOrder(type, some) ==
    {e \in some \X some : Precedes(type, IndexKey(type, e[1]), IndexKey(type, e[2]))}

\* On the bids of an index it is a strict total order: their keys differ.
LEMMA BidOrderFacts ==
    ASSUME TypeOK, NEW type, NEW subject, Asks(type, subject),
           NEW a \in Indexed(type, subject), NEW b \in Indexed(type, subject),
           NEW c \in Indexed(type, subject)
    PROVE  LET K(x) == IndexKey(type, x)
           IN  /\ ~ Precedes(type, K(a), K(a))
               /\ Precedes(type, K(a), K(b)) /\ Precedes(type, K(b), K(c))
                  => Precedes(type, K(a), K(c))
               /\ a = b \/ Precedes(type, K(a), K(b)) \/ Precedes(type, K(b), K(a))
<1>1. a \in Bids /\ b \in Bids /\ c \in Bids
  BY IndexFacts
<1>2. IndexKey(type, a) \in KeyType /\ IndexKey(type, b) \in KeyType /\ IndexKey(type, c) \in KeyType
  BY <1>1, KeyFacts
<1>3. IndexKey(type, a) = IndexKey(type, b) => a = b
  BY KeysDiffer
<1> HIDE DEF IndexKey, Precedes, KeyType, Asks, Indexed, TypeOK
<1> QED BY <1>2, <1>3, PrecedesFacts

\* The first n of a set of bids are those that come before the others, and
\* there is one unless the set is empty.
LEMMA FirstBidsFacts ==
    ASSUME TypeOK, NEW type, NEW subject, Asks(type, subject),
           NEW some \in SUBSET Indexed(type, subject), NEW n \in Nat \ {0}
    PROVE  /\ FirstBids(type, some, n) \subseteq some
           /\ some # {} => FirstBids(type, some, n) # {}
           /\ \A b \in some \ FirstBids(type, some, n), c \in FirstBids(type, some, n) :
                 Precedes(type, IndexKey(type, c), IndexKey(type, b))
<1> DEFINE Prior(b) ==
               {c \in some : Precedes(type, IndexKey(type, c), IndexKey(type, b))}
<1>1. FirstBids(type, some, n) = {b \in some : Cardinality(Prior(b)) < n}
  BY DEF FirstBids
<1>2. \A b \in some : IsFiniteSet(Prior(b)) /\ Cardinality(Prior(b)) \in Nat
  <2> TAKE b \in some
  <2>1. Prior(b) \subseteq Indexed(type, subject)
    OBVIOUS
  <2> QED BY <2>1, IndexFacts, FS_Subset, FS_CardinalityType
<1>3. ASSUME some # {}  PROVE FirstBids(type, some, n) # {}
  <2> DEFINE R == BidOrder(type, some)
  <2>1. IsFiniteSet(some)
    BY IndexFacts, FS_Subset
  <2>2. /\ \A a \in some : <<a, a>> \notin R
        /\ \A a, b, c \in some : <<a, b>> \in R /\ <<b, c>> \in R => <<a, c>> \in R
    BY BidOrderFacts DEF BidOrder
  <2>3. PICK m \in some : \A q \in some : <<q, m>> \notin R
    <3> HIDE DEF R
    <3> QED BY <1>3, <2>1, <2>2, FirstExists
  <2>4. Prior(m) = {}
    BY <2>3 DEF BidOrder
  <2>5. Cardinality(Prior(m)) = 0
    BY <2>4, FS_EmptySet
  <2> QED BY <1>1, <2>5
<1>4. ASSUME NEW b \in some \ FirstBids(type, some, n),
             NEW c \in FirstBids(type, some, n),
             ~ Precedes(type, IndexKey(type, c), IndexKey(type, b))
      PROVE  FALSE
  <2>1. b \in some /\ c \in some /\ b # c
    BY <1>1
  <2>2. Precedes(type, IndexKey(type, b), IndexKey(type, c))
    BY <2>1, <1>4, BidOrderFacts
  <2>3. Prior(b) \subseteq Prior(c)
    <3>1. ASSUME NEW x \in Prior(b)  PROVE x \in Prior(c)
      <4>1. x \in some /\ Precedes(type, IndexKey(type, x), IndexKey(type, b))
        OBVIOUS
      <4>2. Precedes(type, IndexKey(type, x), IndexKey(type, c))
        BY <4>1, <2>1, <2>2, BidOrderFacts
      <4> QED BY <4>1, <4>2
    <3> QED BY <3>1
  <2>4. Cardinality(Prior(b)) <= Cardinality(Prior(c))
    <3> HIDE DEF Prior
    <3> QED BY <1>2, <2>1, <2>3, FS_Subset
  <2>5. Cardinality(Prior(c)) < n /\ ~ (Cardinality(Prior(b)) < n)
    BY <1>1, <2>1
  <2> HIDE DEF Prior
  <2> QED BY <1>2, <2>1, <2>4, <2>5
<1>5. FirstBids(type, some, n) \subseteq some
  BY <1>1
<1> QED BY <1>3, <1>4, <1>5

\* The last bid of a page.
LEMMA LastBidFacts ==
    ASSUME TypeOK, NEW type, NEW subject, Asks(type, subject),
           NEW some \in SUBSET Indexed(type, subject), some # {}
    PROVE  /\ LastBid(type, some) \in some
           /\ \A c \in some \ {LastBid(type, some)} :
                 Precedes(type, IndexKey(type, c), IndexKey(type, LastBid(type, some)))
<1> DEFINE R == {e \in some \X some : <<e[2], e[1]>> \in BidOrder(type, some)}
<1>1. IsFiniteSet(some)
  BY IndexFacts, FS_Subset
<1>2. /\ \A a \in some : <<a, a>> \notin R
      /\ \A a, b, c \in some : <<a, b>> \in R /\ <<b, c>> \in R => <<a, c>> \in R
  BY BidOrderFacts DEF BidOrder
<1>3. PICK m \in some : \A q \in some : <<q, m>> \notin R
  <2> HIDE DEF R
  <2> QED BY <1>1, <1>2, FirstExists
<1>4. \A c \in some \ {m} : Precedes(type, IndexKey(type, c), IndexKey(type, m))
  BY <1>3, BidOrderFacts DEF BidOrder
<1> QED BY <1>4 DEF LastBid

-----------------------------------------------------------------------------
\* Typing of a scan: it asks one query of an index.
ScanTypeOK ==
    /\ scan \in [type: QueryTypes, subject: Orders \cup Users \cup {NoUser},
                 limit: Limits \cup {None}, offset: KeyType \cup {NoOffset},
                 seen: SUBSET Bids, again: SUBSET Bids, steady: SUBSET Bids,
                 raised: SUBSET Bids, state: {"idle", "reading", "done"}]
    /\ scan.state # "idle" => Asks(scan.type, scan.subject) /\ scan.limit \in Limits

\* The pages so far have gone past b.
Behind(b) ==
    scan.offset # NoOffset /\ ~ Precedes(scan.type, scan.offset, IndexKey(scan.type, b))

\* The two ways in which a raised bid may escape the order of the pages.
MaySeeTwice(b) == scan.type = "BidByAmount" /\ b \in scan.raised
MayMiss(b) == scan.type = "BidByAmountReverse" /\ b \in scan.raised

\* What the client has been given of the bids that stay is what its pages
\* have gone past.
ScanAgrees ==
    \A b \in scan.steady :
        /\ b \in Indexed(scan.type, scan.subject) /\ PlacedBid(b)
        /\ b \in scan.seen => Behind(b) \/ MaySeeTwice(b)
        /\ Behind(b) => b \in scan.seen \/ MayMiss(b)
        /\ b \in scan.again => MaySeeTwice(b)
        /\ scan.state # "idle"
        /\ scan.state = "done" => Behind(b)

\* The inductive invariant of the scan.
ScanInv == ScanTypeOK /\ ScanAgrees

\* Before the first page there is no scan to agree with.
LEMMA InitScan == ScanInit => ScanInv
BY DEF ScanInit, ScanInv, ScanTypeOK, ScanAgrees, NoScan, QueryTypes, AmountTypes, TimeTypes

\* A page has room for at least one bid, whatever limit the client gives.
LEMMA LimitFacts ==
    ASSUME NEW limit \in Limits
    PROVE  QueryLimit(limit) \in Nat \ {0}
BY LimitAssumption DEF QueryLimit, None

\* A scan that starts has gone past no bid and has been given none.
LEMMA StartKeeps ==
    ASSUME TypeOK, ScanInv, NEW type, NEW subject, Asks(type, subject),
           NEW limit \in Limits, StartScan(type, subject, limit)
    PROVE  ScanInv'
<1>1. scan' = [type |-> type, subject |-> subject, limit |-> limit, offset |-> NoOffset,
               seen |-> {}, again |-> {},
               steady |-> {b \in Indexed(type, subject) : PlacedBid(b)},
               raised |-> {}, state |-> "reading"]
  BY DEF StartScan, NoScan
<1>2. type \in QueryTypes /\ subject \in Orders \cup Users
  BY DEF Asks, QueryTypes
<1>3. Indexed(type, subject) \subseteq Bids
  BY IndexFacts
<1>4. ScanTypeOK'
  <2>1. scan'.steady \in SUBSET Bids
    BY <1>1, <1>3
  <2> HIDE DEF Asks, QueryTypes, Bids, PlacedBid, Indexed
  <2> QED BY <1>1, <1>2, <2>1 DEF ScanTypeOK, Asks
<1>5. bids' = bids
  BY DEF StartScan, vars
<1>6. ScanAgrees'
  BY <1>1, <1>5 DEF ScanAgrees, Behind, PlacedBid, BidOf, Indexed
<1> QED BY <1>4, <1>6 DEF ScanInv

\* A page gives the client the bids it goes past, and goes past no other bid
\* that is placed; the page that is empty leaves none ahead.
LEMMA ReadKeeps ==
    ASSUME TypeOK, ScanInv, ReadPage
    PROVE  ScanInv'
<1> DEFINE type == scan.type
           subject == scan.subject
           n == QueryLimit(scan.limit)
           Key(b) == IndexKey(type, b)
           some == {b \in Ahead(type, subject, scan.offset) : BidOf(b).status = "Placed"}
           page == FirstBids(type, some, n)
<1>1. /\ Asks(type, subject) /\ n \in Nat \ {0}
      /\ scan.offset = NoOffset \/ scan.offset \in KeyType
      /\ scan.state = "reading"
  BY LimitFacts DEF ScanInv, ScanTypeOK, ReadPage
<1>2. some \in SUBSET Indexed(type, subject)
  BY DEF Ahead
<1>3. /\ page \subseteq some
      /\ some # {} => page # {}
      /\ \A b \in some \ page, c \in page : Precedes(type, Key(c), Key(b))
  <2> HIDE DEF some, type, subject, n
  <2> QED BY <1>1, <1>2, FirstBidsFacts
<1>4. bids' = bids /\ page = QueryBids(type, subject, "Placed", scan.offset, n)
  BY DEF ReadPage, vars, QueryBids
<1>5. ASSUME NEW b
      PROVE  /\ PlacedBid(b)' <=> PlacedBid(b)
             /\ \A t : IndexKey(t, b)' = IndexKey(t, b)
  BY <1>4 DEF PlacedBid, BidOf, IndexKey
<1>6. \A b \in scan.steady :
        /\ b \in Indexed(type, subject)
        /\ b \in some <=> ~ Behind(b)
  BY DEF ScanInv, ScanAgrees, Behind, Ahead, PlacedBid
<1>7. CASE page = {}
  <2>1. scan' = [scan EXCEPT !.state = "done"]
    BY <1>7, <1>4 DEF ReadPage
  <2>2. \A b \in scan.steady : Behind(b)
    BY <1>3, <1>6, <1>7
  <2>3. ScanTypeOK'
    <3> HIDE DEF page, some, n, type, subject
    <3>1. scan' \in [type: QueryTypes, subject: Orders \cup Users \cup {NoUser},
                     limit: Limits \cup {None}, offset: KeyType \cup {NoOffset},
                     seen: SUBSET Bids, again: SUBSET Bids, steady: SUBSET Bids,
                     raised: SUBSET Bids, state: {"idle", "reading", "done"}]
      BY <2>1 DEF ScanInv, ScanTypeOK
    <3>2. scan'.type = scan.type /\ scan'.subject = scan.subject /\ scan'.limit = scan.limit
      BY <2>1 DEF ScanInv, ScanTypeOK
    <3> QED BY <1>1, <3>1, <3>2 DEF ScanInv, ScanTypeOK, Asks, type, subject
  <2>4. ScanAgrees'
    BY <2>1, <2>2, <1>5 DEF ScanInv, ScanAgrees, Behind, MaySeeTwice, MayMiss, Indexed
  <2> QED BY <2>3, <2>4 DEF ScanInv
<1>8. CASE page # {}
  <2> DEFINE m == LastBid(type, page)
  <2>1. m \in page /\ \A c \in page \ {m} : Precedes(type, Key(c), Key(m))
    <3>1. page \in SUBSET Indexed(type, subject)
      BY <1>2, <1>3
    <3> HIDE DEF page, type, subject
    <3> QED BY <1>1, <1>8, <3>1, LastBidFacts
  <2>2. scan' = [scan EXCEPT !.offset = Key(m), !.seen = scan.seen \cup page,
                             !.again = scan.again \cup (scan.seen \cap page)]
    BY <1>8, <1>4 DEF ReadPage
  <2>3. m \in Indexed(type, subject) /\ m \in some /\ page \subseteq Bids
    BY <2>1, <1>2, <1>3, <1>1, IndexFacts
  <2>4. Key(m) \in KeyType
    BY <2>3, <1>1, KeyFacts, IndexFacts
  <2>5. ScanTypeOK'
    <3> HIDE DEF page, m, Key
    <3> QED BY <2>2, <2>3, <2>4 DEF ScanInv, ScanTypeOK, Asks
  <2>6. Key(m) # NoOffset
    BY <2>4, NoOffsetIsNoKey
  <2>7. \A b \in Indexed(type, subject) \cap some : b \in page <=> ~ Precedes(type, Key(m), Key(b))
    <3> TAKE b \in Indexed(type, subject) \cap some
    <3>1. b \in page => b = m \/ Precedes(type, Key(b), Key(m))
      BY <2>1
    <3>2. /\ ~ Precedes(type, Key(m), Key(m))
          /\ ~ (Precedes(type, Key(b), Key(m)) /\ Precedes(type, Key(m), Key(b)))
      BY <2>3, <1>1, BidOrderFacts
    <3>3. b \notin page => Precedes(type, Key(m), Key(b))
      BY <2>1, <1>3
    <3> QED BY <3>1, <3>2, <3>3
  <2>8. \A b \in Indexed(type, subject) \ some :
            PlacedBid(b) => ~ Precedes(type, Key(m), Key(b))
    <3> TAKE b \in Indexed(type, subject) \ some
    <3> HAVE PlacedBid(b)
    <3>1. scan.offset # NoOffset /\ ~ Precedes(type, scan.offset, Key(b))
      BY DEF Ahead, PlacedBid
    <3>2. Precedes(type, scan.offset, Key(m))
      BY <3>1, <2>3 DEF Ahead
    <3>3. Key(b) \in KeyType
      BY <1>1, KeyFacts, IndexFacts
    <3>4. scan.offset \in KeyType
      BY <1>1, <3>1
    <3> HIDE DEF Key
    <3> QED BY <3>1, <3>2, <3>3, <3>4, <2>4, PrecedesFacts
  <2>9. \A b \in scan.steady : Behind(b)' <=> Behind(b) \/ b \in page
    <3> TAKE b \in scan.steady
    <3>1. Behind(b)' <=> ~ Precedes(type, Key(m), Key(b))
      <4>1. scan'.offset = Key(m) /\ scan'.type = type
        BY <2>2 DEF ScanInv, ScanTypeOK
      <4>2. IndexKey(scan.type, b)' = Key(b)
        BY <4>1, <1>4 DEF IndexKey, BidOf
      <4>3. Behind(b)' <=> /\ scan'.offset # NoOffset
                           /\ ~ Precedes(scan'.type, scan'.offset, IndexKey(scan.type, b)')
        BY DEF Behind
      <4> HIDE DEF Key, type
      <4> QED BY <4>1, <4>2, <4>3, <2>6
    <3>2. CASE b \in some
      BY <3>1, <3>2, <2>7, <1>6
    <3>3. CASE b \notin some
      <4>1. b \in Indexed(type, subject) /\ PlacedBid(b)
        BY DEF ScanInv, ScanAgrees
      <4> QED BY <3>1, <3>3, <4>1, <2>8, <1>6
    <3> QED BY <3>2, <3>3
  <2>10. ScanAgrees'
    <3> HIDE DEF page, m, Key
    <3>1. /\ scan'.steady = scan.steady /\ scan'.type = type /\ scan'.subject = subject
          /\ scan'.raised = scan.raised /\ scan'.state = "reading"
          /\ scan'.seen = scan.seen \cup page
          /\ scan'.again = scan.again \cup (scan.seen \cap page)
      BY <2>2, <1>1 DEF ScanInv, ScanTypeOK
    <3>2. ASSUME NEW b \in scan.steady
          PROVE  /\ b \in Indexed(type, subject) /\ PlacedBid(b)
                 /\ b \in scan.seen \cup page => Behind(b)' \/ MaySeeTwice(b)
                 /\ Behind(b)' => b \in scan.seen \cup page \/ MayMiss(b)
                 /\ b \in scan.again \cup (scan.seen \cap page) => MaySeeTwice(b)
      <4>1. /\ b \in Indexed(type, subject) /\ PlacedBid(b)
            /\ b \in scan.seen => Behind(b) \/ MaySeeTwice(b)
            /\ Behind(b) => b \in scan.seen \/ MayMiss(b)
            /\ b \in scan.again => MaySeeTwice(b)
        BY DEF ScanInv, ScanAgrees
      <4>2. b \in page => ~ Behind(b)
        BY <1>3, <1>6
      <4> QED BY <4>1, <4>2, <2>9
    <3>3. \A b : MaySeeTwice(b)' = MaySeeTwice(b) /\ MayMiss(b)' = MayMiss(b)
      BY <3>1 DEF MaySeeTwice, MayMiss
    <3>4. Indexed(type, subject)' = Indexed(type, subject)
      BY <3>1 DEF Indexed
    <3> QED BY <3>1, <3>2, <3>3, <3>4, <1>5 DEF ScanAgrees
  <2> QED BY <2>5, <2>10 DEF ScanInv
<1> QED BY <1>7, <1>8

-----------------------------------------------------------------------------
\* What a handler may do to a bid that was placed and is placed afterwards:
\* nothing, or add to it.
LEMMA PlacedBidMoves ==
    ASSUME TypeOK, [Next]_vars, NEW b \in Bids, PlacedBid(b), PlacedBid(b)'
    PROVE  \/ BidOf(b)' = BidOf(b)
           \/ /\ BidOf(b)'.amount \in Nat /\ BidOf(b)'.amount > BidOf(b).amount
              /\ BidOf(b)'.received = BidOf(b).received
<1> DEFINE Kept == BidOf(b)' = BidOf(b)
           RaisedBid == /\ BidOf(b)'.amount \in Nat
                        /\ BidOf(b)'.amount > BidOf(b).amount
                        /\ BidOf(b)'.received = BidOf(b).received
<1>1. b[1] \in Orders /\ b[2] \in Users /\ b = <<b[1], b[2]>>
  BY DEF Bids
<1>2. /\ bids \in [Orders -> [Users -> BidType]] /\ BidOf(b) \in BidType
  BY KeyFacts DEF TypeOK
<1>3. bids' = bids => Kept
  BY DEF BidOf
<1>4. ASSUME NEW o \in Orders, NEW u \in Users, NEW amount, NEW expire,
             ExecuteMakeBid(o, u, amount, expire)
      PROVE  Kept
  <2>1. bids[o][u].status # "Placed"
    BY <1>4 DEF ExecuteMakeBid, Biddable
  <2>2. b # <<o, u>>
    BY <2>1 DEF PlacedBid, BidOf
  <2> QED BY <1>1, <1>2, <1>4, <2>2 DEF ExecuteMakeBid, BidOf
<1>5. ASSUME NEW o \in Orders, NEW u \in Users, NEW addition \in Additions,
             ExecuteUpdateBid(o, u, addition)
      PROVE  Kept \/ RaisedBid
  <2>1. bids' = [bids EXCEPT ![o][u].amount = bids[o][u].amount + addition]
    BY <1>5 DEF ExecuteUpdateBid, Raised
  <2>2. CASE b = <<o, u>>
    <3>1. BidOf(b)' = [BidOf(b) EXCEPT !.amount = BidOf(b).amount + addition]
      BY <1>1, <1>2, <2>1, <2>2 DEF BidOf
    <3>2. addition \in Nat \ {0}
      BY AmountAssumption
    <3> QED BY <1>2, <3>1, <3>2 DEF BidType
  <2>3. CASE b # <<o, u>>
    BY <1>1, <1>2, <2>1, <2>3 DEF BidOf
  <2> QED BY <2>2, <2>3
<1>6. ASSUME NEW o \in Orders, NEW u \in Users, ExecuteCancelBid(o, u)
      PROVE  Kept
  <2>1. bids' = [bids EXCEPT ![o][u].status = "Cancelled"]
    BY <1>6 DEF ExecuteCancelBid
  <2>2. CASE b = <<o, u>>
    <3>1. BidOf(b)'.status = "Cancelled"
      BY <1>1, <1>2, <2>1, <2>2 DEF BidOf, BidType
    <3> QED BY <3>1 DEF PlacedBid
  <2>3. CASE b # <<o, u>>
    BY <1>1, <1>2, <2>1, <2>3 DEF BidOf
  <2> QED BY <2>2, <2>3
<1>7. ASSUME NEW o \in Orders, ExecuteMakeSwap(o) \/ ExecuteCancelSwap(o)
      PROVE  bids' = bids
  BY <1>7 DEF ExecuteMakeSwap, ExecuteCancelSwap
<1>8. ASSUME NEW o \in Orders, NEW u \in Users, ExecuteTakeSwap(o, u) \/ ExecuteTakeBid(o, u)
      PROVE  bids' = bids
  BY <1>8 DEF ExecuteTakeSwap, ExecuteTakeBid
<1>9. ASSUME ExecutePauseMarket \/ ExecuteUnpauseMarket \/ Tick
      PROVE  bids' = bids
  BY <1>9 DEF ExecutePauseMarket, ExecuteUnpauseMarket, SetMarket, Tick
<1>10. ASSUME UNCHANGED vars  PROVE bids' = bids
  BY <1>10 DEF vars
<1> HIDE DEF Kept, RaisedBid
<1>11. Kept \/ RaisedBid
  BY <1>3, <1>4, <1>5, <1>6, <1>7, <1>8, <1>9, <1>10 DEF Next, Guarded
<1> QED BY <1>11 DEF Kept, RaisedBid

\* A bid that is raised moves up in the lists by amount, and nowhere else.
LEMMA RaisedKey ==
    ASSUME TypeOK, NEW type \in QueryTypes, NEW b \in Bids,
           BidOf(b)'.amount \in Nat, BidOf(b)'.amount > BidOf(b).amount,
           BidOf(b)'.received = BidOf(b).received, NEW k \in KeyType
    PROVE  /\ type \notin AmountTypes => IndexKey(type, b)' = IndexKey(type, b)
           /\ type = "BidByAmount" /\ Precedes(type, k, IndexKey(type, b)) =>
                 Precedes(type, k, IndexKey(type, b)')
           /\ type = "BidByAmountReverse" /\ Precedes(type, k, IndexKey(type, b)') =>
                 Precedes(type, k, IndexKey(type, b))
<1>1. type \notin AmountTypes => IndexKey(type, b)' = IndexKey(type, b)
  BY DEF IndexKey
<1>2. ASSUME type \in AmountTypes
      PROVE  /\ IndexKey(type, b) = <<BidOf(b).amount, Rank[b[2]]>>
             /\ IndexKey(type, b)' = <<BidOf(b)'.amount, Rank[b[2]]>>
  BY <1>2 DEF IndexKey
<1>3. BidOf(b).amount \in Nat /\ Rank[b[2]] \in Nat
  BY KeyFacts, RankAssumption DEF BidType
<1>4. k[1] \in Nat /\ k[2] \in Nat
  BY DEF KeyType
<1>5. ASSUME type \in AmountTypes
      PROVE  /\ Less(k, IndexKey(type, b)) => Less(k, IndexKey(type, b)')
             /\ Less(IndexKey(type, b)', k) => Less(IndexKey(type, b), k)
  BY <1>2, <1>3, <1>4, <1>5 DEF Less
<1> QED
  BY <1>1, <1>5 DEF Precedes, ReverseTypes, AmountTypes

\* Whatever the contract does between two pages moves no bid that stays to the
\* other side of the offset, except one that is raised, by amount.
LEMMA TradeKeeps ==
    ASSUME TypeOK, ScanInv, Trade
    PROVE  ScanInv'
<1> DEFINE steady == {b \in scan.steady : PlacedBid(b)'}
           raised == {b \in scan.steady : BidOf(b)'.amount # BidOf(b).amount}
<1>1. scan' = [scan EXCEPT !.steady = steady, !.raised = scan.raised \cup raised]
  BY DEF Trade, PlacedBid, BidOf
<1>2. ScanTypeOK'
  <2>1. steady \in SUBSET Bids /\ scan.raised \cup raised \in SUBSET Bids
    BY DEF ScanInv, ScanTypeOK
  <2> HIDE DEF steady, raised
  <2> QED BY <1>1, <2>1 DEF ScanInv, ScanTypeOK, Asks
<1>3. /\ scan'.type = scan.type /\ scan'.subject = scan.subject
      /\ scan'.offset = scan.offset /\ scan'.seen = scan.seen
      /\ scan'.again = scan.again /\ scan'.state = scan.state
      /\ scan'.steady = steady /\ scan'.raised = scan.raised \cup raised
  BY <1>1 DEF ScanInv, ScanTypeOK
<1>4. ASSUME NEW b \in steady
      PROVE  /\ b \in Indexed(scan.type, scan.subject) /\ PlacedBid(b)'
             /\ b \in scan.seen => Behind(b)' \/ MaySeeTwice(b)'
             /\ Behind(b)' => b \in scan.seen \/ MayMiss(b)'
             /\ b \in scan.again => MaySeeTwice(b)'
             /\ scan.state # "idle" /\ scan.state # "done"
  <2>1. /\ b \in Indexed(scan.type, scan.subject) /\ PlacedBid(b) /\ PlacedBid(b)'
        /\ b \in scan.seen => Behind(b) \/ MaySeeTwice(b)
        /\ Behind(b) => b \in scan.seen \/ MayMiss(b)
        /\ b \in scan.again => MaySeeTwice(b)
        /\ scan.state # "idle" /\ scan.state # "done"
    BY DEF ScanInv, ScanAgrees, Trade
  <2>2. b \in Bids /\ scan.type \in QueryTypes
    BY DEF ScanInv, ScanTypeOK
  <2>3. /\ MaySeeTwice(b) => MaySeeTwice(b)'
        /\ MayMiss(b) => MayMiss(b)'
    BY <1>3 DEF MaySeeTwice, MayMiss
  <2>4. Behind(b)' <=> /\ scan.offset # NoOffset
                       /\ ~ Precedes(scan.type, scan.offset, IndexKey(scan.type, b)')
    BY <1>3 DEF Behind
  <2>5. CASE BidOf(b)' = BidOf(b)
    <3>1. IndexKey(scan.type, b)' = IndexKey(scan.type, b)
      BY <1>3, <2>5 DEF IndexKey
    <3>2. Behind(b)' <=> Behind(b)
      BY <2>4, <3>1 DEF Behind
    <3> QED BY <2>1, <2>3, <3>2
  <2>6. CASE /\ BidOf(b)'.amount \in Nat /\ BidOf(b)'.amount > BidOf(b).amount
             /\ BidOf(b)'.received = BidOf(b).received
    <3>1. b \in scan'.raised
      <4>1. BidOf(b).amount \in Nat
        BY <2>2, KeyFacts DEF BidType
      <4> QED BY <1>3, <2>6, <4>1
    <3>2. CASE scan.type \notin AmountTypes
      <4>1. IndexKey(scan.type, b)' = IndexKey(scan.type, b)
        BY <1>3, <2>6, <3>2 DEF IndexKey
      <4>2. Behind(b)' <=> Behind(b)
        BY <2>4, <4>1 DEF Behind
      <4> QED BY <2>1, <2>3, <4>2
    <3>3. CASE scan.type = "BidByAmount"
      <4>1. MaySeeTwice(b)' /\ ~ MayMiss(b)
        BY <1>3, <3>1, <3>3 DEF MaySeeTwice, MayMiss
      <4>2. Behind(b)' => Behind(b)
        BY <1>3, <2>2, <2>4, <2>6, <3>3, RaisedKey, NoOffsetIsNoKey DEF Behind, ScanInv, ScanTypeOK
      <4> QED BY <2>1, <4>1, <4>2
    <3>4. CASE scan.type = "BidByAmountReverse"
      <4>1. MayMiss(b)' /\ ~ MaySeeTwice(b)
        BY <1>3, <3>1, <3>4 DEF MaySeeTwice, MayMiss
      <4>2. Behind(b) => Behind(b)'
        BY <1>3, <2>2, <2>4, <2>6, <3>4, RaisedKey, NoOffsetIsNoKey DEF Behind, ScanInv, ScanTypeOK
      <4> QED BY <2>1, <4>1, <4>2
    <3> QED BY <3>2, <3>3, <3>4 DEF AmountTypes
  <2> QED
    <3>1. [Next]_vars
      BY DEF Trade
    <3> QED BY <2>1, <2>2, <2>5, <2>6, <3>1, PlacedBidMoves
<1>5. ScanAgrees'
  <2>1. Indexed(scan.type, scan.subject)' = Indexed(scan.type, scan.subject)
    BY <1>3 DEF Indexed
  <2> HIDE DEF steady, raised
  <2> QED BY <1>3, <1>4, <2>1 DEF ScanAgrees
<1> QED BY <1>2, <1>5 DEF ScanInv

\* A stutter.
LEMMA ScanUnchanged == ScanInv /\ UNCHANGED scanVars => ScanInv'
<1> SUFFICES ASSUME ScanInv, UNCHANGED scanVars  PROVE ScanInv'
  OBVIOUS
<1>1. scan' = scan /\ bids' = bids
  BY DEF scanVars, vars
<1>2. ScanTypeOK'
  BY <1>1 DEF ScanInv, ScanTypeOK, Asks
<1>3. ASSUME NEW b
      PROVE  /\ PlacedBid(b)' <=> PlacedBid(b)
             /\ Behind(b)' <=> Behind(b)
             /\ MaySeeTwice(b)' <=> MaySeeTwice(b)
             /\ MayMiss(b)' <=> MayMiss(b)
  BY <1>1 DEF PlacedBid, BidOf, Behind, IndexKey, MaySeeTwice, MayMiss
<1>4. ScanAgrees'
  BY <1>1, <1>3 DEF ScanInv, ScanAgrees, Indexed
<1> QED BY <1>2, <1>4 DEF ScanInv

\* Every step of the client or the contract.
LEMMA ScanKept == TypeOK /\ ScanInv /\ [ScanNext]_scanVars => ScanInv'
<1> SUFFICES ASSUME TypeOK, ScanInv, [ScanNext]_scanVars  PROVE ScanInv'
  OBVIOUS
<1>1. ASSUME NEW limit \in Limits, NEW type \in AmountTypes \cup TimeTypes, NEW o \in Orders,
             StartScan(type, o, limit)
      PROVE  ScanInv'
  BY <1>1, StartKeeps DEF Asks
<1>2. ASSUME NEW limit \in Limits, NEW u \in Users, StartScan("BidByBidder", u, limit)
      PROVE  ScanInv'
  BY <1>2, StartKeeps DEF Asks
<1> QED
  BY <1>1, <1>2, ReadKeeps, TradeKeeps, ScanUnchanged DEF ScanNext

\* The client is one more reader: the contract does what it does without it.
LEMMA ScanIsStep == [ScanNext]_scanVars => [Next]_vars
BY DEF ScanNext, StartScan, ReadPage, Trade, scanVars

LEMMA ScanIsSpec == ScanSpec => Spec
<1>1. ScanInit => Init
  BY DEF ScanInit
<1> QED BY <1>1, ScanIsStep, PTL DEF ScanSpec, Spec

\* What the agreement says of the bids a scan has passed is the property.
LEMMA AgreesIsFaithful == ScanInv => BidScanFaithful
BY DEF ScanInv, ScanAgrees, BidScanFaithful, PassedBid, Behind, MaySeeTwice, MayMiss

\* A client that reads a list of bids page by page, while orders and bids are
\* made, raised, taken and cancelled between its pages, is given every bid that
\* stays placed once and only once, but for a bid that is raised while the list
\* is read by amount: it may be met twice going up, and missed going down.
THEOREM BidScanFaithfulCorrect == ScanSpec => []BidScanFaithful
<1>1. ScanSpec => []TypeOK
  BY ScanIsSpec, TypeCorrect, PTL
<1>2. ScanSpec => []ScanInv
  BY InitScan, ScanKept, <1>1, PTL DEF ScanSpec
<1> QED BY <1>2, AgreesIsFaithful, PTL
=============================================================================
