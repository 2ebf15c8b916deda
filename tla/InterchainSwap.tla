--------------------------- MODULE InterchainSwap ---------------------------
(***************************************************************************)
(* The inter-chain atomic swap as a whole: users, admins and the relayer   *)
(* act on every instance of the contract, in any order.                    *)
(***************************************************************************)
EXTENDS BidHandlers, Functions

Environment ==
    \/ \E c, d \in Chains : IbcChannelConnect(c, d)
    \/ \E c \in Chains : Tick(c) \/ ExecutePauseMarket(c) \/ ExecuteUnpauseMarket(c)

\* The relayer takes one step with a packet: delivery, acknowledgement, timeout.
Relay == SwapRelay \/ BidRelay

Next ==
    \/ SwapRequest
    \/ BidRequest
    \/ Relay
    \/ Environment

Spec == Init /\ [][Next]_vars

\* Anyone may relay a packet and a step that failed can be tried again, so a
\* packet that some handler would accept is not left alone for ever.
RelayOf(p) ==
    \/ /\ p.type \in SwapTypes
       /\ \/ OnReceivedMake(p) \/ AckMakeSwap(p) \/ RefundMakeSwap(p)
          \/ OnReceivedTake(p) \/ RefuseTake(p) \/ AckTakeSwap(p) \/ RefundTakeSwap(p)
          \/ OnReceivedCancel(p) \/ RefuseCancel(p) \/ AckCancelSwap(p) \/ DropCancelSwap(p)
    \/ /\ p.type \in BidTypes
       /\ \/ OnReceivedMakeBid(p) \/ AckMakeBid(p) \/ RefundMakeBid(p)
          \/ OnReceivedTakeBid(p) \/ RefuseTakeBidLate(p) \/ RefuseTakeBid(p) \/ AckTakeBid(p)
          \/ OnReceivedCancelBid(p) \/ RefuseCancelBid(p) \/ AckCancelBid(p)
          \/ OnReceivedUpdateBid(p) \/ RefuseUpdateBid(p) \/ AckUpdateBid(p)
          \/ RefundUpdateBid(p) \/ DropBidPacket(p)

RelayNumber(o, n) == \E p \in packets : p.order = o /\ p.seq = n /\ RelayOf(p)

Fairness ==
    \A o \in Orders : \A n \in 0 .. MaxPackets[o] - 1 : WF_vars(RelayNumber(o, n))
FairSpec == Spec /\ Fairness

-----------------------------------------------------------------------------
\* Safety, for every order.

\* The sell tokens leave the home chain's contract at most once in favour of
\* a buyer, however many takers and accepted bids race for them.
DeliveredOnce == \A o \in Orders : ledger[o].delivered <= 1

\* The maker is paid at most once, only for tokens that were delivered, and
\* on account of the very buyer who received them.
PaidForDelivery ==
    \A o \in Orders :
        /\ ledger[o].paid <= ledger[o].delivered
        /\ ledger[o].paid = 1 => remote[o].taker = native[o].taker

\* A sale that is closed on the away chain is closed on the home chain.
\* (The converse takes time: the acknowledgement is on its way.)
SettledHomeFirst ==
    \A o \in Orders :
        remote[o].loc = "inactive" =>
            /\ native[o].loc = "inactive"
            /\ native[o].status = "Complete" /\ remote[o].status = "Complete"

\* The sell tokens go back to the maker at most once, whichever of the
\* cancellations it asked for, and the failed creation, comes first.
RefundedOnce == \A o \in Orders : ledger[o].refunded <= 1

-----------------------------------------------------------------------------
\* Safety of orders without bids: the swap is atomic and its books balance.

PlainOrders == {o \in Orders : ~Offer[o].takeBids}

Outstanding(o, type) == {p \in packets : p.order = o /\ p.type = type}

\* The sell tokens are either sold or returned, never both: a cancellation
\* cannot overtake a take, in any interleaving of the two chains.
SoldOrReturned ==
    \A o \in PlainOrders : ledger[o].delivered + ledger[o].refunded <= 1

\* An order is locked on the away chain exactly while one TakeSwap, of the
\* user who locked it, is unsettled.
LockHasPacket ==
    \A o \in PlainOrders :
        remote[o].loc = "active" =>
            /\ Cardinality(Outstanding(o, "TakeSwap")) =
                   IF remote[o].taker = NoUser THEN 0 ELSE 1
            /\ \A p \in Outstanding(o, "TakeSwap") : p.who = remote[o].taker

\* The contract holds a taker's tokens exactly while that taker has the
\* order locked: no refund or payment is lost or made twice.
HeldWhileLocked ==
    \A o \in PlainOrders, u \in Users :
        ledger[o].held[u] =
            IF remote[o].loc = "active" /\ remote[o].taker = u
            THEN Offer[o].buy ELSE 0

\* The sell tokens of an unsettled order, on its home chain, and the buy
\* tokens of one that is locked, on its away chain.
Unsettled(c) ==
    [o \in Orders |->
        IF /\ Home(o) = c /\ native[o].loc # "none"
           /\ ledger[o].delivered + ledger[o].refunded = 0
        THEN Offer[o].sell ELSE 0]
Taken(c) ==
    [o \in Orders |->
        IF Away(o) = c /\ Found(remote[o]) /\ remote[o].taker # NoUser
        THEN Offer[o].buy ELSE 0]

\* Orders that share a contract account do not spend each other's tokens:
\* beyond the reserve, the account holds the sell tokens of its unsettled
\* native orders and the buy tokens of its locked remote orders, no more and
\* no less.
BooksBalance ==
    PlainOrders = Orders =>
        \A c \in Chains :
            bank[c] = Reserve[c] + SumFunctionOnSet(Unsettled(c), Orders)
                                 + SumFunctionOnSet(Taken(c), Orders)

\* A cancelled order is never sold: once the away chain has cancelled it, no
\* TakeSwap is on its way and none will be accepted.
CancelIsFinal ==
    \A o \in PlainOrders :
        remote[o].status = "Cancel" =>
            Outstanding(o, "TakeSwap") = {} /\ ledger[o].delivered = 0

\* A failed take can always be refunded: while a TakeSwap is unsettled, the
\* away chain still finds its order.
TakeRefundable ==
    \A p \in packets :
        p.type = "TakeSwap" /\ p.order \in PlainOrders => Found(remote[p.order])

-----------------------------------------------------------------------------
\* Action properties.

\* A record never comes back from the inactive list, and there it is frozen.
InactiveFrozen ==
    [][\A o \in Orders :
        /\ native[o].loc = "inactive" => native'[o] = native[o]
        /\ remote[o].loc = "inactive" => remote'[o] = remote[o]]_vars

\* A locked order changes hands only through the refund: the lock is never
\* stolen by another taker.
LockNotStolen ==
    [][\A o \in PlainOrders :
        remote[o].taker # NoUser =>
            remote'[o].taker \in {NoUser, remote[o].taker}]_vars

-----------------------------------------------------------------------------
\* Liveness of orders without bids, given a fair relayer.

\* A taker's lock is resolved: the swap completes or the lock is released.
\* (The maker's address on the away chain is taken to be valid.)
LockResolved ==
    \A o \in PlainOrders, u \in Users :
        Payable(Offer[o].buy, MakerFee[Away(o)]) =>
            (Found(remote[o]) /\ remote[o].taker = u
                ~> remote[o].taker # u \/ remote[o].loc = "inactive")

\* Once the taker has the sell tokens, the maker gets the buy tokens, if the
\* fee leaves any and the maker's address is valid: otherwise the
\* acknowledgement fails for ever.
DeliveryIsPaid ==
    \A o \in PlainOrders :
        Payable(Offer[o].buy, MakerFee[Away(o)]) =>
            (ledger[o].delivered = 1 ~> ledger[o].paid = 1)

\* A cancellation the away chain made is followed by the refund.
CancelIsRefunded ==
    \A o \in PlainOrders : remote[o].status = "Cancel" ~> ledger[o].refunded = 1
=============================================================================
