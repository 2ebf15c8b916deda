--------------------------- MODULE SwapInvariants ---------------------------
(***************************************************************************)
(* Why the safety properties of InterchainSwap hold: three invariants,     *)
(* each inductive on top of the ones before it.  SettlementInv follows a   *)
(* sale, CancelInv a cancellation, both for every order; PlainInv adds     *)
(* what is true of orders without bids only.                               *)
(***************************************************************************)
EXTENDS InterchainSwap

-----------------------------------------------------------------------------
\* How a sale is settled, step by step, on both chains.

BuyTypes == {"TakeSwap", "TakeBid"}

\* Nothing exists about an order before it is made.
NothingBefore ==
    \A o \in Orders :
        native[o].loc = "none" =>
            remote[o].loc = "none" /\ \A p \in packets : p.order # o

\* An order is announced by one packet, and mirrored only on its arrival.
AnnouncedOnce ==
    \A p \in packets :
        p.type = "MakeSwap" =>
            /\ p.state = "sent" => remote[p.order].loc = "none"
            /\ \A q \in packets :
                  q.type = "MakeSwap" /\ q.order = p.order => q = p

\* A record is in the inactive list exactly if its side of the sale was paid.
PaidMeansInactive ==
    \A o \in Orders :
        /\ ledger[o].delivered = IF native[o].loc = "inactive" THEN 1 ELSE 0
        /\ ledger[o].paid = IF remote[o].loc = "inactive" THEN 1 ELSE 0

\* A purchase the home chain agreed to is the one it closed the order with.
AgreedSale ==
    \A p \in packets :
        p.type \in BuyTypes /\ p.state = "ok" =>
            /\ native[p.order].loc = "inactive"
            /\ native[p.order].status = "Complete"
            /\ native[p.order].taker = p.who

\* An order closed on the away chain was closed by the same sale at home.
ClosedAlike ==
    \A o \in Orders :
        remote[o].loc = "inactive" =>
            /\ remote[o].status = "Complete"
            /\ native[o].loc = "inactive"
            /\ native[o].status = "Complete"
            /\ native[o].taker = remote[o].taker

\* The five together are inductive: every sale goes through announcement,
\* agreement of the home chain, and payment, in this order and once.
SettlementInv ==
    /\ NothingBefore
    /\ AnnouncedOnce
    /\ PaidMeansInactive
    /\ AgreedSale
    /\ ClosedAlike

-----------------------------------------------------------------------------
\* How an order is cancelled.

\* An order without bids has none: no message about one, and no record.
NoBidsAbout ==
    /\ \A p \in packets : p.order \in PlainOrders => p.type \in SwapTypes
    /\ \A o \in PlainOrders, u \in Users : remoteBids[o][u] = NoBid

\* The away chain has cancelled the order.
CancelStands(o) ==
    remote[o].loc = "active" /\ remote[o].status = "Cancel"

\* It did so, or did so and then a bid of the order was taken after all.
Sealed(o) == CancelStands(o) \/ (Offer[o].takeBids /\ remote[o].loc = "inactive")

\* Only an order that nobody has locked is cancelled.
CancelledIsFree ==
    \A o \in Orders :
        /\ remote[o].loc = "none" => remote[o] = NoOrder
        /\ remote[o].status = "Cancel" =>
              remote[o].loc = "active" /\ remote[o].taker = NoUser

\* A TakeSwap belongs to the one who locked the order, and there is one.
TakeHoldsLock ==
    \A p \in packets :
        p.type = "TakeSwap" =>
            /\ remote[p.order].loc # "none"
            /\ remote[p.order].loc = "active" =>
                  remote[p.order].taker = p.who /\ remote[p.order].status # "Cancel"
            /\ p.amount = Offer[p.order].buy
            /\ \A q \in packets :
                  q.type = "TakeSwap" /\ q.order = p.order => q = p

\* One cancellation at most is agreed to, and its refund is still due.
AgreedCancel ==
    \A p \in packets :
        p.type = "CancelSwap" /\ p.state = "ok" =>
            /\ Sealed(p.order)
            /\ ledger[p.order].refunded = 0
            /\ \A q \in packets :
                  q.type = "CancelSwap" /\ q.state = "ok" /\ q.order = p.order
                  => q = p

\* The maker was refunded if the order was cancelled, or never mirrored and
\* never will be.
RefundHasReason ==
    \A o \in Orders :
        /\ ledger[o].refunded \in {0, 1}
        /\ ledger[o].refunded = 1 =>
              /\ native[o].loc # "none"
              /\ \/ Sealed(o)
                 \/ /\ remote[o].loc = "none"
                    /\ \A p \in packets : ~(p.order = o /\ p.type = "MakeSwap")

\* While the announcement is under way nothing was refunded.
AnnouncedUnrefunded ==
    \A p \in packets :
        p.type = "MakeSwap" /\ p.state # "ok" =>
            remote[p.order].loc = "none" /\ ledger[p.order].refunded = 0

CancelInv ==
    /\ NoBidsAbout
    /\ CancelledIsFree
    /\ TakeHoldsLock
    /\ AgreedCancel
    /\ RefundHasReason
    /\ AnnouncedUnrefunded

-----------------------------------------------------------------------------
\* Orders without bids.

\* Their lock is held by a TakeSwap, until the order is closed.
LockHasTake ==
    /\ \A o \in PlainOrders :
          Found(remote[o]) /\ remote[o].taker # NoUser =>
              \E p \in packets : p.order = o /\ p.type = "TakeSwap"
    /\ TakeRefundable

\* Sold only to the one who locked them, and not before the home chain agreed.
SoldToTaker ==
    /\ \A o \in PlainOrders :
          ledger[o].delivered = 1 => remote[o].taker # NoUser
    /\ \A p \in packets :
          p.order \in PlainOrders /\ p.type = "TakeSwap" /\ p.state # "ok" =>
              ledger[p.order].delivered = 0

PlainInv ==
    /\ LockHasTake
    /\ SoldToTaker
    /\ HeldWhileLocked
=============================================================================
