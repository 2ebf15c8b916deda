---------------------------- MODULE BidHandlers -----------------------------
(***************************************************************************)
(* Bids.  A bidder locks tokens on the away chain; the bid is recorded on  *)
(* both chains.  The maker accepts one there with TakeBid, which is        *)
(* settled on the home chain when received and on the away chain when      *)
(* acknowledged.  CancelBid and UpdateBid change both records in turn.     *)
(***************************************************************************)
EXTENDS SwapHandlers

\* bids().has(key)
Has(bid) == bid.status # "none"

InStatus(bid, status) == [bid EXCEPT !.status = status]
Raised(bid, addition) == [bid EXCEPT !.amount = @ + addition]

NewBid(status, amount, expire) ==
    [status |-> status, amount |-> amount, expire |-> expire]

SetRemoteBid(o, u, bid) == remoteBids' = [remoteBids EXCEPT ![o][u] = bid]
SetNativeBid(o, u, bid) == nativeBids' = [nativeBids EXCEPT ![o][u] = bid]

\* u gets this amount of what it put into o back.
PayBack(o, u, amount) ==
    /\ Covers(Away(o), amount)
    /\ bank' = Paid(Away(o), amount)
    /\ ledger' = [ledger EXCEPT ![o] = TakenOut(@, u, amount)]

\* u puts this amount into o.
Deposit(o, u, amount) ==
    /\ bank' = Locked(Away(o), amount)
    /\ ledger' = [ledger EXCEPT ![o] = PutIn(@, u, amount)]

\* A bid packet, which goes from the away chain to the home chain.
SendBidPacket(o, type, u, amount, expire) ==
    SendPacket(Away(o), Home(o), NewPacket(o, type, u, amount, expire))

-----------------------------------------------------------------------------
\* MakeBid.

\* Fault: only a bid whose answer is out counts as live.
LiveUnanswered(bid) == bid.status = "Initial"

Live(bid) == bid.status \in {"Initial", "Placed"}

\* execute_make_bid: one live bid per user and order.
ExecuteMakeBid(o, u, amount, expire) ==
    /\ Found(remote[o])
    /\ amount >= Offer[o].minBid
    /\ Offer[o].takeBids
    /\ remote[o].taker = NoUser
    /\ ~Live(remoteBids[o][u])
    /\ SetRemoteBid(o, u, NewBid("Initial", amount, expire))
    /\ Deposit(o, u, amount)
    /\ SendBidPacket(o, "MakeBid", u, amount, expire)
    /\ UNCHANGED <<netVars, swapVars, nativeBids>>

\* Fault: the record of an earlier bid is kept.
OnReceivedMakeBidOnce(p) ==
    LET o == p.order
    IN  /\ Arrives(p, "MakeBid", Away(o), Home(o))
        /\ IF Has(nativeBids[o][p.who]) THEN nativeBids' = nativeBids
           ELSE SetNativeBid(o, p.who, NewBid("Placed", p.amount, p.expire))
        /\ WriteAck(p, "ok")
        /\ UNCHANGED <<netVars, swapVars, remoteBids, bank, ledger>>

\* on_received_make_bid: no check at all, an earlier record is overwritten.
OnReceivedMakeBid(p) ==
    LET o == p.order
    IN  /\ Arrives(p, "MakeBid", Away(o), Home(o))
        /\ SetNativeBid(o, p.who, NewBid("Placed", p.amount, p.expire))
        /\ WriteAck(p, "ok")
        /\ UNCHANGED <<netVars, swapVars, remoteBids, bank, ledger>>

\* on_packet_success, MakeBid: the bid is placed, whatever became of it.
AckMakeBid(p) ==
    LET o == p.order
    IN  /\ Succeeded(p, "MakeBid")
        /\ SetRemoteBid(o, p.who, InStatus(remoteBids[o][p.who], "Placed"))
        /\ Consume(p)
        /\ UNCHANGED <<netVars, swapVars, nativeBids, bank, ledger>>

\* refund_packet_token, MakeBid.
RefundMakeBid(p) ==
    LET o == p.order
    IN  /\ Failed(p, "MakeBid")
        /\ PayBack(o, p.who, p.amount)
        /\ SetRemoteBid(o, p.who, InStatus(remoteBids[o][p.who], "Failed"))
        /\ Consume(p)
        /\ UNCHANGED <<netVars, swapVars, nativeBids>>

-----------------------------------------------------------------------------
\* TakeBid.

\* execute_take_bid: the maker, at its address on the away chain, accepts a
\* placed bid in time.  Nothing is recorded until the answer.
ExecuteTakeBid(o, u) ==
    /\ Found(remote[o])
    /\ Offer[o].takeBids
    /\ remote[o].taker = NoUser
    /\ remoteBids[o][u].status = "Placed"
    /\ now[Away(o)] <= remoteBids[o][u].expire
    /\ SendBidPacket(o, "TakeBid", u, 0, 0)
    /\ UNCHANGED <<netVars, swapVars, bidVars, bank, ledger>>

\* The record on the home chain after on_received_take_bid saved it.
Execute(o, u) == SetNativeBid(o, u, InStatus(nativeBids[o][u], "Executed"))

\* Fault: the order may be in the inactive list.
BidKnownAnywhere(o, u) == Has(nativeBids[o][u])

BidKnown(o, u) == Found(native[o]) /\ Has(nativeBids[o][u])

\* on_received_take_bid: sell to the bidder.
OnReceivedTakeBid(p) ==
    LET o == p.order
    IN  /\ Arrives(p, "TakeBid", Away(o), Home(o))
        /\ BidKnown(o, p.who)
        /\ BuyerOK(o, p.who)
        /\ SellPayable(o)
        /\ Execute(o, p.who)
        /\ DeliverTo(o, p.who)
        /\ WriteAck(p, "ok")
        /\ UNCHANGED <<netVars, remote, remoteBids>>

\* Not a desired taker, or no valid address to send to: the error comes after
\* the bid was saved, and ibc_packet_receive turns it into an acknowledgement,
\* so the save stays.
RefuseTakeBidLate(p) ==
    LET o == p.order
    IN  /\ Arrives(p, "TakeBid", Away(o), Home(o))
        /\ BidKnown(o, p.who)
        /\ ~BuyerOK(o, p.who)
        /\ Execute(o, p.who)
        /\ WriteAck(p, "err")
        /\ UNCHANGED <<netVars, swapVars, remoteBids, bank, ledger>>

\* Fault: the refusal is answered like a success.
RefuseTakeBidSilently(p) ==
    LET o == p.order
    IN  /\ Arrives(p, "TakeBid", Away(o), Home(o))
        /\ ~BidKnown(o, p.who)
        /\ WriteAck(p, "ok")
        /\ UNCHANGED <<netVars, swapVars, bidVars, bank, ledger>>

\* Order or bid not found; or a payout failed, by a panic or in a submessage,
\* and the chain undid the whole call.
RefuseTakeBid(p) ==
    LET o == p.order
    IN  /\ Arrives(p, "TakeBid", Away(o), Home(o))
        /\ \/ ~BidKnown(o, p.who)
           \/ BuyerOK(o, p.who) /\ (~SellPayable(o) \/ Offer[o].vesting)
        /\ WriteAck(p, "err")
        /\ UNCHANGED <<netVars, swapVars, bidVars, bank, ledger>>

\* on_packet_success, TakeBid: the maker is paid what the record says now.
AckTakeBid(p) ==
    LET o == p.order
        bid == remoteBids[o][p.who]
    IN  /\ Succeeded(p, "TakeBid")
        /\ Found(remote[o])
        /\ Has(bid)
        /\ PayMaker(o, p.who, bid.amount)
        /\ SetRemoteBid(o, p.who, InStatus(bid, "Executed"))
        /\ Consume(p)
        /\ UNCHANGED <<netVars, native, nativeBids>>

-----------------------------------------------------------------------------
\* CancelBid.

\* execute_cancel_bid: by the bidder, whatever the status of the bid, as
\* long as the order is in the active list.
ExecuteCancelBid(o, u) ==
    /\ Found(remote[o])
    /\ Offer[o].takeBids
    /\ Has(remoteBids[o][u])
    /\ SendBidPacket(o, "CancelBid", u, 0, 0)
    /\ UNCHANGED <<netVars, swapVars, bidVars, bank, ledger>>

\* on_received_cancel_bid.
OnReceivedCancelBid(p) ==
    LET o == p.order
        bid == nativeBids[o][p.who]
    IN  /\ Arrives(p, "CancelBid", Away(o), Home(o))
        /\ Has(bid)
        /\ SetNativeBid(o, p.who, InStatus(bid, "Cancelled"))
        /\ WriteAck(p, "ok")
        /\ UNCHANGED <<netVars, swapVars, remoteBids, bank, ledger>>

RefuseCancelBid(p) ==
    LET o == p.order
    IN  /\ Arrives(p, "CancelBid", Away(o), Home(o))
        /\ ~Has(nativeBids[o][p.who])
        /\ WriteAck(p, "err")
        /\ UNCHANGED <<netVars, swapVars, bidVars, bank, ledger>>

\* on_packet_success, CancelBid: refund what the record says now, whatever
\* its status.
AckCancelBid(p) ==
    LET o == p.order
        bid == remoteBids[o][p.who]
    IN  /\ Succeeded(p, "CancelBid")
        /\ Has(bid)
        /\ PayBack(o, p.who, bid.amount)
        /\ SetRemoteBid(o, p.who, InStatus(bid, "Cancelled"))
        /\ Consume(p)
        /\ UNCHANGED <<netVars, swapVars, nativeBids>>

-----------------------------------------------------------------------------
\* UpdateBid, the only message that asks whether the market is open.

\* Fault: the addition is left out of the sum.
WithinPriceBefore(o, u, addition) == remoteBids[o][u].amount <= Offer[o].buy

\* The cap of a bid, on the amount in the record.
WithinPrice(o, u, addition) == remoteBids[o][u].amount + addition <= Offer[o].buy

\* execute_update_bid: the addition is locked now, but the record changes
\* only on the answer.
ExecuteUpdateBid(o, u, addition) ==
    /\ market[Away(o)] = "Active"
    /\ Found(remote[o])
    /\ remoteBids[o][u].status = "Placed"
    /\ now[Away(o)] <= remoteBids[o][u].expire
    /\ WithinPrice(o, u, addition)
    /\ Deposit(o, u, addition)
    /\ SendBidPacket(o, "UpdateBid", u, addition, 0)
    /\ UNCHANGED <<netVars, swapVars, bidVars>>

\* The checks of on_received_update_bid.
UpdateAccepted(o, u) ==
    /\ nativeBids[o][u].status = "Placed"
    /\ now[Home(o)] <= nativeBids[o][u].expire

\* on_received_update_bid.
OnReceivedUpdateBid(p) ==
    LET o == p.order
    IN  /\ Arrives(p, "UpdateBid", Away(o), Home(o))
        /\ UpdateAccepted(o, p.who)
        /\ SetNativeBid(o, p.who, Raised(nativeBids[o][p.who], p.amount))
        /\ WriteAck(p, "ok")
        /\ UNCHANGED <<netVars, swapVars, remoteBids, bank, ledger>>

RefuseUpdateBid(p) ==
    LET o == p.order
    IN  /\ Arrives(p, "UpdateBid", Away(o), Home(o))
        /\ ~UpdateAccepted(o, p.who)
        /\ WriteAck(p, "err")
        /\ UNCHANGED <<netVars, swapVars, bidVars, bank, ledger>>

\* on_packet_success, UpdateBid: added whatever became of the bid.
AckUpdateBid(p) ==
    LET o == p.order
    IN  /\ Succeeded(p, "UpdateBid")
        /\ SetRemoteBid(o, p.who, Raised(remoteBids[o][p.who], p.amount))
        /\ Consume(p)
        /\ UNCHANGED <<netVars, swapVars, nativeBids, bank, ledger>>

\* refund_packet_token, UpdateBid.
RefundUpdateBid(p) ==
    LET o == p.order
    IN  /\ Failed(p, "UpdateBid")
        /\ PayBack(o, p.who, p.amount)
        /\ Consume(p)
        /\ UNCHANGED <<netVars, swapVars, bidVars>>

\* refund_packet_token, TakeBid and CancelBid: nothing to undo.
DropBidPacket(p) ==
    /\ \E type \in {"TakeBid", "CancelBid"} : Failed(p, type)
    /\ Consume(p)
    /\ UNCHANGED <<netVars, swapVars, bidVars, bank, ledger>>

-----------------------------------------------------------------------------
BidRequest ==
    \E o \in Orders, u \in Users :
        \/ \E amount \in BidAmounts, expire \in BidExpiries :
              ExecuteMakeBid(o, u, amount, expire)
        \/ ExecuteTakeBid(o, u)
        \/ ExecuteCancelBid(o, u)
        \/ \E addition \in Additions : ExecuteUpdateBid(o, u, addition)

BidRelay ==
    \/ \E p \in packets : OnReceivedMakeBid(p)
    \/ \E p \in packets : AckMakeBid(p)
    \/ \E p \in packets : RefundMakeBid(p)
    \/ \E p \in packets : OnReceivedTakeBid(p)
    \/ \E p \in packets : RefuseTakeBidLate(p)
    \/ \E p \in packets : RefuseTakeBid(p)
    \/ \E p \in packets : AckTakeBid(p)
    \/ \E p \in packets : OnReceivedCancelBid(p)
    \/ \E p \in packets : RefuseCancelBid(p)
    \/ \E p \in packets : AckCancelBid(p)
    \/ \E p \in packets : OnReceivedUpdateBid(p)
    \/ \E p \in packets : RefuseUpdateBid(p)
    \/ \E p \in packets : AckUpdateBid(p)
    \/ \E p \in packets : RefundUpdateBid(p)
    \/ \E p \in packets : DropBidPacket(p)
=============================================================================
