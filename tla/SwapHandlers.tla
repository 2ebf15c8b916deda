---------------------------- MODULE SwapHandlers ----------------------------
(***************************************************************************)
(* The three messages of a plain swap.  MakeSwap locks the maker's tokens  *)
(* and mirrors the order; TakeSwap locks the taker's tokens, is settled on *)
(* the home chain when received and on the away chain when acknowledged;   *)
(* CancelSwap cancels on the away chain first and refunds on the           *)
(* acknowledgement.                                                        *)
(***************************************************************************)
EXTENDS SwapState

-----------------------------------------------------------------------------
\* MakeSwap, from the home chain.

\* execute_make_swap: any funded sender, on a channel the chain knows.
ExecuteMakeSwap(o) ==
    /\ native[o].loc = "none"
    /\ SendPacket(Home(o), Away(o), NewPacket(o, "MakeSwap", NoUser, 0, 0))
    /\ native' = [native EXCEPT ![o] = Appended("Initial")]
    /\ bank' = Locked(Home(o), Offer[o].sell)
    /\ UNCHANGED <<netVars, remote, bidVars, ledger>>

\* on_received_make: refuse an id that is in the active list.
OnReceivedMake(p) ==
    LET o == p.order
        fresh == ~Found(remote[o])
    IN  /\ Arrives(p, "MakeSwap", Home(o), Away(o))
        /\ remote' = IF fresh THEN [remote EXCEPT ![o] = Appended("Sync")]
                              ELSE remote
        /\ WriteAck(p, IF fresh THEN "ok" ELSE "err")
        /\ UNCHANGED <<netVars, native, bidVars, bank, ledger>>

Synced(order) == [order EXCEPT !.status = "Sync"]
NotCreated(order) == [order EXCEPT !.status = "Failed"]

\* on_packet_success, MakeSwap: the status becomes Sync whatever it was.
AckMakeSwap(p) ==
    LET o == p.order
    IN  /\ Succeeded(p, "MakeSwap")
        /\ Found(native[o])
        /\ native' = [native EXCEPT ![o] = Synced(@)]
        /\ Consume(p)
        /\ UNCHANGED <<netVars, remote, bidVars, bank, ledger>>

\* refund_packet_token, MakeSwap: the mirror was not created.
RefundMakeSwap(p) ==
    LET o == p.order
    IN  /\ Failed(p, "MakeSwap")
        /\ Found(native[o])
        /\ Covers(Home(o), Offer[o].sell)
        /\ bank' = Paid(Home(o), Offer[o].sell)
        /\ native' = [native EXCEPT ![o] = NotCreated(@)]
        /\ ledger' = [ledger EXCEPT ![o] = Refunded(@)]
        /\ Consume(p)
        /\ UNCHANGED <<netVars, remote, bidVars>>

-----------------------------------------------------------------------------
\* TakeSwap, from the away chain.

\* Fault: the lock is not looked at.
OpenLockIgnored(o) ==
    Found(remote[o]) /\ remote[o].status \in {"Initial", "Sync"}

\* Fault: the status is not looked at.
OpenStatusIgnored(o) == Found(remote[o]) /\ remote[o].taker = NoUser

\* The away chain has the order, neither cancelled nor taken.
Open(o) ==
    /\ Found(remote[o])
    /\ remote[o].status \in {"Initial", "Sync"}
    /\ remote[o].taker = NoUser

TakenBy(order, u) == [order EXCEPT !.taker = u]

\* execute_take_swap: the first taker in time locks the order and the tokens.
\* (Past the expiration the code moves the order to the inactive list and
\* then returns an error, which undoes the move: nothing happens.)
ExecuteTakeSwap(o, u) ==
    /\ Open(o)
    /\ DesiredTakerOK(o, u)
    /\ now[Away(o)] <= Offer[o].expiration
    /\ SendPacket(Away(o), Home(o),
                  NewPacket(o, "TakeSwap", u, Offer[o].buy, 0))
    /\ remote' = [remote EXCEPT ![o] = TakenBy(@, u)]
    /\ bank' = Locked(Away(o), Offer[o].buy)
    /\ ledger' = [ledger EXCEPT ![o] = PutIn(@, u, Offer[o].buy)]
    /\ UNCHANGED <<netVars, native, bidVars>>

\* Can the home chain release the order's sell tokens, less the taker fee?
SellPayable(o) ==
    /\ Payable(Offer[o].sell, TakerFee[Home(o)])
    /\ Covers(Home(o), Offer[o].sell)

\* The checks of on_received_take.
TakeAccepted(o, u) ==
    /\ Found(native[o])
    /\ BuyerOK(o, u)
    /\ SellPayable(o)

\* Fault: the fee stays in the contract.
DeliverNetTo(o, u) ==
    /\ bank' = Paid(Home(o), NetOf(Offer[o].sell, TakerFee[Home(o)]))
    /\ native' = [native EXCEPT ![o] = Completed(@, u)]
    /\ ledger' = [ledger EXCEPT ![o] = Delivered(@)]

\* Settle the home side of a sale to u: fee and tokens leave, the order ends.
DeliverTo(o, u) ==
    /\ bank' = Paid(Home(o), Offer[o].sell)
    /\ native' = [native EXCEPT ![o] = Completed(@, u)]
    /\ ledger' = [ledger EXCEPT ![o] = Delivered(@)]

\* Fault: the tokens are sold, and the answer says they were not.
OnReceivedTakeDenied(p) ==
    LET o == p.order
    IN  /\ Arrives(p, "TakeSwap", Away(o), Home(o))
        /\ TakeAccepted(o, p.who)
        /\ DeliverTo(o, p.who)
        /\ WriteAck(p, "err")
        /\ UNCHANGED <<netVars, remote, bidVars>>

\* on_received_take: sell to the taker ...
OnReceivedTake(p) ==
    LET o == p.order
    IN  /\ Arrives(p, "TakeSwap", Away(o), Home(o))
        /\ TakeAccepted(o, p.who)
        /\ DeliverTo(o, p.who)
        /\ WriteAck(p, "ok")
        /\ UNCHANGED <<netVars, remote, bidVars>>

\* ... or refuse: a failed check, or the vesting contract refused the tokens.
RefuseTake(p) ==
    LET o == p.order
    IN  /\ Arrives(p, "TakeSwap", Away(o), Home(o))
        /\ ~TakeAccepted(o, p.who) \/ Offer[o].vesting
        /\ WriteAck(p, "err")
        /\ UNCHANGED <<netVars, swapVars, bidVars, bank, ledger>>

\* The away side of a sale to u for this amount: the maker is paid, the
\* order ends.
PayMaker(o, u, amount) ==
    /\ Covers(Away(o), amount)
    /\ bank' = Paid(Away(o), amount)
    /\ remote' = [remote EXCEPT ![o] = Completed(@, u)]
    /\ ledger' = [ledger EXCEPT ![o] = MakerPaid(@, u, amount)]

\* on_packet_success, TakeSwap: the maker is paid, less the maker fee.
AckTakeSwap(p) ==
    LET o == p.order
    IN  /\ Succeeded(p, "TakeSwap")
        /\ Found(remote[o])
        /\ Payable(p.amount, MakerFee[Away(o)])
        /\ PayMaker(o, p.who, p.amount)
        /\ Consume(p)
        /\ UNCHANGED <<netVars, native, bidVars>>

\* Fault: the lock is kept.
UntakenButLocked(order) == [order EXCEPT !.status = "Sync"]

\* Fault: the taker becomes the empty string instead of None.
UntakenByNobody(order) == [order EXCEPT !.taker = AnyTaker, !.status = "Sync"]

\* Fault: the order ends with the failed take.
UntakenAndMoved(order) ==
    MoveOrderToBottom([order EXCEPT !.taker = NoUser, !.status = "Sync"])

\* The order as a failed TakeSwap leaves it: open to the next taker.
Untaken(order) == [order EXCEPT !.taker = NoUser, !.status = "Sync"]

\* refund_packet_token, TakeSwap: the tokens return, the order is unlocked.
RefundTakeSwap(p) ==
    LET o == p.order
    IN  /\ Failed(p, "TakeSwap")
        /\ Found(remote[o])
        /\ Covers(Away(o), p.amount)
        /\ bank' = Paid(Away(o), p.amount)
        /\ remote' = [remote EXCEPT ![o] = Untaken(@)]
        /\ ledger' = [ledger EXCEPT ![o] = TakenOut(@, p.who, p.amount)]
        /\ Consume(p)
        /\ UNCHANGED <<netVars, native, bidVars>>

-----------------------------------------------------------------------------
\* CancelSwap, from the home chain.

\* execute_cancel_swap: by the maker; nothing changes until it is answered,
\* so the maker may ask again.
ExecuteCancelSwap(o) ==
    /\ Found(native[o])
    /\ native[o].status \in {"Sync", "Initial"}
    /\ SendPacket(Home(o), Away(o), NewPacket(o, "CancelSwap", NoUser, 0, 0))
    /\ UNCHANGED <<netVars, swapVars, bidVars, bank, ledger>>

\* Fault: an order may be cancelled again.
CancelAcceptedAgain(o) == Found(remote[o]) /\ remote[o].taker = NoUser

\* Fault: an order may be cancelled while a taker has it locked.
CancelAcceptedLocked(o) ==
    Found(remote[o]) /\ remote[o].status \in {"Sync", "Initial"}

\* The checks of on_received_cancel.
CancelAccepted(o) ==
    /\ Found(remote[o])
    /\ remote[o].status \in {"Sync", "Initial"}
    /\ remote[o].taker = NoUser

\* Fault: the away chain agrees to cancel but does not.
CancelledNot(order) == order

Cancelled(order) == [order EXCEPT !.status = "Cancel"]

\* on_received_cancel: an order that nobody took is cancelled.
OnReceivedCancel(p) ==
    LET o == p.order
    IN  /\ Arrives(p, "CancelSwap", Home(o), Away(o))
        /\ CancelAccepted(o)
        /\ remote' = [remote EXCEPT ![o] = Cancelled(@)]
        /\ WriteAck(p, "ok")
        /\ UNCHANGED <<netVars, native, bidVars, bank, ledger>>

RefuseCancel(p) ==
    LET o == p.order
    IN  /\ Arrives(p, "CancelSwap", Home(o), Away(o))
        /\ ~CancelAccepted(o)
        /\ WriteAck(p, "err")
        /\ UNCHANGED <<netVars, swapVars, bidVars, bank, ledger>>

\* Fault: only an order that was never synced is refunded.
CancelRefundableUnsynced(o) ==
    /\ Found(native[o]) /\ native[o].status = "Initial"
    /\ Covers(Home(o), Offer[o].sell)

\* The home chain still finds the order and can return its tokens.
CancelRefundable(o) == Found(native[o]) /\ Covers(Home(o), Offer[o].sell)

\* on_packet_success, CancelSwap: the maker gets the tokens back.
AckCancelSwap(p) ==
    LET o == p.order
    IN  /\ Succeeded(p, "CancelSwap")
        /\ CancelRefundable(o)
        /\ bank' = Paid(Home(o), Offer[o].sell)
        /\ native' = [native EXCEPT ![o] = Cancelled(@)]
        /\ ledger' = [ledger EXCEPT ![o] = Refunded(@)]
        /\ Consume(p)
        /\ UNCHANGED <<netVars, remote, bidVars>>

\* refund_packet_token, CancelSwap: nothing was locked, nothing returns.
DropCancelSwap(p) ==
    /\ Failed(p, "CancelSwap")
    /\ Consume(p)
    /\ UNCHANGED <<netVars, swapVars, bidVars, bank, ledger>>

-----------------------------------------------------------------------------
\* What users start, and what the relayer drives.

SwapRequest ==
    \E o \in Orders :
        \/ ExecuteMakeSwap(o)
        \/ ExecuteCancelSwap(o)
        \/ \E u \in Users : ExecuteTakeSwap(o, u)

SwapRelay ==
    \/ \E p \in packets : OnReceivedMake(p)
    \/ \E p \in packets : AckMakeSwap(p)
    \/ \E p \in packets : RefundMakeSwap(p)
    \/ \E p \in packets : OnReceivedTake(p)
    \/ \E p \in packets : RefuseTake(p)
    \/ \E p \in packets : AckTakeSwap(p)
    \/ \E p \in packets : RefundTakeSwap(p)
    \/ \E p \in packets : OnReceivedCancel(p)
    \/ \E p \in packets : RefuseCancel(p)
    \/ \E p \in packets : AckCancelSwap(p)
    \/ \E p \in packets : DropCancelSwap(p)
=============================================================================
