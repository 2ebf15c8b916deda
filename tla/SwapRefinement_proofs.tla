----------------------- MODULE SwapRefinement_proofs -----------------------
(***************************************************************************)
(* For any chains, orders and users: the two contracts implement           *)
(* AtomicSwap.  The phase and the buyer of an order determine which        *)
(* promise a step may keep (Moved); each handler is shown to keep one of   *)
(* them for its order, and to leave all other orders alone.  With careful  *)
(* clients, they implement AtomicAuction, bids included: there the tokens  *)
(* in escrow and the price owed count too (Dealt).                         *)
(***************************************************************************)
EXTENDS CarefulClients_proofs, SwapRefinement

-----------------------------------------------------------------------------
\* The steps of AtomicSwap, seen from one order.

\* From phase a to b while the buyer becomes t where s was.
Moved(a, b, s, t) ==
    \/ a = "none" /\ b = "offered" /\ t = s
    \/ a = "offered" /\ b = "offered" /\ s = NoUser /\ t \in Users
    \/ a = "offered" /\ b = "offered" /\ s # NoUser /\ t = NoUser
    \/ a = "offered" /\ b = "sold" /\ s # NoUser /\ t = s
    \/ a = "sold" /\ b = "paid" /\ t = s
    \/ a = "offered" /\ b = "returned" /\ s = NoUser /\ t = s
    \/ a = b /\ t = s

Same(o) == PhaseOf(o)' = PhaseOf(o) /\ remote'[o].taker = remote[o].taker

\* One plain order moves, if any does.
PlainMoves ==
    \/ \A o \in PlainOrders : Same(o)
    \/ \E o \in PlainOrders :
          /\ Moved(PhaseOf(o), PhaseOf(o)', remote[o].taker, remote'[o].taker)
          /\ \A x \in PlainOrders \ {o} : Same(x)

LEMMA MovesAreSteps ==
    ASSUME PlainMoves
    PROVE  [Promise!Next]_<<[o \in PlainOrders |-> PhaseOf(o)],
                            [o \in PlainOrders |-> remote[o].taker]>>
<1> DEFINE ph == [o \in PlainOrders |-> PhaseOf(o)]
           by == [o \in PlainOrders |-> remote[o].taker]
<1>1. CASE \A o \in PlainOrders : Same(o)
  <2>1. ph' = ph /\ by' = by
    BY <1>1 DEF Same
  <2> QED
    BY <2>1
<1>2. ASSUME NEW o \in PlainOrders,
             Moved(PhaseOf(o), PhaseOf(o)', remote[o].taker, remote'[o].taker),
             \A x \in PlainOrders \ {o} : Same(x)
      PROVE  [Promise!Next]_<<ph, by>>
  <2>1. /\ ph[o] = PhaseOf(o) /\ ph'[o] = PhaseOf(o)'
        /\ by[o] = remote[o].taker /\ by'[o] = remote'[o].taker
    OBVIOUS
  <2>2. /\ ph' = [ph EXCEPT ![o] = PhaseOf(o)']
        /\ by' = [by EXCEPT ![o] = remote'[o].taker]
    BY <1>2 DEF Same
  <2>3. /\ PhaseOf(o)' = PhaseOf(o) => ph' = ph
        /\ remote'[o].taker = remote[o].taker => by' = by
    BY <1>2 DEF Same
  <2> HIDE DEF ph, by
  <2>4. \/ Promise!Escrow(o) \/ Promise!Leave(o) \/ Promise!Sell(o)
        \/ Promise!Pay(o) \/ Promise!Return(o)
        \/ \E u \in Users : Promise!Enter(o, u)
        \/ <<ph, by>>' = <<ph, by>>
    BY <1>2, <2>1, <2>2, <2>3 DEF Moved, Promise!Escrow, Promise!Leave,
       Promise!Sell, Promise!Pay, Promise!Return, Promise!Enter, Promise!Goes, ph, by
  <2> QED
    BY <2>4 DEF Promise!Next
<1> QED
  BY <1>1, <1>2 DEF PlainMoves

-----------------------------------------------------------------------------
\* Handlers touch one order.

NothingElse(o) ==
    \A x \in Orders \ {o} :
        native'[x] = native[x] /\ remote'[x] = remote[x] /\ ledger'[x] = ledger[x]

LEMMA OneMoves ==
    ASSUME NEW o \in Orders, NothingElse(o),
           o \in PlainOrders =>
               Moved(PhaseOf(o), PhaseOf(o)', remote[o].taker, remote'[o].taker)
    PROVE  PlainMoves
<1>1. \A x \in PlainOrders \ {o} : Same(x)
  BY DEF NothingElse, Same, PhaseOf, PlainOrders
<1> QED
  BY <1>1 DEF PlainMoves

\* The phase, by cases that exclude each other, before and after a step.
LEMMA Phases ==
    ASSUME NEW o
    PROVE  /\ ledger[o].paid # 0 => PhaseOf(o) = "paid"
           /\ ledger[o].paid = 0 /\ ledger[o].delivered # 0 => PhaseOf(o) = "sold"
           /\ ledger[o].paid = 0 /\ ledger[o].delivered = 0 =>
                 PhaseOf(o) = IF ledger[o].refunded # 0 THEN "returned"
                              ELSE IF native[o].loc = "none" THEN "none" ELSE "offered"
BY DEF PhaseOf

LEMMA PhasesNext ==
    ASSUME NEW o
    PROVE  /\ ledger'[o].paid # 0 => PhaseOf(o)' = "paid"
           /\ ledger'[o].paid = 0 /\ ledger'[o].delivered # 0 => PhaseOf(o)' = "sold"
           /\ ledger'[o].paid = 0 /\ ledger'[o].delivered = 0 =>
                 PhaseOf(o)' = IF ledger'[o].refunded # 0 THEN "returned"
                               ELSE IF native'[o].loc = "none" THEN "none" ELSE "offered"
BY DEF PhaseOf

\* Entries made in the history, one payout at a time.
LEMMA Entries ==
    ASSUME NEW entry \in LedgerType, NEW u, NEW amount
    PROVE  /\ \A e \in {PutIn(entry, u, amount), TakenOut(entry, u, amount)} :
                 /\ e.delivered = entry.delivered
                 /\ e.refunded = entry.refunded /\ e.paid = entry.paid
           /\ /\ Delivered(entry).delivered = entry.delivered + 1
              /\ Delivered(entry).refunded = entry.refunded
              /\ Delivered(entry).paid = entry.paid
           /\ /\ Refunded(entry).delivered = entry.delivered
              /\ Refunded(entry).refunded = entry.refunded + 1
              /\ Refunded(entry).paid = entry.paid
BY DEF LedgerType, PutIn, TakenOut, Delivered, Refunded

\* An order nobody bought or got back, and whose mirror is open, is offered.
LEMMA OfferedPhase ==
    ASSUME TypeOK, SettlementInv, NEW o \in PlainOrders, native[o].loc # "none",
           remote[o].loc # "inactive", ledger[o].delivered = 0, ledger[o].refunded = 0
    PROVE  PhaseOf(o) = "offered" /\ ledger[o].paid = 0
<1>1. ledger[o].paid = 0
  BY DEF SettlementInv, PaidMeansInactive, PlainOrders
<1> QED
  BY <1>1, Phases

\* A mirror exists only of an order that was made.
LEMMA MirrorMade ==
    ASSUME SettlementInv, NEW o \in PlainOrders, remote[o].loc # "none"
    PROVE  native[o].loc # "none"
BY DEF SettlementInv, NothingBefore, PlainOrders

\* While somebody has the mirror locked, or it is open, nothing was returned.
LEMMA OpenUnreturned ==
    ASSUME CancelInv, NEW o \in PlainOrders, remote[o].loc = "active",
           remote[o].status # "Cancel"
    PROVE  ledger[o].refunded = 0
BY DEF CancelInv, RefundHasReason, Sealed, CancelStands, PlainOrders

-----------------------------------------------------------------------------
\* The maker's steps: the offer, and the two ways to get the tokens back.

LEMMA MakeMoves ==
    ASSUME TypeOK, SettlementInv, CancelInv, NEW o \in Orders, ExecuteMakeSwap(o)
    PROVE  PlainMoves
<1>1. /\ native[o].loc = "none" /\ native'[o].loc = "active"
      /\ remote' = remote /\ ledger' = ledger
      /\ NothingElse(o)
  BY DEF ExecuteMakeSwap, Appended, TypeOK, NothingElse
<1>2. remote[o].loc = "none" /\ ledger[o].delivered = 0 /\ ledger[o].paid = 0
  BY <1>1 DEF SettlementInv, NothingBefore, PaidMeansInactive
<1>3. ledger[o].refunded = 0
  BY <1>1 DEF CancelInv, RefundHasReason
<1>4. PhaseOf(o) = "none" /\ PhaseOf(o)' = "offered"
  BY <1>1, <1>2, <1>3, Phases, PhasesNext
<1> QED
  BY <1>1, <1>4, OneMoves DEF Moved

\* The maker's refund is made while nobody has the order locked.
LEMMA RefundMoves ==
    ASSUME TypeOK, SettlementInv, CancelInv, PlainInv, NEW p \in packets,
           RefundMakeSwap(p) \/ AckCancelSwap(p)
    PROVE  PlainMoves
<1> DEFINE o == p.order
<1>1. o \in Orders
  BY DEF TypeOK, PacketType
<1>2. /\ native[o].loc = "active" /\ native'[o].loc = "active"
      /\ remote' = remote
      /\ ledger'[o] = Refunded(ledger[o])
      /\ NothingElse(o)
  <2>1. native[o] \in OrderType
    BY <1>1 DEF TypeOK
  <2>2. /\ native[o].loc = "active"
        /\ \/ native'[o] = NotCreated(native[o])
           \/ native'[o] = Cancelled(native[o])
    BY <1>1 DEF RefundMakeSwap, AckCancelSwap, CancelRefundable, Found, TypeOK
  <2> QED
    BY <1>1, <2>1, <2>2, KeptUpdates
       DEF RefundMakeSwap, AckCancelSwap, TypeOK, NothingElse
<1>3. ASSUME o \in PlainOrders
      PROVE  /\ remote[o].taker = NoUser /\ remote[o].loc # "inactive"
             /\ ledger[o].refunded = 0
  <2>1. CASE RefundMakeSwap(p)
    BY <1>1, <2>1 DEF RefundMakeSwap, Failed, CancelInv, AnnouncedUnrefunded,
       CancelledIsFree, NoOrder
  <2>2. CASE AckCancelSwap(p)
    BY <1>1, <1>3, <2>2 DEF AckCancelSwap, Succeeded, CancelInv, AgreedCancel,
       CancelledIsFree, Sealed, CancelStands, PlainOrders
  <2> QED
    BY <2>1, <2>2
<1>4. ASSUME o \in PlainOrders
      PROVE  PhaseOf(o) = "offered" /\ PhaseOf(o)' = "returned"
  <2>1. ledger[o].delivered = 0
    BY <1>3, <1>4, NobodySold
  <2>2. PhaseOf(o) = "offered" /\ ledger[o].paid = 0
    BY <1>2, <1>3, <1>4, <2>1, OfferedPhase
  <2>3. /\ ledger'[o].delivered = 0 /\ ledger'[o].paid = 0
        /\ ledger'[o].refunded = 1
    <3>1. ledger[o] \in LedgerType
      BY <1>1 DEF TypeOK
    <3> QED
      BY <1>2, <1>3, <1>4, <2>1, <2>2, <3>1, Entries
  <2> QED
    BY <2>2, <2>3, PhasesNext
<1> HIDE DEF o
<1> QED
  BY <1>1, <1>2, <1>3, <1>4, OneMoves DEF Moved

-----------------------------------------------------------------------------
\* The buyer's steps.

\* Entering: the order is open, so nobody bought it and nobody got it back.
LEMMA TakeMoves ==
    ASSUME TypeOK, SettlementInv, CancelInv, PlainInv,
           NEW o \in Orders, NEW u \in Users, ExecuteTakeSwap(o, u)
    PROVE  PlainMoves
<1>1. /\ remote[o].loc = "active" /\ remote[o].taker = NoUser
      /\ remote[o].status # "Cancel"
  BY DEF ExecuteTakeSwap, Open, Found
<1>2. /\ native' = native /\ remote'[o].taker = u
      /\ ledger'[o].delivered = ledger[o].delivered
      /\ ledger'[o].refunded = ledger[o].refunded
      /\ ledger'[o].paid = ledger[o].paid
      /\ NothingElse(o)
  <2>1. remote[o] \in OrderType /\ ledger[o] \in LedgerType
    BY DEF TypeOK
  <2>2. /\ remote'[o] = TakenBy(remote[o], u)
        /\ ledger'[o] = PutIn(ledger[o], u, Offer[o].buy)
        /\ native' = native /\ NothingElse(o)
    BY DEF ExecuteTakeSwap, TypeOK, NothingElse
  <2> QED
    BY <2>1, <2>2, UpdatedRecords, Entries
<1>3. ASSUME o \in PlainOrders
      PROVE  PhaseOf(o) = "offered" /\ PhaseOf(o)' = "offered"
  <2>1. ledger[o].delivered = 0 /\ ledger[o].refunded = 0 /\ native[o].loc # "none"
    BY <1>1, <1>3, NobodySold, OpenUnreturned, MirrorMade
  <2>2. PhaseOf(o) = "offered" /\ ledger[o].paid = 0
    BY <1>1, <1>3, <2>1, OfferedPhase
  <2> QED
    BY <1>2, <2>1, <2>2, PhasesNext
<1> QED
  BY <1>1, <1>2, <1>3, OneMoves DEF Moved

\* What a TakeSwap that the home chain did not agree to says of its order.
LEMMA UnsoldTake ==
    ASSUME TypeOK, SettlementInv, CancelInv, PlainInv, NEW p \in packets,
           p.order \in PlainOrders, p.type = "TakeSwap", p.state # "ok",
           remote[p.order].loc # "inactive"
    PROVE  /\ PhaseOf(p.order) = "offered"
           /\ ledger[p.order].delivered = 0 /\ ledger[p.order].refunded = 0
           /\ ledger[p.order].paid = 0
           /\ remote[p.order].taker = p.who /\ p.who # NoUser
<1>1. ledger[p.order].delivered = 0
  BY DEF PlainInv, SoldToTaker
<1>2. remote[p.order].loc \in {"none", "active", "inactive"}
  BY DEF TypeOK, OrderType, PlainOrders
<1>3. /\ remote[p.order].loc = "active" /\ remote[p.order].taker = p.who
      /\ remote[p.order].status # "Cancel"
  BY <1>2 DEF CancelInv, TakeHoldsLock
<1>4. ledger[p.order].refunded = 0 /\ native[p.order].loc # "none"
  BY <1>3, OpenUnreturned, MirrorMade
<1>5. p.who # NoUser
  BY TakersAreUsers
<1> QED
  BY <1>1, <1>3, <1>4, <1>5, OfferedPhase

\* Leaving: the TakeSwap failed, and the lock is released.
LEMMA LeaveMoves ==
    ASSUME TypeOK, SettlementInv, CancelInv, PlainInv, NEW p \in packets,
           RefundTakeSwap(p)
    PROVE  PlainMoves
<1> DEFINE o == p.order
<1>1. o \in Orders
  BY DEF TypeOK, PacketType
<1>2. /\ p.type = "TakeSwap" /\ p.state # "ok" /\ remote[o].loc = "active"
      /\ native' = native
  BY DEF RefundTakeSwap, Failed, Found
<1>3. /\ remote'[o].taker = NoUser
      /\ ledger'[o].delivered = ledger[o].delivered
      /\ ledger'[o].refunded = ledger[o].refunded
      /\ ledger'[o].paid = ledger[o].paid
      /\ NothingElse(o)
  <2>1. remote[o] \in OrderType /\ ledger[o] \in LedgerType
    BY <1>1 DEF TypeOK
  <2>2. /\ remote'[o] = Untaken(remote[o])
        /\ ledger'[o] = TakenOut(ledger[o], p.who, p.amount)
        /\ NothingElse(o)
    BY <1>1 DEF RefundTakeSwap, TypeOK, NothingElse
  <2> QED
    BY <2>1, <2>2, UpdatedRecords, Entries
<1>4. ASSUME o \in PlainOrders
      PROVE  PhaseOf(o) = "offered" /\ PhaseOf(o)' = "offered"
             /\ remote[o].taker # NoUser
  <2>1. /\ PhaseOf(o) = "offered" /\ remote[o].taker # NoUser
        /\ ledger[o].delivered = 0 /\ ledger[o].refunded = 0 /\ ledger[o].paid = 0
        /\ native[o].loc # "none"
    BY <1>2, <1>4, UnsoldTake, MirrorMade
  <2> QED
    BY <1>2, <1>3, <2>1, PhasesNext
<1> HIDE DEF o
<1> QED
  BY <1>1, <1>3, <1>4, OneMoves DEF Moved

\* Selling: the home chain delivers to the one who has the mirror locked.
LEMMA SellMoves ==
    ASSUME TypeOK, SettlementInv, CancelInv, PlainInv, NEW p \in packets,
           OnReceivedTake(p)
    PROVE  PlainMoves
<1> DEFINE o == p.order
<1>1. o \in Orders
  BY DEF TypeOK, PacketType
<1>2. p.type = "TakeSwap" /\ p.state # "ok"
  BY DEF OnReceivedTake, Arrives
<1>3. /\ native[o].loc = "active" /\ remote' = remote
      /\ ledger'[o].delivered = ledger[o].delivered + 1
      /\ ledger'[o].paid = ledger[o].paid
      /\ NothingElse(o)
  BY DeliveryStep DEF Delivery, NothingElse
<1>4. remote[o].loc # "inactive"
  BY <1>1, <1>3 DEF SettlementInv, ClosedAlike
<1>5. ASSUME o \in PlainOrders
      PROVE  PhaseOf(o) = "offered" /\ PhaseOf(o)' = "sold"
             /\ remote[o].taker # NoUser
  <2>1. /\ PhaseOf(o) = "offered" /\ remote[o].taker # NoUser
        /\ ledger[o].delivered = 0 /\ ledger[o].paid = 0
    BY <1>2, <1>4, <1>5, UnsoldTake
  <2> QED
    BY <1>3, <2>1, PhasesNext
<1> HIDE DEF o
<1> QED
  BY <1>1, <1>3, <1>5, OneMoves DEF Moved

\* Paying: what the buyer put in goes to the maker.
LEMMA PayMoves ==
    ASSUME TypeOK, SettlementInv, CancelInv, PlainInv, NEW p \in packets,
           AckTakeSwap(p)
    PROVE  PlainMoves
<1> DEFINE o == p.order
<1>1. /\ o \in Orders /\ remote[o].loc = "active" /\ native[o].loc = "inactive"
      /\ remote'[o].taker = p.who
      /\ ledger'[o].paid = ledger[o].paid + 1
      /\ NothingElse(o)
  BY PaymentStep DEF Payment, NothingElse
<1>2. remote[o].taker = p.who
  BY <1>1 DEF AckTakeSwap, Succeeded, CancelInv, TakeHoldsLock
<1>3. ledger[o].delivered = 1 /\ ledger[o].paid = 0
  BY <1>1 DEF SettlementInv, PaidMeansInactive
<1>4. PhaseOf(o) = "sold" /\ PhaseOf(o)' = "paid"
  BY <1>1, <1>3, Phases, PhasesNext
<1> HIDE DEF o
<1> QED
  BY <1>1, <1>2, <1>4, OneMoves DEF Moved

-----------------------------------------------------------------------------
\* Steps that keep every phase and every buyer.

\* Payouts and buyers stay, and what was made stays made.
LEMMA AllSame ==
    ASSUME ledger' = ledger,
           \A o \in Orders : /\ remote'[o].taker = remote[o].taker
                             /\ native'[o].loc = native[o].loc
    PROVE  PlainMoves
BY DEF PlainMoves, Same, PhaseOf, PlainOrders

LEMMA MirrorMoves ==
    ASSUME TypeOK, SettlementInv, CancelInv, NEW p \in packets, OnReceivedMake(p)
    PROVE  PlainMoves
<1>1. p.order \in Orders
  BY DEF TypeOK, PacketType
<1>2. remote[p.order].taker = NoUser
  BY <1>1 DEF OnReceivedMake, Arrives, SettlementInv, AnnouncedOnce, CancelInv,
     CancelledIsFree, NoOrder
<1>3. \A o \in Orders : remote'[o].taker = remote[o].taker
  BY <1>1, <1>2 DEF OnReceivedMake, Appended, TypeOK
<1> QED
  BY <1>3, AllSame DEF OnReceivedMake

LEMMA StatusMoves ==
    ASSUME TypeOK, NEW p \in packets,
           \/ AckMakeSwap(p) \/ RefuseTake(p) \/ OnReceivedCancel(p)
           \/ RefuseCancel(p) \/ DropCancelSwap(p)
    PROVE  PlainMoves
<1>1. p.order \in Orders
  BY DEF TypeOK, PacketType
<1>2. native[p.order] \in OrderType /\ remote[p.order] \in OrderType
  BY <1>1 DEF TypeOK
<1>3. ledger' = ledger
  BY DEF AckMakeSwap, RefuseTake, OnReceivedCancel, RefuseCancel, DropCancelSwap
<1>4. \/ remote' = remote
      \/ remote' = [remote EXCEPT ![p.order] = Cancelled(remote[p.order])]
  BY DEF AckMakeSwap, RefuseTake, OnReceivedCancel, RefuseCancel, DropCancelSwap,
         swapVars
<1>5. \/ native' = native
      \/ native' = [native EXCEPT ![p.order] = Synced(native[p.order])]
  BY DEF AckMakeSwap, RefuseTake, OnReceivedCancel, RefuseCancel, DropCancelSwap,
         swapVars
<1>6. \A o \in Orders : /\ remote'[o].taker = remote[o].taker
                        /\ native'[o].loc = native[o].loc
  <2>1. /\ Cancelled(remote[p.order]).taker = remote[p.order].taker
        /\ Synced(native[p.order]).loc = native[p.order].loc
    BY <1>2, UpdatedRecords, KeptUpdates
  <2>2. \A o \in Orders : remote'[o].taker = remote[o].taker
    BY <1>4, <2>1 DEF TypeOK
  <2>3. \A o \in Orders : native'[o].loc = native[o].loc
    BY <1>5, <2>1 DEF TypeOK
  <2> QED
    BY <2>2, <2>3
<1> QED
  BY <1>3, <1>6, AllSame

\* Steps about bids are about no plain order.
LEMMA AuctionMoves ==
    ASSUME OnlyAboutAnAuction
    PROVE  PlainMoves
<1>1. PICK o \in Orders \ PlainOrders : OnlyAbout(o)
  BY DEF OnlyAboutAnAuction
<1> QED
  BY <1>1, OneMoves DEF OnlyAbout, NothingElse

-----------------------------------------------------------------------------
\* The refinement.

LEMMA NextMoves ==
    ASSUME TypeOK, SettlementInv, CancelInv, PlainInv, [Next]_vars
    PROVE  PlainMoves
<1>1. CASE Environment \/ UNCHANGED vars
  BY <1>1, AllSame DEF Environment, vars, IbcChannelConnect, Tick, swapVars,
        ExecutePauseMarket, ExecuteUnpauseMarket, SetMarket
<1>2. CASE SwapRequest
  <2>1. ASSUME NEW o \in Orders, ExecuteCancelSwap(o) PROVE PlainMoves
    BY <2>1, AllSame DEF ExecuteCancelSwap, swapVars
  <2> QED
    BY <1>2, <2>1, MakeMoves, TakeMoves DEF SwapRequest
<1>3. CASE SwapRelay
  BY <1>3, MirrorMoves, StatusMoves, RefundMoves, SellMoves, PayMoves, LeaveMoves
     DEF SwapRelay
<1>4. CASE BidRequest \/ BidRelay
  BY <1>4, BidRequestAuction, BidRelayAuction, AuctionMoves DEF CancelInv
<1> QED
  BY <1>1, <1>2, <1>3, <1>4 DEF Next, Relay

LEMMA InitMaps == Init => Promise!Init
BY DEF Init, Promise!Init, PhaseOf, NoOrder, EmptyLedger, PlainOrders

\* Whatever is relayed, refused or timed out, and in whatever order, the two
\* contracts do to an order without bids what AtomicSwap says and no more:
\* offer, lock, release, sell to the one who locked it, pay, or return it
\* (all handlers of contract.rs and atomic_swap_handler.rs).
THEOREM AtomicSwapKeptCorrect == Spec => AtomicSwapKept
<1>1. TypeOK /\ SettlementInv /\ CancelInv /\ PlainInv /\ [Next]_vars
      => [Promise!Next]_<<[o \in PlainOrders |-> PhaseOf(o)],
                         [o \in PlainOrders |-> remote[o].taker]>>
  BY NextMoves, MovesAreSteps
<1> QED
  BY <1>1, InitMaps, TypeCorrect, SettlementCorrect, CancelCorrect, PlainCorrect,
     PTL DEF Spec, AtomicSwapKept, Promise!Spec
-----------------------------------------------------------------------------
\* The accounts of both chains.

\* What an order has in the account of its home chain, and of its away chain.
AtHome(o) ==
    native[o].loc # "none" /\ ledger[o].delivered + ledger[o].refunded = 0
AtAway(o) == Found(remote[o]) /\ remote[o].taker # NoUser

LEMMA Owed ==
    ASSUME NEW c \in Chains, NEW o \in Orders
    PROVE  /\ Unsettled(c)[o] =
                 IF Home(o) = c /\ AtHome(o) THEN Offer[o].sell ELSE 0
           /\ Unsettled(c)'[o] =
                 IF Home(o) = c /\ AtHome(o)' THEN Offer[o].sell ELSE 0
           /\ Taken(c)[o] =
                 IF Away(o) = c /\ AtAway(o) THEN Offer[o].buy ELSE 0
           /\ Taken(c)'[o] =
                 IF Away(o) = c /\ AtAway(o)' THEN Offer[o].buy ELSE 0
<1>1. /\ Unsettled(c)[o] = IF Home(o) = c /\ AtHome(o) THEN Offer[o].sell ELSE 0
      /\ Taken(c)[o] = IF Away(o) = c /\ AtAway(o) THEN Offer[o].buy ELSE 0
  BY DEF Unsettled, Taken, AtHome, AtAway
<1>2. Unsettled(c)'[o] = IF Home(o) = c /\ AtHome(o)' THEN Offer[o].sell ELSE 0
  BY DEF Unsettled, AtHome
<1>3. Taken(c)'[o] = IF Away(o) = c /\ AtAway(o)' THEN Offer[o].buy ELSE 0
  BY DEF Taken, AtAway
<1> QED
  BY <1>1, <1>2, <1>3

\* Both sums follow the one order that moves.
LEMMA SumsFollow ==
    ASSUME NEW c \in Chains, NEW o \in Orders, NothingElse(o)
    PROVE  /\ SumFunctionOnSet(Unsettled(c), Orders) \in Int
           /\ SumFunctionOnSet(Taken(c), Orders) \in Int
           /\ SumFunctionOnSet(Unsettled(c)', Orders) =
                 SumFunctionOnSet(Unsettled(c), Orders)
                 + Unsettled(c)'[o] - Unsettled(c)[o]
           /\ SumFunctionOnSet(Taken(c)', Orders) =
                 SumFunctionOnSet(Taken(c), Orders) + Taken(c)'[o] - Taken(c)[o]
<1> DEFINE f == Unsettled(c)
           g == Unsettled(c)'
           h == Taken(c)
           k == Taken(c)'
<1>1. \A x \in Orders : f[x] \in Int /\ g[x] \in Int /\ h[x] \in Int /\ k[x] \in Int
  BY Owed, OfferFacts
<1>2. \A x \in Orders \ {o} : f[x] = g[x] /\ h[x] = k[x]
  <2>1. \A x \in Orders \ {o} : AtHome(x)' = AtHome(x) /\ AtAway(x)' = AtAway(x)
    BY DEF NothingElse, AtHome, AtAway
  <2> QED
    BY <2>1, Owed
<1> HIDE DEF f, g, h, k
<1>3. SumFunctionOnSet(f, Orders) \in Int /\ SumFunctionOnSet(h, Orders) \in Int
  BY <1>1, FiniteAssumption, SumType
<1>4. SumFunctionOnSet(g, Orders) = SumFunctionOnSet(f, Orders) + g[o] - f[o]
  BY <1>1, <1>2, FiniteAssumption, SumChange
<1>5. SumFunctionOnSet(k, Orders) = SumFunctionOnSet(h, Orders) + k[o] - h[o]
  BY <1>1, <1>2, FiniteAssumption, SumChange
<1> QED
  BY <1>3, <1>4, <1>5 DEF f, g, h, k

\* What the account of a chain gains is what the order has in it more.
Gains(o, c) ==
    bank'[c] = bank[c] + (Unsettled(c)'[o] - Unsettled(c)[o])
                       + (Taken(c)'[o] - Taken(c)[o])

LEMMA BooksFollow ==
    ASSUME TypeOK, TypeOK', BooksBalance, PlainOrders = Orders,
           NEW o \in Orders, NothingElse(o), \A c \in Chains : Gains(o, c)
    PROVE  BooksBalance'
<1> SUFFICES ASSUME NEW c \in Chains
             PROVE  bank'[c] = Reserve[c] + SumFunctionOnSet(Unsettled(c)', Orders)
                                          + SumFunctionOnSet(Taken(c)', Orders)
  BY DEF BooksBalance, PlainOrders
<1>1. bank[c] = Reserve[c] + SumFunctionOnSet(Unsettled(c), Orders)
                           + SumFunctionOnSet(Taken(c), Orders)
  BY DEF BooksBalance
<1>2. Reserve[c] \in Int
  BY ReserveAssumption
<1>3. /\ Unsettled(c)[o] \in Int /\ Unsettled(c)'[o] \in Int
      /\ Taken(c)[o] \in Int /\ Taken(c)'[o] \in Int
  BY Owed, OfferFacts
<1>4. bank'[c] = bank[c] + (Unsettled(c)'[o] - Unsettled(c)[o])
                         + (Taken(c)'[o] - Taken(c)[o])
  BY DEF Gains
<1> QED
  BY <1>1, <1>2, <1>3, <1>4, SumsFollow

\* Tokens enter or leave one account, as the order says; or none does.
LEMMA HomeGains ==
    ASSUME TypeOK, NEW o \in Orders, AtAway(o)' = AtAway(o),
           \/ ~AtHome(o) /\ AtHome(o)' /\ bank' = Locked(Home(o), Offer[o].sell)
           \/ AtHome(o) /\ ~AtHome(o)' /\ bank' = Paid(Home(o), Offer[o].sell)
    PROVE  \A c \in Chains : Gains(o, c)
<1> SUFFICES ASSUME NEW c \in Chains PROVE Gains(o, c)
  OBVIOUS
<1>1. bank[c] \in Int /\ Offer[o].sell \in Int /\ Offer[o].buy \in Int
  BY OfferFacts DEF TypeOK
<1>2. Taken(c)'[o] - Taken(c)[o] = 0
  BY <1>1, Owed
<1>3. CASE ~AtHome(o) /\ AtHome(o)' /\ bank' = Locked(Home(o), Offer[o].sell)
  <2>1. bank'[c] = bank[c] + (IF Home(o) = c THEN Offer[o].sell ELSE 0)
    BY <1>1, <1>3 DEF Locked, TypeOK
  <2>2. Unsettled(c)'[o] - Unsettled(c)[o] = IF Home(o) = c THEN Offer[o].sell ELSE 0
    BY <1>1, <1>3, Owed
  <2> QED
    BY <1>1, <1>2, <2>1, <2>2 DEF Gains
<1>4. CASE AtHome(o) /\ ~AtHome(o)' /\ bank' = Paid(Home(o), Offer[o].sell)
  <2>1. bank'[c] = bank[c] - (IF Home(o) = c THEN Offer[o].sell ELSE 0)
    BY <1>1, <1>4 DEF Paid, TypeOK
  <2>2. Unsettled(c)'[o] - Unsettled(c)[o] = 0 - (IF Home(o) = c THEN Offer[o].sell ELSE 0)
    BY <1>1, <1>4, Owed
  <2> QED
    BY <1>1, <1>2, <2>1, <2>2 DEF Gains
<1> QED
  BY <1>3, <1>4

LEMMA AwayGains ==
    ASSUME TypeOK, NEW o \in Orders, AtHome(o)' = AtHome(o),
           \/ ~AtAway(o) /\ AtAway(o)' /\ bank' = Locked(Away(o), Offer[o].buy)
           \/ AtAway(o) /\ ~AtAway(o)' /\ bank' = Paid(Away(o), Offer[o].buy)
    PROVE  \A c \in Chains : Gains(o, c)
<1> SUFFICES ASSUME NEW c \in Chains PROVE Gains(o, c)
  OBVIOUS
<1>1. bank[c] \in Int /\ Offer[o].sell \in Int /\ Offer[o].buy \in Int
  BY OfferFacts DEF TypeOK
<1>2. Unsettled(c)'[o] - Unsettled(c)[o] = 0
  BY <1>1, Owed
<1>3. CASE ~AtAway(o) /\ AtAway(o)' /\ bank' = Locked(Away(o), Offer[o].buy)
  <2>1. bank'[c] = bank[c] + (IF Away(o) = c THEN Offer[o].buy ELSE 0)
    BY <1>1, <1>3 DEF Locked, TypeOK
  <2>2. Taken(c)'[o] - Taken(c)[o] = IF Away(o) = c THEN Offer[o].buy ELSE 0
    BY <1>1, <1>3, Owed
  <2> QED
    BY <1>1, <1>2, <2>1, <2>2 DEF Gains
<1>4. CASE AtAway(o) /\ ~AtAway(o)' /\ bank' = Paid(Away(o), Offer[o].buy)
  <2>1. bank'[c] = bank[c] - (IF Away(o) = c THEN Offer[o].buy ELSE 0)
    BY <1>1, <1>4 DEF Paid, TypeOK
  <2>2. Taken(c)'[o] - Taken(c)[o] = 0 - (IF Away(o) = c THEN Offer[o].buy ELSE 0)
    BY <1>1, <1>4, Owed
  <2> QED
    BY <1>1, <1>2, <2>1, <2>2 DEF Gains
<1> QED
  BY <1>3, <1>4

LEMMA NothingGained ==
    ASSUME BooksBalance, bank' = bank,
           \A o \in Orders : AtHome(o)' = AtHome(o) /\ AtAway(o)' = AtAway(o)
    PROVE  BooksBalance'
<1>1. \A c \in Chains : Unsettled(c)' = Unsettled(c) /\ Taken(c)' = Taken(c)
  BY DEF Unsettled, Taken, AtHome, AtAway
<1> QED
  BY <1>1 DEF BooksBalance, PlainOrders

\* A new order brings its tokens to the account of its home chain.
LEMMA MakeBooks ==
    ASSUME TypeOK, TypeOK', SettlementInv, CancelInv, BooksBalance,
           PlainOrders = Orders, NEW o \in Orders, ExecuteMakeSwap(o)
    PROVE  BooksBalance'
<1>1. /\ native[o].loc = "none" /\ native'[o].loc = "active"
      /\ remote' = remote /\ ledger' = ledger
      /\ NothingElse(o) /\ bank' = Locked(Home(o), Offer[o].sell)
  BY DEF ExecuteMakeSwap, Appended, TypeOK, NothingElse
<1>2. ledger[o].delivered = 0 /\ ledger[o].refunded = 0
  BY <1>1 DEF SettlementInv, PaidMeansInactive, CancelInv, RefundHasReason
<1>3. ~AtHome(o) /\ AtHome(o)' /\ AtAway(o)' = AtAway(o)
  BY <1>1, <1>2 DEF AtHome, AtAway
<1> QED
  BY <1>1, <1>3, HomeGains, BooksFollow

\* The maker gets them back.
LEMMA RefundBooks ==
    ASSUME TypeOK, TypeOK', SettlementInv, CancelInv, PlainInv, BooksBalance,
           PlainOrders = Orders, NEW p \in packets,
           RefundMakeSwap(p) \/ AckCancelSwap(p)
    PROVE  BooksBalance'
<1> DEFINE o == p.order
<1>1. o \in Orders
  BY DEF TypeOK, PacketType
<1>2. /\ native[o].loc = "active" /\ remote' = remote
      /\ ledger'[o] = Refunded(ledger[o]) /\ NothingElse(o)
      /\ bank' = Paid(Home(o), Offer[o].sell)
  BY <1>1 DEF RefundMakeSwap, AckCancelSwap, CancelRefundable, Found, TypeOK, NothingElse
<1>3. remote[o].taker = NoUser /\ ledger[o].refunded = 0
  <2>1. CASE RefundMakeSwap(p)
    BY <1>1, <2>1 DEF RefundMakeSwap, Failed, CancelInv, AnnouncedUnrefunded,
       CancelledIsFree, NoOrder
  <2>2. CASE AckCancelSwap(p)
    BY <1>1, <2>2 DEF AckCancelSwap, Succeeded, CancelInv, AgreedCancel,
       CancelledIsFree, Sealed, CancelStands, PlainOrders
  <2> QED
    BY <2>1, <2>2
<1>4. ledger[o].delivered = 0
  BY <1>1, <1>3, NobodySold
<1>5. ledger'[o].delivered = 0 /\ ledger'[o].refunded = 1
  <2>1. ledger[o] \in LedgerType
    BY <1>1 DEF TypeOK
  <2> QED
    BY <1>2, <1>3, <1>4, <2>1, Entries
<1>6. AtHome(o) /\ ~AtHome(o)' /\ AtAway(o)' = AtAway(o)
  BY <1>2, <1>3, <1>4, <1>5 DEF AtHome, AtAway
<1> HIDE DEF o
<1> QED
  BY <1>1, <1>2, <1>6, HomeGains, BooksFollow

\* A buyer's tokens enter the account of the away chain with the lock.
LEMMA TakeBooks ==
    ASSUME TypeOK, TypeOK', BooksBalance, PlainOrders = Orders,
           NEW o \in Orders, NEW u \in Users, ExecuteTakeSwap(o, u)
    PROVE  BooksBalance'
<1>1. remote[o] \in OrderType /\ ledger[o] \in LedgerType
  BY DEF TypeOK
<1>2. /\ Found(remote[o]) /\ remote[o].taker = NoUser
      /\ remote'[o] = TakenBy(remote[o], u)
      /\ ledger'[o] = PutIn(ledger[o], u, Offer[o].buy)
      /\ native' = native /\ NothingElse(o)
      /\ bank' = Locked(Away(o), Offer[o].buy)
  BY DEF ExecuteTakeSwap, Open, TypeOK, NothingElse
<1>3. /\ Found(remote'[o]) /\ remote'[o].taker = u /\ u # NoUser
      /\ ledger'[o].delivered = ledger[o].delivered
      /\ ledger'[o].refunded = ledger[o].refunded
  BY <1>1, <1>2, UpdatedRecords, KeptUpdates, Entries, UserAssumption DEF Found
<1>4. ~AtAway(o) /\ AtAway(o)' /\ AtHome(o)' = AtHome(o)
  BY <1>2, <1>3 DEF AtHome, AtAway
<1> QED
  BY <1>2, <1>4, AwayGains, BooksFollow

\* The sell tokens leave the home chain when they are sold.
LEMMA SellBooks ==
    ASSUME TypeOK, TypeOK', SettlementInv, CancelInv, PlainInv, BooksBalance,
           PlainOrders = Orders, NEW p \in packets, OnReceivedTake(p)
    PROVE  BooksBalance'
<1> DEFINE o == p.order
<1>1. o \in Orders
  BY DEF TypeOK, PacketType
<1>2. p.type = "TakeSwap" /\ p.state # "ok" /\ bank' = Paid(Home(o), Offer[o].sell)
  BY DEF OnReceivedTake, Arrives, DeliverTo
<1>3. /\ native[o].loc = "active" /\ remote' = remote
      /\ ledger'[o].delivered = ledger[o].delivered + 1
      /\ ledger'[o] = Delivered(ledger[o])
      /\ NothingElse(o)
  <2>1. ledger'[o] = Delivered(ledger[o])
    BY <1>1 DEF OnReceivedTake, DeliverTo, TypeOK
  <2> QED
    BY <2>1, DeliveryStep DEF Delivery, NothingElse
<1>4. remote[o].loc # "inactive"
  BY <1>1, <1>3 DEF SettlementInv, ClosedAlike
<1>5. ledger[o].delivered = 0 /\ ledger[o].refunded = 0
  BY <1>1, <1>2, <1>4, UnsoldTake
<1>6. ledger'[o].delivered = 1 /\ ledger'[o].refunded = 0
  <2>1. ledger[o] \in LedgerType
    BY <1>1 DEF TypeOK
  <2> QED
    BY <1>3, <1>5, <2>1, Entries
<1>7. AtHome(o) /\ ~AtHome(o)' /\ AtAway(o)' = AtAway(o)
  BY <1>3, <1>5, <1>6 DEF AtHome, AtAway
<1> HIDE DEF o
<1> QED
  BY <1>1, <1>2, <1>3, <1>7, HomeGains, BooksFollow

\* The buy tokens leave the away chain with the lock: to the maker, or back.
LEMMA SettleBooks ==
    ASSUME TypeOK, TypeOK', SettlementInv, CancelInv, BooksBalance,
           PlainOrders = Orders, NEW p \in packets,
           AckTakeSwap(p) \/ RefundTakeSwap(p)
    PROVE  BooksBalance'
<1> DEFINE o == p.order
<1>1. o \in Orders
  BY DEF TypeOK, PacketType
<1>2. /\ p.type = "TakeSwap" /\ Found(remote[o]) /\ native' = native
      /\ bank' = Paid(Away(o), p.amount) /\ NothingElse(o)
  <2>1. /\ p.type = "TakeSwap" /\ Found(remote[o]) /\ native' = native
        /\ bank' = Paid(Away(o), p.amount)
    BY DEF AckTakeSwap, RefundTakeSwap, Succeeded, Failed, PayMaker
  <2>2. NothingElse(o)
    BY <1>1 DEF AckTakeSwap, RefundTakeSwap, PayMaker, TypeOK, NothingElse
  <2> QED
    BY <2>1, <2>2
<1>3. p.who # NoUser /\ remote[o].taker = p.who /\ p.amount = Offer[o].buy
  BY <1>2, TakersAreUsers DEF CancelInv, TakeHoldsLock, Found
<1>4. remote[o] \in OrderType /\ ledger[o] \in LedgerType
  BY <1>1 DEF TypeOK
<1>5. /\ ~AtAway(o)'
      /\ ledger'[o].delivered = ledger[o].delivered
      /\ ledger'[o].refunded = ledger[o].refunded
  <2>1. CASE AckTakeSwap(p)
    <3>1. /\ remote'[o].loc = "inactive"
          /\ ledger'[o].delivered = ledger[o].delivered
      BY <2>1, PaymentStep DEF Payment
    <3>2. ledger'[o] = MakerPaid(ledger[o], p.who, p.amount)
      BY <1>1, <2>1 DEF AckTakeSwap, PayMaker, TypeOK
    <3> QED
      BY <1>4, <3>1, <3>2, UnrefundedEntries DEF AtAway, Found
  <2>2. CASE RefundTakeSwap(p)
    <3>1. /\ remote'[o] = Untaken(remote[o])
          /\ ledger'[o] = TakenOut(ledger[o], p.who, p.amount)
      BY <1>1, <2>2 DEF RefundTakeSwap, TypeOK
    <3> QED
      BY <1>4, <3>1, UpdatedRecords, Entries DEF AtAway
  <2> QED
    BY <2>1, <2>2
<1>6. AtAway(o) /\ ~AtAway(o)' /\ AtHome(o)' = AtHome(o)
  BY <1>2, <1>3, <1>5 DEF AtHome, AtAway
<1> HIDE DEF o
<1> QED
  BY <1>1, <1>2, <1>3, <1>6, AwayGains, BooksFollow

\* All other steps about orders without bids move no tokens.
LEMMA MirrorBooks ==
    ASSUME TypeOK, SettlementInv, CancelInv, BooksBalance, NEW p \in packets,
           OnReceivedMake(p)
    PROVE  BooksBalance'
<1>1. p.order \in Orders
  BY DEF TypeOK, PacketType
<1>2. /\ remote[p.order].loc = "none"
      /\ native' = native /\ ledger' = ledger /\ bank' = bank
  BY DEF OnReceivedMake, Arrives, SettlementInv, AnnouncedOnce
<1>3. /\ remote'[p.order].taker = NoUser
      /\ \A o \in Orders \ {p.order} : remote'[o] = remote[o]
  BY <1>1, <1>2 DEF OnReceivedMake, Appended, Found, TypeOK
<1>4. \A o \in Orders : AtHome(o)' = AtHome(o) /\ AtAway(o)' = AtAway(o)
  BY <1>2, <1>3 DEF AtHome, AtAway, Found
<1> QED
  BY <1>2, <1>4, NothingGained

LEMMA StatusBooks ==
    ASSUME TypeOK, BooksBalance, NEW p \in packets,
           \/ AckMakeSwap(p) \/ RefuseTake(p) \/ OnReceivedCancel(p)
           \/ RefuseCancel(p) \/ DropCancelSwap(p)
    PROVE  BooksBalance'
<1>1. p.order \in Orders
  BY DEF TypeOK, PacketType
<1>2. native[p.order] \in OrderType /\ remote[p.order] \in OrderType
  BY <1>1 DEF TypeOK
<1>3. ledger' = ledger /\ bank' = bank
  BY DEF AckMakeSwap, RefuseTake, OnReceivedCancel, RefuseCancel, DropCancelSwap
<1>4. \/ remote' = remote
      \/ remote' = [remote EXCEPT ![p.order] = Cancelled(remote[p.order])]
  BY DEF AckMakeSwap, RefuseTake, OnReceivedCancel, RefuseCancel, DropCancelSwap,
         swapVars
<1>5. \/ native' = native
      \/ native' = [native EXCEPT ![p.order] = Synced(native[p.order])]
  BY DEF AckMakeSwap, RefuseTake, OnReceivedCancel, RefuseCancel, DropCancelSwap,
         swapVars
<1>6. /\ Cancelled(remote[p.order]).taker = remote[p.order].taker
      /\ Cancelled(remote[p.order]).loc = remote[p.order].loc
      /\ Synced(native[p.order]).loc = native[p.order].loc
  BY <1>2, UpdatedRecords, KeptUpdates
<1>7. \A o \in Orders : remote'[o].taker = remote[o].taker
                        /\ remote'[o].loc = remote[o].loc
  BY <1>4, <1>6 DEF TypeOK
<1>8. \A o \in Orders : native'[o].loc = native[o].loc
  BY <1>5, <1>6 DEF TypeOK
<1>9. \A o \in Orders : AtHome(o)' = AtHome(o) /\ AtAway(o)' = AtAway(o)
  BY <1>3, <1>7, <1>8 DEF AtHome, AtAway, Found
<1> QED
  BY <1>3, <1>9, NothingGained

LEMMA BooksNext ==
    ASSUME TypeOK, TypeOK', SettlementInv, CancelInv, PlainInv, BooksBalance,
           [Next]_vars
    PROVE  BooksBalance'
<1> SUFFICES ASSUME PlainOrders = Orders PROVE BooksBalance'
  BY DEF BooksBalance, PlainOrders
<1>1. CASE Environment \/ UNCHANGED vars
  BY <1>1, NothingGained DEF Environment, vars, IbcChannelConnect, Tick, swapVars,
        ExecutePauseMarket, ExecuteUnpauseMarket, SetMarket, AtHome, AtAway
<1>2. CASE SwapRequest
  <2>1. ASSUME NEW o \in Orders, ExecuteCancelSwap(o) PROVE BooksBalance'
    BY <2>1, NothingGained DEF ExecuteCancelSwap, swapVars, AtHome, AtAway
  <2> QED
    BY <1>2, <2>1, MakeBooks, TakeBooks DEF SwapRequest
<1>3. CASE SwapRelay
  BY <1>3, MirrorBooks, StatusBooks, RefundBooks, SellBooks, SettleBooks
     DEF SwapRelay
<1>4. CASE BidRequest \/ BidRelay
  BY <1>4, BidRequestAuction, BidRelayAuction DEF CancelInv, OnlyAboutAnAuction
<1> QED
  BY <1>1, <1>2, <1>3, <1>4 DEF Next, Relay

LEMMA BooksInit == Init => BooksBalance
<1> SUFFICES ASSUME Init, NEW c \in Chains
             PROVE  bank[c] = Reserve[c] + SumFunctionOnSet(Unsettled(c), Orders)
                                         + SumFunctionOnSet(Taken(c), Orders)
  BY DEF BooksBalance
<1>1. \A o \in Orders : Unsettled(c)[o] = 0 /\ Taken(c)[o] = 0
  BY DEF Init, Unsettled, Taken, NoOrder, Found
<1>2. SumFunctionOnSet(Unsettled(c), Orders) = 0 /\ SumFunctionOnSet(Taken(c), Orders) = 0
  BY <1>1, FiniteAssumption, SumZero
<1> QED
  BY <1>2, ReserveAssumption DEF Init

\* The orders that share the account of a contract never spend each other's
\* tokens: whatever is relayed, refused or timed out, a chain's account holds
\* what its unsettled and its locked orders put there, to the last token.
THEOREM BooksBalanceCorrect == Spec => []BooksBalance
BY BooksInit, BooksNext, TypeCorrect, SettlementCorrect, CancelCorrect,
   PlainCorrect, PTL DEF Spec

-----------------------------------------------------------------------------
\* Orders of careful clients: the steps of AtomicAuction, seen from one order.

Money(o) == ledger[o].held
SameParties(o) == native'[o].taker = native[o].taker /\ Due(o)' = Due(o)
PhaseStays(o) == PhaseOf(o)' = PhaseOf(o)
MoneyStays(o) == ledger'[o].held = ledger[o].held
AllStays(o) == PhaseStays(o) /\ MoneyStays(o) /\ SameParties(o)

DepositAmounts == BidAmounts \cup Additions \cup {Offer[o].buy : o \in Orders}

Offered(o) ==
    /\ PhaseOf(o) = "none" /\ PhaseOf(o)' = "offered"
    /\ MoneyStays(o) /\ SameParties(o)
Deposited(o, u) ==
    /\ PhaseOf(o) \in {"offered", "returned"} /\ PhaseStays(o) /\ SameParties(o)
    /\ \E n \in DepositAmounts : ledger'[o].held = [Money(o) EXCEPT ![u] = @ + n]
Withdrawn(o, u) ==
    /\ PhaseOf(o) \notin {"none", "sold"} /\ PhaseStays(o) /\ SameParties(o)
    /\ \E n \in 0 .. Money(o)[u] : ledger'[o].held = [Money(o) EXCEPT ![u] = @ - n]
SoldTo(o, u) ==
    /\ PhaseOf(o) = "offered" /\ PhaseOf(o)' = "sold" /\ MoneyStays(o)
    /\ BuyerOK(o, u) /\ native'[o].taker = u
    /\ Due(o)' \in 1 .. Money(o)[u]
Settled(o) ==
    /\ PhaseOf(o) = "sold" /\ PhaseOf(o)' = "paid"
    /\ native'[o].taker = native[o].taker /\ Due(o)' = 0
    /\ ledger'[o].held = [Money(o) EXCEPT ![native[o].taker] = @ - Due(o)]
ReturnedNow(o) ==
    /\ PhaseOf(o) = "offered" /\ PhaseOf(o)' = "returned"
    /\ MoneyStays(o) /\ SameParties(o)

Dealt(o) ==
    \/ Offered(o) \/ Settled(o) \/ ReturnedNow(o)
    \/ \E u \in Users : Deposited(o, u) \/ Withdrawn(o, u) \/ SoldTo(o, u)

\* One order is dealt with, if any is.
OneDeal ==
    \/ \A o \in Orders : AllStays(o)
    \/ \E o \in Orders : Dealt(o) /\ \A x \in Orders \ {o} : AllStays(x)

LEMMA DealsAreSteps ==
    ASSUME TypeOK, OneDeal
    PROVE  [Auction!Next]_<<[o \in Orders |-> PhaseOf(o)],
                            [o \in Orders |-> ledger[o].held],
                            [o \in Orders |-> native[o].taker],
                            [o \in Orders |-> Due(o)]>>
<1> DEFINE ph == [o \in Orders |-> PhaseOf(o)]
           st == [o \in Orders |-> ledger[o].held]
           by == [o \in Orders |-> native[o].taker]
           du == [o \in Orders |-> Due(o)]
<1>1. CASE \A o \in Orders : AllStays(o)
  <2>1. ph' = ph /\ st' = st /\ by' = by /\ du' = du
    BY <1>1 DEF AllStays, PhaseStays, MoneyStays, SameParties
  <2> QED
    BY <2>1
<1>2. ASSUME NEW o \in Orders, Dealt(o), \A x \in Orders \ {o} : AllStays(x)
      PROVE  [Auction!Next]_<<ph, st, by, du>>
  <2>1. /\ ph[o] = PhaseOf(o) /\ st[o] = Money(o) /\ by[o] = native[o].taker
        /\ du[o] = Due(o)
    BY DEF Money
  <2>2. /\ ph' = [ph EXCEPT ![o] = PhaseOf(o)']
        /\ st' = [st EXCEPT ![o] = ledger'[o].held]
        /\ by' = [by EXCEPT ![o] = native'[o].taker]
        /\ du' = [du EXCEPT ![o] = Due(o)']
    BY <1>2 DEF AllStays, PhaseStays, MoneyStays, SameParties
  <2>3. /\ PhaseStays(o) => ph' = ph
        /\ MoneyStays(o) => st' = st
        /\ native'[o].taker = native[o].taker => by' = by
        /\ Due(o)' = Due(o) => du' = du
    BY <1>2 DEF AllStays, PhaseStays, MoneyStays, SameParties
  <2>4. Money(o) \in [Users -> Int]
    BY DEF Money, TypeOK, LedgerType
  <2> HIDE DEF ph, st, by, du
  <2>5. CASE Offered(o)
    <3>1. Auction!Escrow(o)
      BY <2>1, <2>2, <2>3, <2>5 DEF Offered, SameParties, Auction!Escrow, Auction!Goes,
         ph, st, by, du
    <3> QED BY <3>1 DEF Auction!Next
  <2>6. ASSUME NEW u \in Users, Deposited(o, u)
        PROVE  Auction!Next
    <3>1. PICK n \in DepositAmounts : ledger'[o].held = [Money(o) EXCEPT ![u] = @ + n]
      BY <2>6 DEF Deposited
    <3>2. st' = [st EXCEPT ![o][u] = @ + n]
      BY <2>1, <2>2, <3>1
    <3>3. Auction!PutIn(o, u)
      BY <2>1, <2>3, <2>6, <3>2 DEF Deposited, SameParties, DepositAmounts, Auction!PutIn,
         ph, st, by, du
    <3> QED BY <3>3 DEF Auction!Next
  <2>7. ASSUME NEW u \in Users, Withdrawn(o, u)
        PROVE  [Auction!Next]_<<ph, st, by, du>>
    <3>1. PICK n \in 0 .. Money(o)[u] : ledger'[o].held = [Money(o) EXCEPT ![u] = @ - n]
      BY <2>7 DEF Withdrawn
    <3>2. st' = [st EXCEPT ![o][u] = @ - n]
      BY <2>1, <2>2, <3>1
    <3>3. ph' = ph /\ by' = by /\ du' = du
      BY <2>3, <2>7 DEF Withdrawn, SameParties
    <3>4. CASE n = 0
      <4>1. Money(o)[u] \in Int /\ Money(o)[u] - 0 = Money(o)[u]
        BY <2>4
      <4>2. MoneyStays(o)
        BY <2>4, <3>1, <3>4, <4>1 DEF MoneyStays, Money
      <4> QED BY <2>3, <3>3, <4>2
    <3>5. CASE n # 0
      <4>1. n \in 1 .. st[o][u]
        BY <2>1, <3>5
      <4>2. Auction!TakeOut(o, u)
        BY <2>1, <2>7, <3>2, <3>3, <4>1 DEF Withdrawn, Auction!TakeOut, ph, st, by, du
      <4> QED BY <4>2 DEF Auction!Next
    <3> QED BY <3>4, <3>5
  <2>8. ASSUME NEW u \in Users, SoldTo(o, u)
        PROVE  Auction!Next
    <3>1. Auction!Sell(o, u)
      BY <2>1, <2>2, <2>3, <2>8 DEF SoldTo, Auction!Sell, Auction!Goes, ph, st, by, du
    <3> QED BY <3>1 DEF Auction!Next
  <2>9. CASE Settled(o)
    <3>1. st' = [st EXCEPT ![o][by[o]] = @ - du[o]]
      BY <2>1, <2>2, <2>9 DEF Settled
    <3>2. Auction!Pay(o)
      BY <2>1, <2>2, <2>3, <2>9, <3>1 DEF Settled, Auction!Pay, Auction!Goes,
         ph, st, by, du
    <3> QED BY <3>2 DEF Auction!Next
  <2>10. CASE ReturnedNow(o)
    <3>1. Auction!Return(o)
      BY <2>1, <2>2, <2>3, <2>10 DEF ReturnedNow, SameParties, Auction!Return,
         Auction!Goes, ph, st, by, du
    <3> QED BY <3>1 DEF Auction!Next
  <2> QED
    BY <1>2, <2>5, <2>6, <2>7, <2>8, <2>9, <2>10 DEF Dealt
<1> QED
  BY <1>1, <1>2 DEF OneDeal

-----------------------------------------------------------------------------
\* What is known besides of an order that is being sold.

\* Until the away chain has paid, the answer that tells it to is in flight.
SaleUnderWay ==
    \A o \in Orders :
        native[o].loc = "inactive" /\ remote[o].loc # "inactive" =>
            \E p \in packets : p.order = o /\ p.type \in BuyTypes /\ p.state = "ok"

\* The home chain knows no taker before the sale.
NativeUntaken ==
    \A o \in Orders : native[o].loc # "inactive" => native[o].taker = NoUser

\* A live bid is a bid of something.
BidsArePositive ==
    \A o \in Orders, u \in Users :
        remoteBids[o][u].status \in {"Initial", "Placed"} => remoteBids[o][u].amount > 0

SaleInv == SaleUnderWay /\ NativeUntaken /\ BidsArePositive

\* Only the payment consumes the answer to a purchase.
LEMMA AgreedStays ==
    ASSUME [Next]_vars, NEW p \in packets, p.type \in BuyTypes, p.state = "ok",
           ~Payment(p)
    PROVE  p \in packets'
<1>1. CASE Environment \/ UNCHANGED vars
  BY <1>1 DEF Environment, vars, IbcChannelConnect, Tick, swapVars,
        ExecutePauseMarket, ExecuteUnpauseMarket, SetMarket
<1>2. CASE SwapRequest \/ BidRequest
  BY <1>2 DEF SwapRequest, ExecuteMakeSwap, ExecuteCancelSwap, ExecuteTakeSwap,
     BidRequest, ExecuteMakeBid, ExecuteTakeBid, ExecuteCancelBid, ExecuteUpdateBid,
     SendBidPacket, SendPacket
<1>3. CASE SwapRelay
  <2>1. ASSUME NEW q \in packets,
               \/ OnReceivedMake(q) \/ OnReceivedTake(q) \/ RefuseTake(q)
               \/ OnReceivedCancel(q) \/ RefuseCancel(q)
        PROVE  p \in packets'
    BY <2>1 DEF OnReceivedMake, OnReceivedTake, RefuseTake, OnReceivedCancel,
       RefuseCancel, Arrives, WriteAck
  <2>2. ASSUME NEW q \in packets,
               \/ AckMakeSwap(q) \/ RefundMakeSwap(q) \/ RefundTakeSwap(q)
               \/ AckCancelSwap(q) \/ DropCancelSwap(q)
        PROVE  p \in packets'
    BY <2>2 DEF AckMakeSwap, RefundMakeSwap, RefundTakeSwap, AckCancelSwap,
       DropCancelSwap, Succeeded, Failed, Consume, BuyTypes
  <2>3. ASSUME NEW q \in packets, AckTakeSwap(q)
        PROVE  p \in packets'
    BY <2>3 DEF Payment, AckTakeSwap, Consume
  <2> QED
    BY <1>3, <2>1, <2>2, <2>3 DEF SwapRelay
<1>4. CASE BidRelay
  <2>1. ASSUME NEW q \in packets,
               \/ OnReceivedMakeBid(q) \/ OnReceivedTakeBid(q) \/ RefuseTakeBidLate(q)
               \/ RefuseTakeBid(q) \/ OnReceivedCancelBid(q) \/ RefuseCancelBid(q)
               \/ OnReceivedUpdateBid(q) \/ RefuseUpdateBid(q)
        PROVE  p \in packets'
    BY <2>1 DEF OnReceivedMakeBid, OnReceivedTakeBid, RefuseTakeBidLate, RefuseTakeBid,
       OnReceivedCancelBid, RefuseCancelBid, OnReceivedUpdateBid, RefuseUpdateBid,
       Arrives, WriteAck
  <2>2. ASSUME NEW q \in packets,
               \/ AckMakeBid(q) \/ RefundMakeBid(q) \/ AckCancelBid(q)
               \/ AckUpdateBid(q) \/ RefundUpdateBid(q) \/ DropBidPacket(q)
        PROVE  p \in packets'
    BY <2>2 DEF AckMakeBid, RefundMakeBid, AckCancelBid, AckUpdateBid, RefundUpdateBid,
       DropBidPacket, Succeeded, Failed, Consume, BuyTypes
  <2>3. ASSUME NEW q \in packets, AckTakeBid(q)
        PROVE  p \in packets'
    BY <2>3 DEF Payment, AckTakeBid, Consume
  <2> QED
    BY <1>4, <2>1, <2>2, <2>3 DEF BidRelay
<1> QED
  BY <1>1, <1>2, <1>3, <1>4 DEF Next, Relay

LEMMA SaleUnderWayNext ==
    ASSUME TypeOK, SettlementInv, SaleUnderWay, [Next]_vars
    PROVE  SaleUnderWay'
<1> SUFFICES ASSUME NEW o \in Orders, native'[o].loc = "inactive",
                    remote'[o].loc # "inactive"
             PROVE  \E p \in packets' :
                        p.order = o /\ p.type \in BuyTypes /\ p.state = "ok"
  BY DEF SaleUnderWay
<1>1. SettlementStep
  BY StepShapes DEF SettlementInv
<1>2. CASE native[o].loc = "inactive"
  <2>1. remote[o].loc # "inactive"
    <3>1. ASSUME remote[o].loc = "inactive" PROVE remote'[o] = remote[o]
      <4>1. ASSUME NEW p \in packets, OnReceivedMake(p) PROVE remote'[o] = remote[o]
        <5>1. remote[p.order].loc = "none" /\ p.order \in Orders
          BY <4>1 DEF OnReceivedMake, Arrives, SettlementInv, AnnouncedOnce, TypeOK, PacketType
        <5> QED BY <3>1, <4>1, <5>1 DEF OnReceivedMake, TypeOK
      <4>2. CASE QuietStep
        BY <3>1, <4>2 DEF QuietStep, OrderKept, RecordKept
      <4>3. ASSUME NEW p \in packets, Payment(p) PROVE remote'[o] = remote[o]
        BY <3>1, <4>3, PaymentStep
      <4>4. ASSUME NEW p \in packets, Delivery(p) PROVE remote'[o] = remote[o]
        BY <4>4, DeliveryStep
      <4> QED
        BY <1>1, <4>1, <4>2, <4>3, <4>4 DEF SettlementStep, ExecuteMakeSwap
    <3> QED BY <3>1
  <2>2. PICK p \in packets : p.order = o /\ p.type \in BuyTypes /\ p.state = "ok"
    BY <1>2, <2>1 DEF SaleUnderWay
  <2>3. ~Payment(p)
    BY <2>2, PaymentStep
  <2> QED
    BY <2>2, <2>3, AgreedStays
<1>3. CASE native[o].loc # "inactive"
  <2>1. PICK p \in packets : Delivery(p) /\ p.order = o
    <3>1. ~QuietStep
      BY <1>3 DEF QuietStep, OrderKept, RecordKept
    <3>2. ASSUME NEW x \in Orders, ExecuteMakeSwap(x) PROVE FALSE
      <4>1. native'[o] = native[o] \/ native'[o].loc = "active"
        BY <3>2 DEF ExecuteMakeSwap, Appended, TypeOK
      <4> QED BY <1>3, <4>1
    <3>3. \A p \in packets : ~OnReceivedMake(p) /\ ~Payment(p)
      BY <1>3, PaymentStep DEF OnReceivedMake
    <3> QED
      BY <1>1, <1>3, <3>1, <3>2, <3>3, DeliveryStep DEF SettlementStep
  <2>2. p.type \in BuyTypes /\ Answered(p, "ok")
    BY <2>1, DeliveryStep
  <2>3. /\ [p EXCEPT !.state = "ok"].order = p.order
        /\ [p EXCEPT !.state = "ok"].type = p.type
        /\ [p EXCEPT !.state = "ok"].state = "ok"
    BY DEF TypeOK, PacketType
  <2> QED
    BY <2>1, <2>2, <2>3 DEF Answered
<1> QED
  BY <1>2, <1>3

\* No handler but a sale names a taker in the home chain's record.
LEMMA StatusTakers ==
    ASSUME NEW order \in OrderType
    PROVE  /\ Synced(order).taker = order.taker
           /\ NotCreated(order).taker = order.taker
           /\ Cancelled(order).taker = order.taker
           /\ \A status : Appended(status).taker = NoUser
BY DEF OrderType, Synced, NotCreated, Cancelled, Appended

\* What a step does to the records of the home chain.
NativeStep ==
    \/ native' = native
    \/ \E o \in Orders : native' = [native EXCEPT ![o] = Appended("Initial")]
    \/ \E p \in packets :
          /\ Found(native[p.order])
          /\ \/ native' = [native EXCEPT ![p.order] = Synced(@)]
             \/ native' = [native EXCEPT ![p.order] = NotCreated(@)]
             \/ native' = [native EXCEPT ![p.order] = Cancelled(@)]
    \/ \E p \in packets : Delivery(p)

LEMMA NativeSteps ==
    ASSUME [Next]_vars
    PROVE  NativeStep
<1>1. CASE Environment \/ UNCHANGED vars
  BY <1>1 DEF Environment, vars, IbcChannelConnect, Tick, swapVars,
        ExecutePauseMarket, ExecuteUnpauseMarket, SetMarket, NativeStep
<1>2. CASE SwapRequest \/ BidRequest
  BY <1>2 DEF SwapRequest, ExecuteMakeSwap, ExecuteCancelSwap, ExecuteTakeSwap,
     BidRequest, ExecuteMakeBid, ExecuteTakeBid, ExecuteCancelBid, ExecuteUpdateBid,
     swapVars, NativeStep
<1>3. CASE SwapRelay
  BY <1>3 DEF SwapRelay, OnReceivedMake, AckMakeSwap, RefundMakeSwap, RefuseTake,
     AckTakeSwap, RefundTakeSwap, OnReceivedCancel, RefuseCancel, AckCancelSwap,
     CancelRefundable, DropCancelSwap, swapVars, NativeStep, Delivery
<1>4. CASE BidRelay
  BY <1>4 DEF BidRelay, OnReceivedMakeBid, AckMakeBid, RefundMakeBid, RefuseTakeBidLate,
     RefuseTakeBid, AckTakeBid, OnReceivedCancelBid, RefuseCancelBid, AckCancelBid,
     OnReceivedUpdateBid, RefuseUpdateBid, AckUpdateBid, RefundUpdateBid, DropBidPacket,
     swapVars, NativeStep, Delivery
<1> QED
  BY <1>1, <1>2, <1>3, <1>4 DEF Next, Relay

LEMMA NativeUntakenNext ==
    ASSUME TypeOK, NativeUntaken, [Next]_vars
    PROVE  NativeUntaken'
<1> SUFFICES ASSUME NEW o \in Orders, native'[o].loc # "inactive"
             PROVE  native'[o].taker = NoUser
  BY DEF NativeUntaken
<1>1. \A p \in packets : p.order \in Orders
  BY DEF TypeOK, PacketType
<1>2. ASSUME NEW p \in packets, Delivery(p) PROVE native'[o].taker = NoUser
  BY <1>2, DeliveryStep DEF NativeUntaken
<1>3. CASE native' = native
  BY <1>3 DEF NativeUntaken
<1>4. ASSUME NEW x \in Orders, native' = [native EXCEPT ![x] = Appended("Initial")]
      PROVE  native'[o].taker = NoUser
  BY <1>4, StatusTakers DEF NativeUntaken, TypeOK, Appended
<1>5. ASSUME NEW p \in packets, Found(native[p.order]),
             \/ native' = [native EXCEPT ![p.order] = Synced(@)]
             \/ native' = [native EXCEPT ![p.order] = NotCreated(@)]
             \/ native' = [native EXCEPT ![p.order] = Cancelled(@)]
      PROVE  native'[o].taker = NoUser
  <2>1. native[p.order] \in OrderType
    BY <1>1 DEF TypeOK
  <2>2. native'[p.order].taker = native[p.order].taker
    BY <1>1, <1>5, <2>1, StatusTakers DEF TypeOK
  <2>3. o = p.order \/ native'[o] = native[o]
    BY <1>1, <1>5 DEF TypeOK
  <2> QED
    BY <1>1, <1>5, <2>2, <2>3 DEF NativeUntaken, Found
<1> QED
  BY <1>2, <1>3, <1>4, <1>5, NativeSteps DEF NativeStep

\* Bids are made with something and only grow, until they end.
LEMMA BidSet ==
    ASSUME TypeOK, BidsArePositive, NEW x \in Orders, NEW v \in Users, NEW bid,
           SetRemoteBid(x, v, bid),
           bid.status \in {"Initial", "Placed"} => bid.amount > 0
    PROVE  BidsArePositive'
BY BidTables DEF BidsArePositive

LEMMA BidRelayPositive ==
    ASSUME TypeOK, TalkInv, BidsArePositive, NEW p \in packets,
           \/ AckMakeBid(p) \/ RefundMakeBid(p) \/ AckTakeBid(p)
           \/ AckCancelBid(p) \/ AckUpdateBid(p)
    PROVE  BidsArePositive'
<1> DEFINE o == p.order
           u == p.who
           bid == remoteBids[o][u]
<1>1. o \in Orders /\ u \in Users /\ p.amount \in Nat
  <2>1. p.type \in BidTypes
    BY DEF AckMakeBid, RefundMakeBid, AckTakeBid, AckCancelBid, AckUpdateBid,
       Succeeded, Failed, BidTypes
  <2> QED
    BY <2>1 DEF TypeOK, PacketType, BidTypes
<1>2. bid \in BidType /\ bid.amount \in Nat /\ BidTalk(p)
  BY <1>1 DEF TypeOK, BidType, TalkInv
<1>3. bid.status \in {"Initial", "Placed"} => bid.amount > 0
  BY <1>1 DEF BidsArePositive
<1>4. CASE RefundMakeBid(p) \/ AckTakeBid(p) \/ AckCancelBid(p)
  <2>1. PICK status \in {"Failed", "Executed", "Cancelled"} :
            SetRemoteBid(o, u, InStatus(bid, status))
    BY <1>4 DEF RefundMakeBid, AckTakeBid, AckCancelBid
  <2>2. InStatus(bid, status).status = status
    BY <1>2, BidUpdates
  <2> HIDE DEF bid, o, u
  <2> QED
    BY <1>1, <2>1, <2>2, BidSet
<1>5. CASE AckMakeBid(p)
  <2>1. bid.status = "Initial" /\ SetRemoteBid(o, u, InStatus(bid, "Placed"))
    BY <1>2, <1>5 DEF AckMakeBid, Succeeded, BidTalk, NewBid
  <2>2. InStatus(bid, "Placed").amount = bid.amount
    BY <1>2, BidUpdates
  <2> HIDE DEF bid, o, u
  <2> QED
    BY <1>1, <1>3, <2>1, <2>2, BidSet
<1>6. CASE AckUpdateBid(p)
  <2>1. bid.status = "Placed" /\ SetRemoteBid(o, u, Raised(bid, p.amount))
    BY <1>2, <1>6 DEF AckUpdateBid, Succeeded, BidTalk
  <2>2. Raised(bid, p.amount).amount = bid.amount + p.amount
    BY <1>1, <1>2, BidUpdates
  <2>3. Raised(bid, p.amount).amount > 0
    BY <1>1, <1>2, <1>3, <2>1, <2>2
  <2> HIDE DEF bid, o, u
  <2> QED
    BY <1>1, <2>1, <2>3, BidSet
<1> QED
  BY <1>4, <1>5, <1>6

LEMMA BidsArePositiveNext ==
    ASSUME TypeOK, TalkInv, BidsArePositive, [Next]_vars
    PROVE  BidsArePositive'
<1>0. remoteBids' = remoteBids => BidsArePositive'
  BY DEF BidsArePositive
<1>1. CASE Environment \/ UNCHANGED vars
  BY <1>0, <1>1 DEF Environment, vars, bidVars, IbcChannelConnect, Tick,
        ExecutePauseMarket, ExecuteUnpauseMarket, SetMarket
<1>2. CASE SwapRequest \/ SwapRelay
  BY <1>0, <1>2 DEF SwapRequest, ExecuteMakeSwap, ExecuteCancelSwap, ExecuteTakeSwap,
     SwapRelay, OnReceivedMake, AckMakeSwap, RefundMakeSwap, OnReceivedTake, RefuseTake,
     AckTakeSwap, RefundTakeSwap, OnReceivedCancel, RefuseCancel, AckCancelSwap,
     DropCancelSwap, bidVars
<1>3. CASE BidRequest
  <2>1. ASSUME NEW o \in Orders, NEW u \in Users, NEW amount \in BidAmounts,
               NEW expire \in BidExpiries, ExecuteMakeBid(o, u, amount, expire)
        PROVE  BidsArePositive'
    <3>1. NewBid("Initial", amount, expire).amount > 0
      BY AmountAssumption DEF NewBid
    <3> QED
      BY <2>1, <3>1, BidSet DEF ExecuteMakeBid
  <2>2. ASSUME NEW o \in Orders, NEW u \in Users,
               \/ ExecuteTakeBid(o, u) \/ ExecuteCancelBid(o, u)
               \/ \E addition \in Additions : ExecuteUpdateBid(o, u, addition)
        PROVE  BidsArePositive'
    BY <1>0, <2>2 DEF ExecuteTakeBid, ExecuteCancelBid, ExecuteUpdateBid, bidVars
  <2> QED
    BY <1>3, <2>1, <2>2 DEF BidRequest
<1>4. CASE BidRelay
  <2>1. ASSUME NEW p \in packets,
               \/ OnReceivedMakeBid(p) \/ OnReceivedTakeBid(p) \/ RefuseTakeBidLate(p)
               \/ RefuseTakeBid(p) \/ OnReceivedCancelBid(p) \/ RefuseCancelBid(p)
               \/ OnReceivedUpdateBid(p) \/ RefuseUpdateBid(p) \/ RefundUpdateBid(p)
               \/ DropBidPacket(p)
        PROVE  BidsArePositive'
    BY <1>0, <2>1 DEF OnReceivedMakeBid, OnReceivedTakeBid, RefuseTakeBidLate,
       RefuseTakeBid, OnReceivedCancelBid, RefuseCancelBid, OnReceivedUpdateBid,
       RefuseUpdateBid, RefundUpdateBid, DropBidPacket, bidVars
  <2> QED
    BY <1>4, <2>1, BidRelayPositive DEF BidRelay
<1> QED
  BY <1>1, <1>2, <1>3, <1>4 DEF Next, Relay

LEMMA SaleInit == Init => SaleInv
BY UserAssumption DEF Init, SaleInv, SaleUnderWay, NativeUntaken, BidsArePositive,
   NoOrder, NoBid

LEMMA SaleNext ==
    TypeOK /\ SettlementInv /\ TalkInv /\ SaleInv /\ [CarefulNext]_vars => SaleInv'
<1> SUFFICES ASSUME TypeOK, SettlementInv, TalkInv, SaleInv, [CarefulNext]_vars
             PROVE  SaleInv'
  OBVIOUS
<1>1. [Next]_vars
  BY CarefulIsNext
<1> QED
  BY <1>1, SaleUnderWayNext, NativeUntakenNext, BidsArePositiveNext DEF SaleInv

\* What a careful sale relies on: while the away chain has not paid, the news of
\* the sale is on its way; a buyer's name appears with the sale; and what is bid
\* is never nothing.
THEOREM SaleCorrect == CarefulSpec => []SaleInv
<1>1. CarefulSpec => []TypeOK /\ []SettlementInv
  BY CarefulIsSpec, TypeCorrect, SettlementCorrect
<1> QED
  BY <1>1, SaleInit, SaleNext, TalkCorrect, PTL DEF CarefulSpec

-----------------------------------------------------------------------------
\* Handlers deal with one order.

LEMMA DueZero ==
    ASSUME NEW o
    PROVE  /\ PhaseOf(o) # "sold" => Due(o) = 0
           /\ PhaseOf(o)' # "sold" => Due(o)' = 0
BY DEF Due

LEMMA PhaseKept ==
    ASSUME NEW o, native'[o].loc = "none" <=> native[o].loc = "none",
           ledger'[o].delivered = ledger[o].delivered,
           ledger'[o].refunded = ledger[o].refunded,
           ledger'[o].paid = ledger[o].paid
    PROVE  PhaseStays(o)
BY DEF PhaseStays, PhaseOf

\* Of an order that is not sold, only the phase, the money and the taker count.
LEMMA UnsoldParties ==
    ASSUME NEW o, PhaseOf(o) # "sold", PhaseOf(o)' # "sold",
           native'[o].taker = native[o].taker
    PROVE  SameParties(o)
BY DueZero DEF SameParties

LEMMA UnsoldStays ==
    ASSUME NEW o, PhaseOf(o) # "sold", PhaseStays(o), MoneyStays(o),
           native'[o].taker = native[o].taker
    PROVE  AllStays(o)
BY UnsoldParties DEF AllStays, PhaseStays

BidsElsewhere(o) == \A x \in Orders \ {o} : remoteBids'[x] = remoteBids[x]

LEMMA OneDeals ==
    ASSUME NEW o \in Orders, NothingElse(o), BidsElsewhere(o),
           Dealt(o) \/ AllStays(o)
    PROVE  OneDeal
<1>1. ASSUME NEW x \in Orders \ {o} PROVE AllStays(x)
  <2>1. /\ native'[x] = native[x] /\ remote'[x] = remote[x]
        /\ ledger'[x] = ledger[x] /\ remoteBids'[x] = remoteBids[x]
    BY DEF NothingElse, BidsElsewhere
  <2>2. PhaseStays(x)
    BY <2>1, PhaseKept
  <2> QED
    BY <2>1, <2>2 DEF AllStays, PhaseStays, MoneyStays, SameParties, Due
<1> QED
  BY <1>1 DEF OneDeal

LEMMA NothingDone ==
    ASSUME UNCHANGED <<native, remote, remoteBids, ledger>>
    PROVE  OneDeal
BY DEF OneDeal, AllStays, PhaseStays, MoneyStays, SameParties, Due, PhaseOf

\* While anything else is in flight or sent about an order, it is not one that
\* has been sold and not paid.
LEMMA UnsoldBefore ==
    ASSUME SettlementInv, TalkInv, SaleInv, NEW t, t.order \in Orders,
           \/ Sends(t)
           \/ t \in packets /\ ~(t.type \in BuyTypes /\ t.state = "ok")
    PROVE  PhaseOf(t.order) # "sold"
<1> SUFFICES ASSUME PhaseOf(t.order) = "sold" PROVE FALSE
  OBVIOUS
<1>1. ledger[t.order].paid = 0 /\ ledger[t.order].delivered # 0
  BY Phases
<1>2. native[t.order].loc = "inactive" /\ remote[t.order].loc # "inactive"
  BY <1>1 DEF SettlementInv, PaidMeansInactive
<1>3. PICK p \in packets : p.order = t.order /\ p.type \in BuyTypes /\ p.state = "ok"
  BY <1>2 DEF SaleInv, SaleUnderWay
<1>4. Conflict(t, p)
  BY <1>3 DEF Conflict, OrderRequests, BuyTypes
<1> QED
  BY <1>3, <1>4 DEF Sends, TalkInv, OneTalk

\* An order is in one of five phases.
LEMMA PhaseRange == \A o : PhaseOf(o) \in {"none", "offered", "sold", "paid", "returned"}
BY DEF PhaseOf

\* An order that was made is not in the first of them.
LEMMA MadePhase ==
    ASSUME NEW o, native[o].loc # "none"
    PROVE  PhaseOf(o) # "none"
BY DEF PhaseOf

-----------------------------------------------------------------------------
\* The maker's steps.

LEMMA MakeDeal ==
    ASSUME TypeOK, SettlementInv, CancelInv, SaleInv, NEW o \in Orders,
           ExecuteMakeSwap(o)
    PROVE  OneDeal
<1>1. /\ native[o].loc = "none" /\ native'[o] = Appended("Initial")
      /\ ledger' = ledger /\ remoteBids' = remoteBids /\ NothingElse(o)
  BY DEF ExecuteMakeSwap, TypeOK, NothingElse, bidVars
<1>2. native'[o].loc = "active" /\ native'[o].taker = native[o].taker
  BY <1>1 DEF Appended, SaleInv, NativeUntaken
<1>3. remote[o].loc = "none" /\ ledger[o].delivered = 0 /\ ledger[o].paid = 0
  BY <1>1 DEF SettlementInv, NothingBefore, PaidMeansInactive
<1>4. ledger[o].refunded = 0
  BY <1>1 DEF CancelInv, RefundHasReason
<1>5. PhaseOf(o) = "none" /\ PhaseOf(o)' = "offered"
  BY <1>1, <1>2, <1>3, <1>4, Phases, PhasesNext
<1>6. Offered(o)
  BY <1>1, <1>2, <1>5, UnsoldParties DEF Offered, MoneyStays
<1> QED
  BY <1>1, <1>6, OneDeals DEF Dealt, BidsElsewhere

LEMMA ReturnDeal ==
    ASSUME TypeOK, SettlementInv, CancelInv, TalkInv, SaleInv, NEW p \in packets,
           RefundMakeSwap(p) \/ AckCancelSwap(p)
    PROVE  OneDeal
<1> DEFINE o == p.order
<1>1. o \in Orders /\ p.type \notin BuyTypes
  BY DEF TypeOK, PacketType, RefundMakeSwap, AckCancelSwap, Succeeded, Failed, BuyTypes
<1>2. /\ native[o].loc = "active" /\ remoteBids' = remoteBids
      /\ \/ native'[o] = NotCreated(native[o])
         \/ native'[o] = Cancelled(native[o])
      /\ ledger'[o] = Refunded(ledger[o]) /\ NothingElse(o)
  BY <1>1 DEF RefundMakeSwap, AckCancelSwap, CancelRefundable, Found, TypeOK,
     NothingElse, bidVars
<1>3. native[o] \in OrderType /\ ledger[o] \in LedgerType
  BY <1>1 DEF TypeOK
<1>4. native'[o].taker = native[o].taker /\ native'[o].loc = "active"
  BY <1>2, <1>3, StatusTakers, KeptUpdates
<1>5. ledger[o].refunded = 0
  BY DEF RefundMakeSwap, AckCancelSwap, Failed, Succeeded, CancelInv,
     AnnouncedUnrefunded, AgreedCancel
<1>6. ledger[o].delivered = 0 /\ ledger[o].paid = 0
  BY <1>1, <1>2 DEF SettlementInv, PaidMeansInactive, ClosedAlike
<1>7. /\ ledger'[o].refunded = 1 /\ ledger'[o].delivered = 0 /\ ledger'[o].paid = 0
      /\ ledger'[o].held = ledger[o].held
  <2>1. Refunded(ledger[o]).held = ledger[o].held
    BY <1>3 DEF Refunded, LedgerType
  <2> QED
    BY <1>2, <1>3, <1>5, <1>6, <2>1, Entries
<1>8. PhaseOf(o) = "offered" /\ PhaseOf(o)' = "returned"
  BY <1>2, <1>5, <1>6, <1>7, Phases, PhasesNext
<1>9. ReturnedNow(o)
  BY <1>4, <1>7, <1>8, UnsoldParties DEF ReturnedNow, MoneyStays
<1> HIDE DEF o
<1> QED
  BY <1>1, <1>2, <1>9, OneDeals DEF Dealt, BidsElsewhere

-----------------------------------------------------------------------------
\* Tokens put in and taken out.

\* What is put in, is put into an order that is in the active list of the away
\* chain and that nobody is buying.
LEMMA DepositDeal ==
    ASSUME TypeOK, SettlementInv, TalkInv, SaleInv, NEW o \in Orders, NEW u \in Users,
           NEW n \in DepositAmounts, NEW q, Sends(q), q.order = o, Found(remote[o]),
           native' = native, ledger' = [ledger EXCEPT ![o] = PutIn(@, u, n)],
           \A x \in Orders \ {o} : remote'[x] = remote[x],
           BidsElsewhere(o)
    PROVE  OneDeal
<1>1. PhaseOf(o) # "sold"
  BY UnsoldBefore
<1>2. PhaseOf(o) \in {"offered", "returned"}
  <2>1. native[o].loc # "none" /\ ledger[o].paid = 0
    BY DEF Found, SettlementInv, NothingBefore, PaidMeansInactive
  <2>2. PhaseOf(o) # "paid"
    BY <2>1 DEF PhaseOf
  <2> QED
    BY <1>1, <2>1, <2>2, PhaseRange, MadePhase
<1>3. ledger'[o] = PutIn(ledger[o], u, n) /\ ledger[o] \in LedgerType
      /\ NothingElse(o)
  BY DEF TypeOK, NothingElse
<1>4. PhaseStays(o)
  BY <1>3, Entries, PhaseKept
<1>5. SameParties(o)
  BY <1>1, <1>4, UnsoldParties DEF PhaseStays
<1>6. Deposited(o, u)
  <2>1. ledger'[o].held = [Money(o) EXCEPT ![u] = @ + n]
    BY <1>3 DEF LedgerType, PutIn, Money
  <2> QED
    BY <1>2, <1>4, <1>5, <2>1 DEF Deposited
<1> QED
  BY <1>3, <1>6, OneDeals DEF Dealt

LEMMA DepositDeals ==
    ASSUME TypeOK, SettlementInv, TalkInv, SaleInv, Careful,
           NEW o \in Orders, NEW u \in Users,
           \/ ExecuteTakeSwap(o, u)
           \/ \E amount \in BidAmounts, expire \in BidExpiries :
                 ExecuteMakeBid(o, u, amount, expire)
           \/ \E addition \in Additions : ExecuteUpdateBid(o, u, addition)
    PROVE  OneDeal
<1>0. NumberedBySent
  BY DEF TalkInv
<1>1. \A type, amount, expire : NewPacket(o, type, u, amount, expire).order = o
  BY DEF NewPacket
<1>2. CASE ExecuteTakeSwap(o, u)
  <2>1. \E q : Sends(q) /\ q.order = o
    BY <1>0, <1>1, <1>2, CarefulSends DEF ExecuteTakeSwap
  <2>2. /\ Found(remote[o]) /\ native' = native
        /\ ledger' = [ledger EXCEPT ![o] = PutIn(@, u, Offer[o].buy)]
        /\ \A x \in Orders \ {o} : remote'[x] = remote[x]
        /\ BidsElsewhere(o) /\ Offer[o].buy \in DepositAmounts
    BY <1>2 DEF ExecuteTakeSwap, Open, TypeOK, bidVars, BidsElsewhere, DepositAmounts
  <2> QED
    BY <2>1, <2>2, DepositDeal
<1>3. ASSUME NEW amount \in BidAmounts, NEW expire \in BidExpiries,
             ExecuteMakeBid(o, u, amount, expire)
      PROVE  OneDeal
  <2>1. Sends(NewPacket(o, "MakeBid", u, amount, expire))
    BY <1>0, <1>3, CarefulSends DEF ExecuteMakeBid, SendBidPacket
  <2>2. /\ Found(remote[o]) /\ native' = native
        /\ ledger' = [ledger EXCEPT ![o] = PutIn(@, u, amount)]
        /\ \A x \in Orders \ {o} : remote'[x] = remote[x]
        /\ BidsElsewhere(o) /\ amount \in DepositAmounts
    BY <1>3 DEF ExecuteMakeBid, Deposit, SetRemoteBid, TypeOK, swapVars,
       BidsElsewhere, DepositAmounts
  <2> QED
    BY <1>1, <2>1, <2>2, DepositDeal
<1>4. ASSUME NEW addition \in Additions, ExecuteUpdateBid(o, u, addition)
      PROVE  OneDeal
  <2>1. Sends(NewPacket(o, "UpdateBid", u, addition, 0))
    BY <1>0, <1>4, CarefulSends DEF ExecuteUpdateBid, SendBidPacket
  <2>2. /\ Found(remote[o]) /\ native' = native
        /\ ledger' = [ledger EXCEPT ![o] = PutIn(@, u, addition)]
        /\ \A x \in Orders \ {o} : remote'[x] = remote[x]
        /\ BidsElsewhere(o) /\ addition \in DepositAmounts
    BY <1>4 DEF ExecuteUpdateBid, Deposit, TypeOK, swapVars, bidVars,
       BidsElsewhere, DepositAmounts
  <2> QED
    BY <1>1, <2>1, <2>2, DepositDeal
<1> QED
  BY <1>2, <1>3, <1>4

\* What the away chain owes when it finishes with a message is there.
LEMMA DueHeld ==
    ASSUME TypeOK, CancelInv, TalkInv, NEW p \in packets, p.who \in Users
    PROVE  p.order \in Orders /\ AwayDue(p) \in 0 .. ledger[p.order].held[p.who]
<1>1. p.order \in Orders
  BY DEF TypeOK, PacketType
<1>2. /\ BidStake(p.order, p.who) \in Nat /\ AdditionStake(p.order, p.who) \in Nat
      /\ LockStake(p.order, p.who) \in Nat
  BY <1>1, StakeTypes
<1>3. ledger[p.order].held[p.who] =
          BidStake(p.order, p.who) + AdditionStake(p.order, p.who)
                                   + LockStake(p.order, p.who)
  BY <1>1 DEF TalkInv, InOrder, Staked
<1>4. \/ AwayDue(p) = 0 \/ AwayDue(p) = BidStake(p.order, p.who)
      \/ AwayDue(p) = AdditionStake(p.order, p.who)
      \/ AwayDue(p) = LockStake(p.order, p.who)
  BY DueStaked
<1> QED
  BY <1>1, <1>2, <1>3, <1>4

\* What is taken out is what the message says is there.
LEMMA WithdrawDeal ==
    ASSUME TypeOK, SettlementInv, CancelInv, TalkInv, SaleInv, NEW p \in packets,
           p.who \in Users, ~(p.type \in BuyTypes /\ p.state = "ok"),
           native' = native,
           ledger' = [ledger EXCEPT ![p.order] = TakenOut(@, p.who, AwayDue(p))],
           \A x \in Orders \ {p.order} : remote'[x] = remote[x],
           BidsElsewhere(p.order)
    PROVE  OneDeal
<1> DEFINE o == p.order
           n == AwayDue(p)
<1>1. o \in Orders /\ n \in 0 .. Money(o)[p.who]
  BY DueHeld DEF Money
<1>2. PhaseOf(o) \notin {"none", "sold"}
  <2>1. native[o].loc # "none"
    BY <1>1 DEF SettlementInv, NothingBefore
  <2> QED
    BY <1>1, <2>1, MadePhase, UnsoldBefore
<1>3. ledger'[o] = TakenOut(ledger[o], p.who, n) /\ ledger[o] \in LedgerType
      /\ NothingElse(o)
  BY <1>1 DEF TypeOK, NothingElse
<1> HIDE DEF n
<1>4. PhaseStays(o)
  BY <1>3, Entries, PhaseKept
<1>5. SameParties(o)
  BY <1>2, <1>4, UnsoldParties DEF PhaseStays
<1>6. ledger'[o].held = [Money(o) EXCEPT ![p.who] = @ - n]
  BY <1>3 DEF LedgerType, TakenOut, Money
<1>7. Withdrawn(o, p.who)
  BY <1>1, <1>2, <1>4, <1>5, <1>6 DEF Withdrawn
<1> HIDE DEF o
<1>8. Dealt(o)
  BY <1>7 DEF Dealt
<1> QED
  BY <1>1, <1>3, <1>8, OneDeals DEF o

LEMMA WithdrawDeals ==
    ASSUME TypeOK, SettlementInv, CancelInv, TalkInv, SaleInv, NEW p \in packets,
           RefundTakeSwap(p) \/ RefundMakeBid(p) \/ AckCancelBid(p) \/ RefundUpdateBid(p)
    PROVE  OneDeal
<1>1. p.order \in Orders
  BY DEF TypeOK, PacketType
<1>2. p.type \in {"TakeSwap", "MakeBid", "CancelBid", "UpdateBid"} /\ p.who \in Users
  <2>1. p.type \in {"TakeSwap", "MakeBid", "CancelBid", "UpdateBid"}
    BY DEF RefundTakeSwap, RefundMakeBid, AckCancelBid, RefundUpdateBid, Succeeded, Failed
  <2> QED
    BY <2>1 DEF TypeOK, PacketType
<1>3. ~(p.type \in BuyTypes /\ p.state = "ok")
  BY DEF RefundTakeSwap, RefundMakeBid, AckCancelBid, RefundUpdateBid, Succeeded, Failed,
     BuyTypes
<1>4. native' = native /\ \A x \in Orders \ {p.order} : remote'[x] = remote[x]
  BY <1>1 DEF RefundTakeSwap, RefundMakeBid, AckCancelBid, RefundUpdateBid, swapVars, TypeOK
<1>5. BidsElsewhere(p.order)
  BY <1>1 DEF RefundTakeSwap, RefundMakeBid, AckCancelBid, RefundUpdateBid, bidVars,
     SetRemoteBid, BidsElsewhere, TypeOK
<1>6. ledger' = [ledger EXCEPT ![p.order] = TakenOut(@, p.who, AwayDue(p))]
  BY DEF RefundTakeSwap, RefundMakeBid, AckCancelBid, RefundUpdateBid, Succeeded, Failed,
     PayBack, AwayDue
<1> QED
  BY <1>2, <1>3, <1>4, <1>5, <1>6, WithdrawDeal

-----------------------------------------------------------------------------
\* The sale and the payment.

\* What a purchase is worth: the price of the order that is locked, or the bid.
LEMMA SaleDue ==
    ASSUME TypeOK, CancelInv, TalkInv, SaleInv, NEW p \in packets, p.type \in BuyTypes
    PROVE  /\ p.order \in Orders /\ p.who \in Users
           /\ AwayDue(p) = IF remote[p.order].taker # NoUser THEN Offer[p.order].buy
                           ELSE remoteBids[p.order][p.who].amount
           /\ AwayDue(p) > 0
<1>1. p.order \in Orders /\ p.who \in Users /\ p.who # NoUser
  BY UserAssumption DEF TypeOK, PacketType, BuyTypes
<1>2. BidTalk(p) /\ SaleTalk(p)
  BY DEF TalkInv
<1>3. CASE p.type = "TakeSwap"
  <2>1. remote[p.order].taker = p.who /\ p.amount = Offer[p.order].buy
    BY <1>2, <1>3 DEF SaleTalk, BuyTypes, Found, CancelInv, TakeHoldsLock
  <2> QED
    BY <1>1, <1>3, <2>1, OfferFacts DEF AwayDue
<1>4. CASE p.type = "TakeBid"
  <2>1. /\ remote[p.order].taker = NoUser
        /\ remoteBids[p.order][p.who].status = "Placed"
    BY <1>2, <1>4 DEF SaleTalk, BidTalk
  <2> QED
    BY <1>1, <1>4, <2>1 DEF AwayDue, SaleInv, BidsArePositive
<1> QED
  BY <1>1, <1>3, <1>4 DEF BuyTypes

LEMMA SellDeal ==
    ASSUME TypeOK, SettlementInv, CancelInv, TalkInv, SaleInv, NEW p \in packets,
           Delivery(p)
    PROVE  OneDeal
<1> DEFINE o == p.order
<1>1. /\ o \in Orders /\ p.type \in BuyTypes /\ native[o].loc = "active"
      /\ native'[o].taker = p.who /\ remote' = remote
      /\ ledger'[o].delivered = ledger[o].delivered + 1
      /\ ledger'[o].paid = ledger[o].paid /\ NothingElse(o)
  BY DeliveryStep DEF NothingElse
<1>2. BuyerOK(o, p.who) /\ remoteBids' = remoteBids
      /\ ledger' = [ledger EXCEPT ![o] = Delivered(@)]
  BY DEF Delivery, OnReceivedTake, OnReceivedTakeBid, TakeAccepted, DeliverTo, bidVars
<1>3. ledger[o].delivered = 0 /\ ledger[o].paid = 0
  BY <1>1 DEF SettlementInv, PaidMeansInactive, ClosedAlike
<1>4. ledger[o].refunded = 0
  BY <1>1, BoughtUnrefunded
<1>5. PhaseOf(o) = "offered" /\ PhaseOf(o)' = "sold"
  BY <1>1, <1>3, <1>4, Phases, PhasesNext
<1>6. MoneyStays(o)
  BY <1>1, <1>2, DeliveredEntry DEF MoneyStays, TypeOK
<1>7. p.who \in Users /\ AwayDue(p) \in 1 .. Money(o)[p.who]
  <2>1. /\ p.who \in Users /\ AwayDue(p) > 0
        /\ AwayDue(p) \in 0 .. ledger[p.order].held[p.who]
    BY <1>1, SaleDue, DueHeld
  <2> QED
    BY <2>1 DEF Money
<1>8. Due(o)' = AwayDue(p)
  <2>1. Due(o)' = IF remote[o].taker # NoUser THEN Offer[o].buy
                  ELSE remoteBids[o][p.who].amount
    BY <1>1, <1>2, <1>5 DEF Due
  <2> QED
    BY <1>1, <2>1, SaleDue
<1>9. SoldTo(o, p.who)
  BY <1>1, <1>2, <1>5, <1>6, <1>7, <1>8 DEF SoldTo
<1> HIDE DEF o
<1>10. Dealt(o) /\ BidsElsewhere(o)
  BY <1>2, <1>7, <1>9 DEF Dealt, BidsElsewhere
<1> QED
  BY <1>1, <1>10, OneDeals

LEMMA PayDeal ==
    ASSUME TypeOK, SettlementInv, CancelInv, TalkInv, SaleInv, NEW p \in packets,
           Payment(p)
    PROVE  OneDeal
<1> DEFINE o == p.order
<1>1. /\ o \in Orders /\ remote[o].loc = "active" /\ native[o].loc = "inactive"
      /\ native[o].taker = p.who /\ native' = native
      /\ ledger'[o].paid = ledger[o].paid + 1 /\ NothingElse(o)
  BY PaymentStep DEF NothingElse
<1>2. p.type \in BuyTypes
  BY DEF Payment, AckTakeSwap, AckTakeBid, Succeeded, BuyTypes
<1>3. ledger' = [ledger EXCEPT ![o] = MakerPaid(@, p.who, AwayDue(p))]
  BY DEF Payment, AckTakeSwap, AckTakeBid, Succeeded, PayMaker, AwayDue
<1>4. ledger[o].delivered = 1 /\ ledger[o].paid = 0
  BY <1>1 DEF SettlementInv, PaidMeansInactive
<1>5. PhaseOf(o) = "sold" /\ PhaseOf(o)' = "paid"
  BY <1>1, <1>4, Phases, PhasesNext
<1>6. Due(o) = AwayDue(p) /\ Due(o)' = 0
  <2>1. Due(o) = IF remote[o].taker # NoUser THEN Offer[o].buy
                 ELSE remoteBids[o][p.who].amount
    BY <1>1, <1>5 DEF Due
  <2> QED
    BY <1>2, <1>5, <2>1, SaleDue, DueZero
<1>7. ledger'[o].held = [Money(o) EXCEPT ![native[o].taker] = @ - Due(o)]
  <2>1. ledger'[o] = MakerPaid(ledger[o], native[o].taker, Due(o))
    BY <1>1, <1>3, <1>6 DEF TypeOK
  <2>2. ledger[o] \in LedgerType
    BY <1>1 DEF TypeOK
  <2> QED
    BY <2>1, <2>2 DEF LedgerType, MakerPaid, Money
<1>8. Settled(o)
  BY <1>1, <1>5, <1>6, <1>7 DEF Settled
<1>9. BidsElsewhere(o)
  BY <1>1 DEF Payment, AckTakeSwap, AckTakeBid, SetRemoteBid, bidVars, BidsElsewhere, TypeOK
<1> HIDE DEF o
<1>10. Dealt(o)
  BY <1>8 DEF Dealt
<1> QED
  BY <1>1, <1>9, <1>10, OneDeals

-----------------------------------------------------------------------------
\* Everything else changes nothing that users can see of an order.

LEMMA QuietDeal ==
    ASSUME TypeOK, SettlementInv, TalkInv, SaleInv, NEW p \in packets,
           \/ OnReceivedMake(p) \/ AckMakeSwap(p) \/ OnReceivedCancel(p)
           \/ AckMakeBid(p) \/ AckUpdateBid(p)
    PROVE  OneDeal
<1> DEFINE o == p.order
<1>1. o \in Orders /\ p.type \notin BuyTypes
  BY DEF TypeOK, PacketType, OnReceivedMake, AckMakeSwap, OnReceivedCancel, AckMakeBid,
     AckUpdateBid, Arrives, Succeeded, BuyTypes
<1>2. ledger' = ledger /\ NothingElse(o) /\ BidsElsewhere(o)
  BY <1>1 DEF OnReceivedMake, AckMakeSwap, OnReceivedCancel, AckMakeBid, AckUpdateBid,
     swapVars, bidVars, SetRemoteBid, NothingElse, BidsElsewhere, TypeOK
<1>3. native'[o] = native[o] \/ native'[o] = Synced(native[o])
  BY <1>1 DEF OnReceivedMake, AckMakeSwap, OnReceivedCancel, AckMakeBid, AckUpdateBid,
     swapVars, TypeOK
<1>4. native[o] \in OrderType
  BY <1>1 DEF TypeOK
<1>5. native'[o].taker = native[o].taker /\ native'[o].loc = native[o].loc
  BY <1>3, <1>4, StatusTakers, KeptUpdates
<1>6. PhaseStays(o) /\ MoneyStays(o)
  BY <1>2, <1>5, PhaseKept DEF MoneyStays
<1>7. AllStays(o)
  BY <1>1, <1>5, <1>6, UnsoldBefore, UnsoldStays
<1> HIDE DEF o
<1> QED
  BY <1>1, <1>2, <1>7, OneDeals

LEMMA DealNext ==
    ASSUME TypeOK, SettlementInv, CancelInv, TalkInv, SaleInv, [CarefulNext]_vars
    PROVE  OneDeal
<1>1. CASE Environment \/ UNCHANGED vars
  BY <1>1, NothingDone DEF Environment, vars, IbcChannelConnect, Tick, swapVars, bidVars,
        ExecutePauseMarket, ExecuteUnpauseMarket, SetMarket
<1>2. CASE SwapRequest /\ Careful
  <2>1. ASSUME NEW o \in Orders, ExecuteCancelSwap(o) PROVE OneDeal
    BY <2>1, NothingDone DEF ExecuteCancelSwap, swapVars, bidVars
  <2> QED
    BY <1>2, <2>1, MakeDeal, DepositDeals DEF SwapRequest
<1>3. CASE BidRequest /\ Careful
  <2>1. ASSUME NEW o \in Orders, NEW u \in Users, ExecuteTakeBid(o, u) \/ ExecuteCancelBid(o, u)
        PROVE  OneDeal
    BY <2>1, NothingDone DEF ExecuteTakeBid, ExecuteCancelBid, swapVars, bidVars
  <2> QED
    BY <1>3, <2>1, DepositDeals DEF BidRequest
<1>4. CASE SwapRelay
  <2>1. ASSUME NEW p \in packets, RefuseTake(p) \/ RefuseCancel(p) \/ DropCancelSwap(p)
        PROVE  OneDeal
    BY <2>1, NothingDone DEF RefuseTake, RefuseCancel, DropCancelSwap, swapVars, bidVars
  <2>2. ASSUME NEW p \in packets, OnReceivedTake(p) \/ AckTakeSwap(p)
        PROVE  OneDeal
    BY <2>2, SellDeal, PayDeal DEF Delivery, Payment
  <2> QED
    BY <1>4, <2>1, <2>2, QuietDeal, ReturnDeal, WithdrawDeals DEF SwapRelay
<1>5. CASE BidRelay
  <2>1. ASSUME NEW p \in packets,
               \/ OnReceivedMakeBid(p) \/ RefuseTakeBidLate(p) \/ RefuseTakeBid(p)
               \/ OnReceivedCancelBid(p) \/ RefuseCancelBid(p) \/ OnReceivedUpdateBid(p)
               \/ RefuseUpdateBid(p) \/ DropBidPacket(p)
        PROVE  OneDeal
    BY <2>1, NothingDone DEF OnReceivedMakeBid, RefuseTakeBidLate, RefuseTakeBid,
       OnReceivedCancelBid, RefuseCancelBid, OnReceivedUpdateBid, RefuseUpdateBid,
       DropBidPacket, swapVars, bidVars
  <2>2. ASSUME NEW p \in packets, OnReceivedTakeBid(p) \/ AckTakeBid(p)
        PROVE  OneDeal
    BY <2>2, SellDeal, PayDeal DEF Delivery, Payment
  <2> QED
    BY <1>5, <2>1, <2>2, QuietDeal, WithdrawDeals DEF BidRelay
<1> QED
  BY <1>1, <1>2, <1>3, <1>4, <1>5 DEF CarefulNext, Relay

LEMMA AuctionInit == Init => Auction!Init
BY DEF Init, Auction!Init, PhaseOf, Due, NoOrder, EmptyLedger

\* With careful clients the two contracts implement AtomicAuction, for any
\* chains, orders, users and amounts: whatever is refused, timed out or delayed,
\* a sale fixes its price while the buyer's tokens are in escrow, the maker gets
\* that price from that buyer, and all other tokens go back to those who put
\* them in (on_received_take, on_received_take_bid, on_packet_success and
\* refund_packet_token).
THEOREM AuctionKeptCorrect == CarefulSpec => AuctionKept
<1>1. CarefulSpec => []TypeOK /\ []SettlementInv /\ []CancelInv
  BY CarefulIsSpec, TypeCorrect, SettlementCorrect, CancelCorrect
<1>2. TypeOK /\ SettlementInv /\ CancelInv /\ TalkInv /\ SaleInv /\ [CarefulNext]_vars
      => [Auction!Next]_<<[o \in Orders |-> PhaseOf(o)],
                          [o \in Orders |-> ledger[o].held],
                          [o \in Orders |-> native[o].taker],
                          [o \in Orders |-> Due(o)]>>
  BY DealNext, DealsAreSteps
<1> QED
  BY <1>1, <1>2, AuctionInit, TalkCorrect, SaleCorrect, PTL
     DEF CarefulSpec, AuctionKept, Auction!Spec
=============================================================================
