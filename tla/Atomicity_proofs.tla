-------------------------- MODULE Atomicity_proofs --------------------------
(***************************************************************************)
(* How an order is cancelled, and that a swap is atomic, for any number of *)
(* chains, orders and users.                                               *)
(*                                                                         *)
(* First, for all orders: the maker is refunded at most once, and for a    *)
(* reason that stands.  Eight kinds of step change a mirror, a refund or   *)
(* what announces an order; a lemma for each says that CancelInv survives  *)
(* it.  All other steps are aside: they share one shape, and one lemma.    *)
(*                                                                         *)
(* Then, for orders without bids: they are sold or returned but not both,  *)
(* a cancellation is final, and a lock, its TakeSwap and the tokens the    *)
(* contract holds for it come and go together.  Six actions change what    *)
(* PlainInv says of such an order; each has a lemma.  All other steps,     *)
(* among them everything about bids, leave it.                             *)
(***************************************************************************)
EXTENDS InterchainSwap_proofs, FiniteSetTheorems

-----------------------------------------------------------------------------
\* Orders without bids have no bids.

\* Where the packets of the next state come from.
FromPackets == \A q \in packets' : \E p \in packets :
                  q.order = p.order /\ q.type = p.type
FromPacketsOr(o, types) ==
    \A q \in packets' :
        \/ \E p \in packets : q.order = p.order /\ q.type = p.type
        \/ q.order = o /\ q.type \in types

LEMMA SentOrigin ==
    ASSUME NEW o \in Orders, NEW type, NEW u, NEW amount, NEW expire,
           NEW from, NEW to,
           SendPacket(from, to, NewPacket(o, type, u, amount, expire))
    PROVE  FromPacketsOr(o, {type})
BY DEF SendPacket, NewPacket, FromPacketsOr

LEMMA AnswerOrigin ==
    ASSUME TypeOK, NEW p \in packets, NEW result, WriteAck(p, result)
    PROVE  FromPackets
<1>1. [p EXCEPT !.state = result].order = p.order
      /\ [p EXCEPT !.state = result].type = p.type
  BY DEF TypeOK, PacketType
<1> QED
  BY <1>1 DEF WriteAck, FromPackets

LEMMA NoBidsSwapRequest ==
    ASSUME TypeOK, NoBidsAbout, SwapRequest
    PROVE  NoBidsAbout'
<1>1. remoteBids' = remoteBids
  BY DEF SwapRequest, ExecuteMakeSwap, ExecuteCancelSwap, ExecuteTakeSwap, bidVars
<1>2. PICK o \in Orders : \E type \in SwapTypes : FromPacketsOr(o, {type})
  BY SentOrigin DEF SwapRequest, ExecuteMakeSwap, ExecuteCancelSwap,
                    ExecuteTakeSwap, SwapTypes
<1> QED
  BY <1>1, <1>2 DEF NoBidsAbout, FromPacketsOr

LEMMA NoBidsSwapRelay ==
    ASSUME TypeOK, NoBidsAbout, SwapRelay
    PROVE  NoBidsAbout'
<1>1. remoteBids' = remoteBids
  BY DEF SwapRelay, OnReceivedMake, AckMakeSwap, RefundMakeSwap, OnReceivedTake,
         RefuseTake, AckTakeSwap, RefundTakeSwap, OnReceivedCancel, RefuseCancel,
         AckCancelSwap, DropCancelSwap, bidVars
<1>2. FromPackets
  <2>1. PICK p \in packets : Consume(p) \/ \E result : WriteAck(p, result)
    BY DEF SwapRelay, OnReceivedMake, AckMakeSwap, RefundMakeSwap, OnReceivedTake,
           RefuseTake, AckTakeSwap, RefundTakeSwap, OnReceivedCancel, RefuseCancel,
           AckCancelSwap, DropCancelSwap
  <2> QED
    BY <2>1, AnswerOrigin DEF Consume, FromPackets
<1> QED
  BY <1>1, <1>2 DEF NoBidsAbout, FromPackets

LEMMA NoBidsBidRequest ==
    ASSUME TypeOK, NoBidsAbout, BidRequest
    PROVE  NoBidsAbout'
<1>1. PICK o \in Orders, u \in Users :
            \/ \E amount \in BidAmounts, expire \in BidExpiries :
                  ExecuteMakeBid(o, u, amount, expire)
            \/ ExecuteTakeBid(o, u)
            \/ ExecuteCancelBid(o, u)
            \/ \E addition \in Additions : ExecuteUpdateBid(o, u, addition)
  BY DEF BidRequest
<1>2. o \notin PlainOrders
  BY <1>1 DEF ExecuteMakeBid, ExecuteTakeBid, ExecuteCancelBid, ExecuteUpdateBid,
              PlainOrders, NoBidsAbout, NoBid
<1>3. \E types : FromPacketsOr(o, types)
  BY <1>1, SentOrigin
     DEF ExecuteMakeBid, ExecuteTakeBid, ExecuteCancelBid, ExecuteUpdateBid,
         SendBidPacket
<1>4. \A x \in Orders \ {o} : remoteBids'[x] = remoteBids[x]
  BY <1>1 DEF ExecuteMakeBid, ExecuteTakeBid, ExecuteCancelBid, ExecuteUpdateBid,
              SetRemoteBid, bidVars, TypeOK
<1> QED
  BY <1>2, <1>3, <1>4 DEF NoBidsAbout, FromPacketsOr, PlainOrders

LEMMA NoBidsBidRelay ==
    ASSUME TypeOK, NoBidsAbout, BidRelay
    PROVE  NoBidsAbout'
<1>1. PICK p \in packets :
            \/ OnReceivedMakeBid(p) \/ AckMakeBid(p) \/ RefundMakeBid(p)
            \/ OnReceivedTakeBid(p) \/ RefuseTakeBidLate(p)
            \/ RefuseTakeBid(p) \/ AckTakeBid(p)
            \/ OnReceivedCancelBid(p) \/ RefuseCancelBid(p) \/ AckCancelBid(p)
            \/ OnReceivedUpdateBid(p) \/ RefuseUpdateBid(p)
            \/ AckUpdateBid(p) \/ RefundUpdateBid(p) \/ DropBidPacket(p)
  BY DEF BidRelay
<1>2. p.order \in Orders /\ p.order \notin PlainOrders
  <2>1. p.type \in BidTypes
    BY <1>1, Zenon
       DEF BidTypes, OnReceivedMakeBid, AckMakeBid, RefundMakeBid,
        OnReceivedTakeBid, RefuseTakeBidLate, RefuseTakeBid, AckTakeBid,
        OnReceivedCancelBid, RefuseCancelBid, AckCancelBid, OnReceivedUpdateBid,
        RefuseUpdateBid, AckUpdateBid, RefundUpdateBid, DropBidPacket,
        Arrives, Succeeded, Failed
  <2> QED
    BY <2>1 DEF NoBidsAbout, SwapTypes, BidTypes, TypeOK, PacketType
<1>3. FromPackets
  <2>1. Consume(p) \/ \E result : WriteAck(p, result)
    BY <1>1 DEF OnReceivedMakeBid, AckMakeBid, RefundMakeBid,
        OnReceivedTakeBid, RefuseTakeBidLate, RefuseTakeBid, AckTakeBid,
        OnReceivedCancelBid, RefuseCancelBid, AckCancelBid, OnReceivedUpdateBid,
        RefuseUpdateBid, AckUpdateBid, RefundUpdateBid, DropBidPacket
  <2> QED
    BY <2>1, AnswerOrigin DEF Consume, FromPackets
<1>4. remoteBids' = remoteBids \/ \E bid : SetRemoteBid(p.order, p.who, bid)
  BY <1>1 DEF OnReceivedMakeBid, AckMakeBid, RefundMakeBid,
        OnReceivedTakeBid, RefuseTakeBidLate, RefuseTakeBid, AckTakeBid,
        OnReceivedCancelBid, RefuseCancelBid, AckCancelBid, OnReceivedUpdateBid,
        RefuseUpdateBid, AckUpdateBid, RefundUpdateBid, DropBidPacket, bidVars
<1>5. \A x \in Orders \ {p.order} : remoteBids'[x] = remoteBids[x]
  BY <1>2, <1>4 DEF SetRemoteBid, TypeOK
<1> QED
  BY <1>2, <1>3, <1>5 DEF NoBidsAbout, FromPackets, PlainOrders

LEMMA NoBidsNext ==
    ASSUME TypeOK, NoBidsAbout, [Next]_vars
    PROVE  NoBidsAbout'
<1>1. CASE Environment \/ UNCHANGED vars
  BY <1>1 DEF Environment, vars, IbcChannelConnect, Tick, bidVars,
        ExecutePauseMarket, ExecuteUnpauseMarket, SetMarket, NoBidsAbout
<1> QED
  BY <1>1, NoBidsSwapRequest, NoBidsSwapRelay, NoBidsBidRequest, NoBidsBidRelay
     DEF Next, Relay

-----------------------------------------------------------------------------
\* Steps that leave the mirrors and the refunds alone.

\* A new packet that neither announces nor takes an order, or a packet that
\* is removed, or answered without mirroring or cancelling an order.
AsidePackets ==
    \/ packets' = packets
    \/ \E p \in packets : packets' = packets \ {p}
    \/ \E p \in packets, result \in {"ok", "err"} :
          /\ Answered(p, result)
          /\ p.type # "MakeSwap"
          /\ p.type = "CancelSwap" => result = "err"
    \/ \E q : /\ packets' = packets \cup {q}
              /\ q.state = "sent" /\ q.type \notin {"MakeSwap", "TakeSwap"}

AsideStep ==
    /\ remote' = remote
    /\ \A o \in Orders : ledger'[o].refunded = ledger[o].refunded
    /\ AsidePackets

\* An order that was made stays made.
NativeStays ==
    \A o \in Orders : native[o].loc # "none" => native'[o].loc # "none"

LEMMA UnrefundedEntries ==
    ASSUME NEW entry \in LedgerType
    PROVE  /\ Refunded(entry).refunded = entry.refunded + 1
           /\ Delivered(entry).refunded = entry.refunded
           /\ \A u, amount :
                /\ PutIn(entry, u, amount).refunded = entry.refunded
                /\ TakenOut(entry, u, amount).refunded = entry.refunded
                /\ MakerPaid(entry, u, amount).refunded = entry.refunded
BY DEF LedgerType, Refunded, Delivered, PutIn, TakenOut, MakerPaid

\* What the updates of a mirror change.
LEMMA UpdatedRecords ==
    ASSUME NEW order \in OrderType
    PROVE  /\ Untaken(order).status = "Sync" /\ Untaken(order).taker = NoUser
           /\ Cancelled(order).status = "Cancel"
           /\ Cancelled(order).taker = order.taker
           /\ \A u : /\ TakenBy(order, u).status = order.status
                     /\ TakenBy(order, u).taker = u
BY DEF OrderType, Untaken, Cancelled, TakenBy

LEMMA RequestAside ==
    ASSUME TypeOK, (\E o \in Orders : ExecuteCancelSwap(o)) \/ BidRequest
    PROVE  AsideStep
<1>1. CASE \E o \in Orders : ExecuteCancelSwap(o)
  BY <1>1 DEF ExecuteCancelSwap, SendPacket, NewPacket, swapVars, AsideStep,
              AsidePackets
<1>2. CASE BidRequest
  <2>1. PICK o \in Orders, u \in Users :
              \/ \E amount \in BidAmounts, expire \in BidExpiries :
                    ExecuteMakeBid(o, u, amount, expire)
              \/ ExecuteTakeBid(o, u)
              \/ ExecuteCancelBid(o, u)
              \/ \E addition \in Additions : ExecuteUpdateBid(o, u, addition)
    BY <1>2 DEF BidRequest
  <2>2. remote' = remote
    BY <2>1 DEF ExecuteMakeBid, ExecuteTakeBid, ExecuteCancelBid,
                ExecuteUpdateBid, swapVars
  <2>3. \A x \in Orders : ledger'[x].refunded = ledger[x].refunded
    <3>1. \/ ledger' = ledger
          \/ \E amount : ledger' = [ledger EXCEPT ![o] = PutIn(@, u, amount)]
      BY <2>1 DEF ExecuteMakeBid, ExecuteTakeBid, ExecuteCancelBid,
                  ExecuteUpdateBid, Deposit
    <3>2. ledger \in [Orders -> LedgerType]
      BY DEF TypeOK
    <3> QED
      BY <3>1, <3>2, UnrefundedEntries
  <2>4. AsidePackets
    <3>1. \E type \in BidTypes : \E amount, expire :
             SendBidPacket(o, type, u, amount, expire)
      BY <2>1 DEF ExecuteMakeBid, ExecuteTakeBid, ExecuteCancelBid,
                  ExecuteUpdateBid, BidTypes
    <3> QED
      BY <3>1 DEF SendBidPacket, SendPacket, NewPacket, AsidePackets, BidTypes
  <2> QED
    BY <2>2, <2>3, <2>4 DEF AsideStep
<1> QED
  BY <1>1, <1>2

LEMMA SwapRelayAside ==
    ASSUME TypeOK, NEW p \in packets,
           \/ AckMakeSwap(p) \/ OnReceivedTake(p) \/ RefuseTake(p)
           \/ RefuseCancel(p) \/ DropCancelSwap(p)
    PROVE  AsideStep
<1>1. remote' = remote
  BY DEF AckMakeSwap, OnReceivedTake, RefuseTake, RefuseCancel, DropCancelSwap,
         swapVars
<1>2. \A x \in Orders : ledger'[x].refunded = ledger[x].refunded
  <2>1. \/ ledger' = ledger
        \/ ledger' = [ledger EXCEPT ![p.order] = Delivered(@)]
    BY DEF AckMakeSwap, OnReceivedTake, RefuseTake, RefuseCancel, DropCancelSwap,
           DeliverTo
  <2>2. ledger \in [Orders -> LedgerType]
    BY DEF TypeOK
  <2> QED
    BY <2>1, <2>2, UnrefundedEntries
<1>3. AsidePackets
  BY DEF AckMakeSwap, OnReceivedTake, RefuseTake, RefuseCancel, DropCancelSwap,
         Consume, WriteAck, Arrives, Answered, AsidePackets
<1> QED
  BY <1>1, <1>2, <1>3 DEF AsideStep

LEMMA BidRelayAside ==
    ASSUME TypeOK, NEW p \in packets,
           \/ OnReceivedMakeBid(p) \/ AckMakeBid(p) \/ RefundMakeBid(p)
           \/ OnReceivedTakeBid(p) \/ RefuseTakeBidLate(p) \/ RefuseTakeBid(p)
           \/ OnReceivedCancelBid(p) \/ RefuseCancelBid(p) \/ AckCancelBid(p)
           \/ OnReceivedUpdateBid(p) \/ RefuseUpdateBid(p)
           \/ AckUpdateBid(p) \/ RefundUpdateBid(p) \/ DropBidPacket(p)
    PROVE  AsideStep
<1>1. remote' = remote
  BY DEF OnReceivedMakeBid, AckMakeBid, RefundMakeBid, OnReceivedTakeBid,
         RefuseTakeBidLate, RefuseTakeBid, OnReceivedCancelBid, RefuseCancelBid,
         AckCancelBid, OnReceivedUpdateBid, RefuseUpdateBid, AckUpdateBid,
         RefundUpdateBid, DropBidPacket, swapVars
<1>2. \/ ledger' = ledger
      \/ ledger' = [ledger EXCEPT ![p.order] = Delivered(@)]
      \/ \E amount : ledger' = [ledger EXCEPT ![p.order] = TakenOut(@, p.who, amount)]
  BY DEF OnReceivedMakeBid, AckMakeBid, RefundMakeBid, OnReceivedTakeBid,
         RefuseTakeBidLate, RefuseTakeBid, OnReceivedCancelBid, RefuseCancelBid,
         AckCancelBid, OnReceivedUpdateBid, RefuseUpdateBid, AckUpdateBid,
         RefundUpdateBid, DropBidPacket, PayBack, DeliverTo
<1>3. \A x \in Orders : ledger'[x].refunded = ledger[x].refunded
  BY <1>2, UnrefundedEntries DEF TypeOK
<1>4. AsidePackets
  <2>1. CASE \/ OnReceivedMakeBid(p) \/ OnReceivedCancelBid(p)
             \/ RefuseCancelBid(p) \/ OnReceivedUpdateBid(p)
             \/ RefuseUpdateBid(p) \/ RefuseTakeBidLate(p) \/ RefuseTakeBid(p)
             \/ OnReceivedTakeBid(p)
    BY <2>1 DEF OnReceivedMakeBid, OnReceivedCancelBid, RefuseCancelBid,
                OnReceivedUpdateBid, RefuseUpdateBid, RefuseTakeBidLate,
                RefuseTakeBid, OnReceivedTakeBid, WriteAck, Arrives, AsidePackets,
                Answered
  <2>2. CASE \/ AckMakeBid(p) \/ RefundMakeBid(p) \/ AckCancelBid(p)
             \/ AckUpdateBid(p) \/ RefundUpdateBid(p) \/ DropBidPacket(p)
    BY <2>2 DEF AckMakeBid, RefundMakeBid, AckCancelBid, AckUpdateBid,
                RefundUpdateBid, DropBidPacket, Consume, AsidePackets
  <2> QED
    BY <2>1, <2>2
<1> QED
  BY <1>1, <1>3, <1>4 DEF AsideStep

\* The shapes of a step, as far as mirrors and refunds go.
CancellationStep ==
    \/ AsideStep
    \/ \E o \in Orders : ExecuteMakeSwap(o)
    \/ \E o \in Orders, u \in Users : ExecuteTakeSwap(o, u)
    \/ \E p \in packets : OnReceivedMake(p)
    \/ \E p \in packets : RefundMakeSwap(p)
    \/ \E p \in packets : Payment(p)
    \/ \E p \in packets : RefundTakeSwap(p)
    \/ \E p \in packets : OnReceivedCancel(p)
    \/ \E p \in packets : AckCancelSwap(p)

LEMMA CancellationShapes ==
    ASSUME TypeOK, [Next]_vars
    PROVE  CancellationStep
<1>1. CASE Environment \/ UNCHANGED vars
  BY <1>1 DEF Environment, vars, IbcChannelConnect, Tick, swapVars,
        ExecutePauseMarket, ExecuteUnpauseMarket, SetMarket, CancellationStep,
        AsideStep, AsidePackets
<1>2. CASE SwapRequest
  BY <1>2, RequestAside DEF SwapRequest, CancellationStep
<1>3. CASE BidRequest
  BY <1>3, RequestAside DEF CancellationStep
<1>4. CASE SwapRelay
  BY <1>4, SwapRelayAside DEF SwapRelay, CancellationStep, Payment
<1>5. CASE BidRelay
  BY <1>5, BidRelayAside DEF BidRelay, CancellationStep, Payment
<1> QED
  BY <1>1, <1>2, <1>3, <1>4, <1>5 DEF Next, Relay

LEMMA MadeStaysMade ==
    ASSUME TypeOK, SettlementInv, [Next]_vars
    PROVE  NativeStays
<1>1. SettlementStep
  BY StepShapes DEF SettlementInv
<1>2. CASE QuietStep
  BY <1>2 DEF QuietStep, OrderKept, RecordKept, NativeStays
<1>3. ASSUME NEW o \in Orders, ExecuteMakeSwap(o) PROVE NativeStays
  BY <1>3 DEF ExecuteMakeSwap, TypeOK, NativeStays
<1>4. ASSUME NEW p \in packets, OnReceivedMake(p) PROVE NativeStays
  BY <1>4 DEF OnReceivedMake, NativeStays
<1>5. ASSUME NEW p \in packets, Delivery(p) PROVE NativeStays
  BY <1>5, DeliveryStep DEF NativeStays
<1>6. ASSUME NEW p \in packets, Payment(p) PROVE NativeStays
  BY <1>6, PaymentStep DEF NativeStays
<1> QED
  BY <1>1, <1>2, <1>3, <1>4, <1>5, <1>6 DEF SettlementStep

-----------------------------------------------------------------------------
\* The invariant, shape by shape.

LEMMA AsideKeepsInv ==
    ASSUME TypeOK, CancelInv, AsideStep, NoBidsAbout', NativeStays
    PROVE  CancelInv'
<1>1. /\ remote' = remote
      /\ \A o \in Orders : ledger'[o].refunded = ledger[o].refunded
  BY DEF AsideStep
<1>2. \A p \in packets : p.order \in Orders
  BY DEF TypeOK, PacketType
<1>3. \A o : Sealed(o)' <=> Sealed(o)
  BY <1>1 DEF Sealed, CancelStands
<1>4. CancelledIsFree'
  BY <1>1 DEF CancelInv, CancelledIsFree
<1>5. TakeHoldsLock' /\ AgreedCancel' /\ RefundHasReason' /\ AnnouncedUnrefunded'
  <2> USE DEF CancelInv, TakeHoldsLock, AgreedCancel, RefundHasReason,
              AnnouncedUnrefunded, NativeStays
  <2>1. CASE packets' = packets
    BY <1>1, <1>2, <1>3, <2>1
  <2>2. ASSUME NEW p \in packets, packets' = packets \ {p}
        PROVE  TakeHoldsLock' /\ AgreedCancel' /\ RefundHasReason'
               /\ AnnouncedUnrefunded'
    BY <1>1, <1>2, <1>3, <2>2
  <2>3. ASSUME NEW p \in packets, NEW result \in {"ok", "err"},
               Answered(p, result), p.type # "MakeSwap",
               p.type = "CancelSwap" => result = "err"
        PROVE  TakeHoldsLock' /\ AgreedCancel' /\ RefundHasReason'
               /\ AnnouncedUnrefunded'
    <3> DEFINE q == [p EXCEPT !.state = result]
    <3>1. /\ q.order = p.order /\ q.type = p.type /\ q.state = result
          /\ q.who = p.who /\ q.amount = p.amount
      BY DEF TypeOK, PacketType
    <3>2. packets' = (packets \ {p}) \cup {q}
      BY <2>3 DEF Answered
    <3> HIDE DEF q
    <3> QED
      BY <1>1, <1>2, <1>3, <2>3, <3>1, <3>2
  <2>4. ASSUME NEW q, packets' = packets \cup {q}, q.state = "sent",
               q.type \notin {"MakeSwap", "TakeSwap"}
        PROVE  TakeHoldsLock' /\ AgreedCancel' /\ RefundHasReason'
               /\ AnnouncedUnrefunded'
    BY <1>1, <1>2, <1>3, <2>4
  <2> QED
    BY <2>1, <2>2, <2>3, <2>4 DEF AsideStep, AsidePackets
<1> QED
  BY <1>4, <1>5 DEF CancelInv

LEMMA MakeKeepsCancel ==
    ASSUME TypeOK, SettlementInv, CancelInv, NEW o \in Orders, ExecuteMakeSwap(o),
           NoBidsAbout', NativeStays
    PROVE  CancelInv'
<1> DEFINE q == NewPacket(o, "MakeSwap", NoUser, 0, 0)
<1>1. /\ native[o].loc = "none" /\ remote[o].loc = "none"
      /\ \A p \in packets : p.order # o
  BY DEF ExecuteMakeSwap, SettlementInv, NothingBefore
<1>2. remote' = remote /\ ledger' = ledger
  BY DEF ExecuteMakeSwap
<1>3. packets' = packets \cup {q}
  BY DEF ExecuteMakeSwap, SendPacket
<1>4. q.order = o /\ q.type = "MakeSwap" /\ q.state = "sent"
  BY DEF NewPacket
<1>5. ledger[o].refunded = 0
  BY <1>1 DEF CancelInv, RefundHasReason
<1>6. \A x : Sealed(x)' <=> Sealed(x)
  BY <1>2 DEF Sealed, CancelStands
<1> HIDE DEF q
<1>7. CancelledIsFree' /\ TakeHoldsLock'
  BY <1>2, <1>3, <1>4 DEF CancelInv, CancelledIsFree, TakeHoldsLock
<1>8. AgreedCancel' /\ RefundHasReason' /\ AnnouncedUnrefunded'
  BY <1>1, <1>2, <1>3, <1>4, <1>5, <1>6
     DEF CancelInv, AgreedCancel, RefundHasReason, AnnouncedUnrefunded, NativeStays
<1> QED
  BY <1>7, <1>8 DEF CancelInv

LEMMA MirrorKeepsCancel ==
    ASSUME TypeOK, SettlementInv, CancelInv, NEW p \in packets, OnReceivedMake(p),
           NoBidsAbout', NativeStays
    PROVE  CancelInv'
<1> DEFINE q == [p EXCEPT !.state = "ok"]
<1>1. p.order \in Orders /\ \A r \in packets : r.order \in Orders
  BY DEF TypeOK, PacketType
<1>2. /\ p.type = "MakeSwap" /\ p.state = "sent" /\ remote[p.order].loc = "none"
      /\ \A r \in packets : r.type = "MakeSwap" /\ r.order = p.order => r = p
  BY DEF OnReceivedMake, Arrives, SettlementInv, AnnouncedOnce
<1>3. /\ remote'[p.order].loc = "active" /\ remote'[p.order].status = "Sync"
      /\ \A x \in Orders \ {p.order} : remote'[x] = remote[x]
  BY <1>1, <1>2 DEF OnReceivedMake, TypeOK, Found, Appended
<1>4. ledger' = ledger /\ packets' = (packets \ {p}) \cup {q}
  BY <1>2 DEF OnReceivedMake, WriteAck, Found
<1>5. q.order = p.order /\ q.type = "MakeSwap" /\ q.state = "ok"
  BY <1>2 DEF TypeOK, PacketType
<1>6. ledger[p.order].refunded = 0
  BY <1>2 DEF CancelInv, AnnouncedUnrefunded
<1>7. /\ ~Sealed(p.order)
      /\ \A x \in Orders \ {p.order} : Sealed(x)' <=> Sealed(x)
  BY <1>2, <1>3 DEF Sealed, CancelStands
<1> HIDE DEF q
<1>8. CancelledIsFree'
  BY <1>3 DEF CancelInv, CancelledIsFree
<1>9. TakeHoldsLock'
  BY <1>1, <1>2, <1>3, <1>4, <1>5 DEF CancelInv, TakeHoldsLock
<1>10. AgreedCancel'
  BY <1>1, <1>4, <1>5, <1>7 DEF CancelInv, AgreedCancel
<1>11. RefundHasReason' /\ AnnouncedUnrefunded'
  BY <1>1, <1>2, <1>3, <1>4, <1>5, <1>6, <1>7
     DEF CancelInv, RefundHasReason, AnnouncedUnrefunded, NativeStays
<1> QED
  BY <1>8, <1>9, <1>10, <1>11 DEF CancelInv

LEMMA RefundMakeKeepsCancel ==
    ASSUME TypeOK, SettlementInv, CancelInv, NEW p \in packets, RefundMakeSwap(p),
           NoBidsAbout', NativeStays
    PROVE  CancelInv'
<1>1. p.order \in Orders /\ \A r \in packets : r.order \in Orders
  BY DEF TypeOK, PacketType
<1>2. /\ remote[p.order].loc = "none" /\ ledger[p.order].refunded = 0
      /\ \A r \in packets : r.type = "MakeSwap" /\ r.order = p.order => r = p
  BY DEF RefundMakeSwap, Failed, CancelInv, AnnouncedUnrefunded, SettlementInv,
         AnnouncedOnce
<1>3. remote' = remote /\ packets' = packets \ {p} /\ native[p.order].loc # "none"
  BY DEF RefundMakeSwap, Consume, Found
<1>4. /\ ledger'[p.order].refunded = 1
      /\ \A x \in Orders \ {p.order} : ledger'[x] = ledger[x]
  <2>1. ledger[p.order] \in LedgerType
    BY <1>1 DEF TypeOK
  <2>2. /\ ledger'[p.order] = Refunded(ledger[p.order])
        /\ \A x \in Orders \ {p.order} : ledger'[x] = ledger[x]
    BY <1>1 DEF RefundMakeSwap, TypeOK
  <2> QED
    BY <1>2, <2>1, <2>2, UnrefundedEntries
<1>5. ~Sealed(p.order) /\ \A x : Sealed(x)' <=> Sealed(x)
  BY <1>2, <1>3 DEF Sealed, CancelStands
<1>6. CancelledIsFree' /\ TakeHoldsLock'
  BY <1>3 DEF CancelInv, CancelledIsFree, TakeHoldsLock
<1>7. AgreedCancel'
  BY <1>1, <1>3, <1>4, <1>5 DEF CancelInv, AgreedCancel
<1>8. RefundHasReason' /\ AnnouncedUnrefunded'
  BY <1>1, <1>2, <1>3, <1>4, <1>5
     DEF CancelInv, RefundHasReason, AnnouncedUnrefunded, NativeStays
<1> QED
  BY <1>6, <1>7, <1>8 DEF CancelInv

LEMMA TakeKeepsCancel ==
    ASSUME TypeOK, CancelInv, NEW o \in Orders, NEW u \in Users,
           ExecuteTakeSwap(o, u), NoBidsAbout', NativeStays
    PROVE  CancelInv'
<1> DEFINE q == NewPacket(o, "TakeSwap", u, Offer[o].buy, 0)
<1>1. /\ remote[o].loc = "active" /\ remote[o].status # "Cancel"
      /\ remote[o].taker = NoUser
  BY DEF ExecuteTakeSwap, Open, Found
<1>2. remote[o] \in OrderType /\ \A p \in packets : p.order \in Orders
  BY DEF TypeOK, PacketType
<1>3. /\ remote'[o].loc = "active" /\ remote'[o].status = remote[o].status
      /\ remote'[o].taker = u
      /\ \A x \in Orders \ {o} : remote'[x] = remote[x]
  <2>1. /\ remote'[o] = TakenBy(remote[o], u)
        /\ \A x \in Orders \ {o} : remote'[x] = remote[x]
    BY DEF ExecuteTakeSwap, TypeOK
  <2> QED
    BY <1>1, <1>2, <2>1, KeptUpdates, UpdatedRecords
<1>4. \A x \in Orders : ledger'[x].refunded = ledger[x].refunded
  <2>1. ledger \in [Orders -> LedgerType]
    BY DEF TypeOK
  <2> QED
    BY <2>1, UnrefundedEntries DEF ExecuteTakeSwap
<1>5. packets' = packets \cup {q}
  BY DEF ExecuteTakeSwap, SendPacket
<1>6. /\ q.order = o /\ q.type = "TakeSwap" /\ q.state = "sent" /\ q.who = u
      /\ q.amount = Offer[o].buy
  BY DEF NewPacket
<1>7. \A p \in packets : ~(p.type = "TakeSwap" /\ p.order = o)
  <2>1. \A p \in packets : p.type = "TakeSwap" => p.who # NoUser
    BY UserAssumption DEF TypeOK, PacketType, BidTypes
  <2> QED
    BY <1>1, <2>1 DEF CancelInv, TakeHoldsLock
<1>8. \A x \in Orders : Sealed(x)' <=> Sealed(x)
  BY <1>1, <1>3 DEF Sealed, CancelStands
<1> HIDE DEF q
<1>9. CancelledIsFree'
  BY <1>1, <1>3 DEF CancelInv, CancelledIsFree
<1>10. TakeHoldsLock'
  BY <1>1, <1>2, <1>3, <1>5, <1>6, <1>7 DEF CancelInv, TakeHoldsLock
<1>11. AgreedCancel'
  BY <1>2, <1>4, <1>5, <1>6, <1>8 DEF CancelInv, AgreedCancel
<1>12. RefundHasReason' /\ AnnouncedUnrefunded'
  BY <1>1, <1>2, <1>3, <1>4, <1>5, <1>6, <1>8
     DEF CancelInv, RefundHasReason, AnnouncedUnrefunded, NativeStays
<1> QED
  BY <1>9, <1>10, <1>11, <1>12 DEF CancelInv

\* The tokens of a take return, and the order is open to the next taker.
LEMMA RefundTakeKeepsCancel ==
    ASSUME TypeOK, CancelInv, NEW p \in packets, RefundTakeSwap(p),
           NoBidsAbout', NativeStays
    PROVE  CancelInv'
<1>1. p.order \in Orders /\ \A r \in packets : r.order \in Orders
  BY DEF TypeOK, PacketType
<1>2. /\ remote[p.order].loc = "active" /\ remote[p.order].status # "Cancel"
      /\ \A r \in packets : r.type = "TakeSwap" /\ r.order = p.order => r = p
  BY DEF RefundTakeSwap, Failed, Found, CancelInv, TakeHoldsLock
<1>3. /\ remote'[p.order].loc = "active" /\ remote'[p.order].status = "Sync"
      /\ \A x \in Orders \ {p.order} : remote'[x] = remote[x]
  <2>1. remote[p.order] \in OrderType
    BY <1>1 DEF TypeOK
  <2>2. /\ remote'[p.order] = Untaken(remote[p.order])
        /\ \A x \in Orders \ {p.order} : remote'[x] = remote[x]
    BY <1>1 DEF RefundTakeSwap, TypeOK
  <2> QED
    BY <1>2, <2>1, <2>2, KeptUpdates, UpdatedRecords
<1>4. \A x \in Orders : ledger'[x].refunded = ledger[x].refunded
  <2>1. ledger \in [Orders -> LedgerType]
    BY DEF TypeOK
  <2> QED
    BY <2>1, UnrefundedEntries DEF RefundTakeSwap
<1>5. packets' = packets \ {p}
  BY DEF RefundTakeSwap, Consume
<1>6. \A x \in Orders : Sealed(x)' <=> Sealed(x)
  BY <1>2, <1>3 DEF Sealed, CancelStands
<1>7. CancelledIsFree' /\ TakeHoldsLock'
  BY <1>1, <1>2, <1>3, <1>5 DEF CancelInv, CancelledIsFree, TakeHoldsLock
<1>8. AgreedCancel'
  BY <1>1, <1>4, <1>5, <1>6 DEF CancelInv, AgreedCancel
<1>9. RefundHasReason' /\ AnnouncedUnrefunded'
  BY <1>1, <1>2, <1>3, <1>4, <1>5, <1>6
     DEF CancelInv, RefundHasReason, AnnouncedUnrefunded, NativeStays
<1> QED
  BY <1>7, <1>8, <1>9 DEF CancelInv

\* A payment closes an order that was not cancelled, or one with bids.
LEMMA PaymentKeepsCancel ==
    ASSUME TypeOK, SettlementInv, CancelInv, NEW p \in packets, Payment(p),
           NoBidsAbout', NativeStays
    PROVE  CancelInv'
<1>1. p.order \in Orders /\ \A r \in packets : r.order \in Orders
  BY DEF TypeOK, PacketType
<1>2. /\ remote[p.order].loc = "active" /\ remote'[p.order].loc = "inactive"
      /\ remote'[p.order].status = "Complete"
      /\ \A x \in Orders \ {p.order} : remote'[x] = remote[x]
      /\ packets' = packets \ {p}
  BY PaymentStep
<1>3. \A x \in Orders : ledger'[x].refunded = ledger[x].refunded
  <2>1. ledger \in [Orders -> LedgerType]
    BY DEF TypeOK
  <2>2. \E amount :
           ledger' = [ledger EXCEPT ![p.order] = MakerPaid(@, p.who, amount)]
    BY DEF Payment, AckTakeSwap, AckTakeBid, PayMaker
  <2> QED
    BY <2>1, <2>2, UnrefundedEntries
<1>4. Sealed(p.order) => Sealed(p.order)'
  <2>1. CASE AckTakeSwap(p)
    BY <1>2, <2>1 DEF AckTakeSwap, Succeeded, CancelInv, TakeHoldsLock, Sealed,
                      CancelStands
  <2>2. CASE AckTakeBid(p)
    <3>1. Offer[p.order].takeBids
      BY <1>1, <2>2 DEF AckTakeBid, Succeeded, CancelInv, NoBidsAbout, SwapTypes,
                        PlainOrders
    <3> QED
      BY <1>2, <3>1 DEF Sealed
  <2> QED
    BY <2>1, <2>2 DEF Payment
<1>5. \A x \in Orders : Sealed(x) => Sealed(x)'
  BY <1>2, <1>4 DEF Sealed, CancelStands
<1>6. CancelledIsFree' /\ TakeHoldsLock'
  BY <1>1, <1>2 DEF CancelInv, CancelledIsFree, TakeHoldsLock
<1>7. AgreedCancel'
  BY <1>1, <1>2, <1>3, <1>5 DEF CancelInv, AgreedCancel
<1>8. RefundHasReason' /\ AnnouncedUnrefunded'
  BY <1>1, <1>2, <1>3, <1>5
     DEF CancelInv, RefundHasReason, AnnouncedUnrefunded, NativeStays
<1> QED
  BY <1>6, <1>7, <1>8 DEF CancelInv

\* The away chain cancels an order that nobody has locked.
LEMMA CancelKeepsCancel ==
    ASSUME TypeOK, CancelInv, NEW p \in packets, OnReceivedCancel(p),
           NoBidsAbout', NativeStays
    PROVE  CancelInv'
<1> DEFINE q == [p EXCEPT !.state = "ok"]
<1>1. p.order \in Orders /\ \A r \in packets : r.order \in Orders
  BY DEF TypeOK, PacketType
<1>2. /\ remote[p.order].loc = "active" /\ remote[p.order].status # "Cancel"
      /\ remote[p.order].taker = NoUser
  BY DEF OnReceivedCancel, CancelAccepted, Found
<1>3. /\ remote'[p.order].loc = "active" /\ remote'[p.order].status = "Cancel"
      /\ remote'[p.order].taker = NoUser
      /\ \A x \in Orders \ {p.order} : remote'[x] = remote[x]
  <2>1. remote[p.order] \in OrderType
    BY <1>1 DEF TypeOK
  <2>2. /\ remote'[p.order] = Cancelled(remote[p.order])
        /\ \A x \in Orders \ {p.order} : remote'[x] = remote[x]
    BY <1>1 DEF OnReceivedCancel, TypeOK
  <2> QED
    BY <1>2, <2>1, <2>2, KeptUpdates, UpdatedRecords
<1>4. ledger' = ledger /\ packets' = (packets \ {p}) \cup {q}
  BY DEF OnReceivedCancel, WriteAck
<1>5. q.order = p.order /\ q.type = "CancelSwap"
  BY DEF OnReceivedCancel, Arrives, TypeOK, PacketType
<1>6. /\ ~Sealed(p.order) /\ Sealed(p.order)'
      /\ \A x \in Orders \ {p.order} : Sealed(x)' <=> Sealed(x)
  BY <1>2, <1>3 DEF Sealed, CancelStands
<1>7. ledger[p.order].refunded = 0
  BY <1>1, <1>2, <1>6 DEF CancelInv, RefundHasReason
<1>8. \A r \in packets : ~(r.type = "TakeSwap" /\ r.order = p.order)
  <2>1. \A r \in packets : r.type = "TakeSwap" => r.who # NoUser
    BY UserAssumption DEF TypeOK, PacketType, BidTypes
  <2> QED
    BY <1>2, <2>1 DEF CancelInv, TakeHoldsLock
<1> HIDE DEF q
<1>9. CancelledIsFree'
  BY <1>3 DEF CancelInv, CancelledIsFree
<1>10. TakeHoldsLock'
  BY <1>1, <1>3, <1>4, <1>5, <1>8 DEF CancelInv, TakeHoldsLock
<1>11. AgreedCancel'
  BY <1>1, <1>4, <1>5, <1>6, <1>7 DEF CancelInv, AgreedCancel
<1>12. RefundHasReason' /\ AnnouncedUnrefunded'
  BY <1>1, <1>2, <1>3, <1>4, <1>5, <1>6, <1>7
     DEF CancelInv, RefundHasReason, AnnouncedUnrefunded, NativeStays
<1> QED
  BY <1>9, <1>10, <1>11, <1>12 DEF CancelInv

\* The refund of the one cancellation that was agreed to.
LEMMA RefundCancelKeepsCancel ==
    ASSUME TypeOK, CancelInv, NEW p \in packets, AckCancelSwap(p),
           NoBidsAbout', NativeStays
    PROVE  CancelInv'
<1>1. p.order \in Orders /\ \A r \in packets : r.order \in Orders
  BY DEF TypeOK, PacketType
<1>2. /\ Sealed(p.order) /\ ledger[p.order].refunded = 0
      /\ \A r \in packets :
            r.type = "CancelSwap" /\ r.state = "ok" /\ r.order = p.order => r = p
  BY DEF AckCancelSwap, Succeeded, CancelInv, AgreedCancel
<1>3. remote' = remote /\ packets' = packets \ {p} /\ native[p.order].loc # "none"
  BY DEF AckCancelSwap, CancelRefundable, Consume, Found
<1>4. /\ ledger'[p.order].refunded = 1
      /\ \A x \in Orders \ {p.order} : ledger'[x] = ledger[x]
  <2>1. ledger[p.order] \in LedgerType
    BY <1>1 DEF TypeOK
  <2>2. /\ ledger'[p.order] = Refunded(ledger[p.order])
        /\ \A x \in Orders \ {p.order} : ledger'[x] = ledger[x]
    BY <1>1 DEF AckCancelSwap, TypeOK
  <2> QED
    BY <1>2, <2>1, <2>2, UnrefundedEntries
<1>5. \A x : Sealed(x)' <=> Sealed(x)
  BY <1>3 DEF Sealed, CancelStands
<1>6. remote[p.order].loc # "none"
  BY <1>2 DEF Sealed, CancelStands
<1>7. CancelledIsFree' /\ TakeHoldsLock'
  BY <1>3 DEF CancelInv, CancelledIsFree, TakeHoldsLock
<1>8. AgreedCancel'
  BY <1>1, <1>2, <1>3, <1>4, <1>5 DEF CancelInv, AgreedCancel
<1>9. RefundHasReason' /\ AnnouncedUnrefunded'
  BY <1>1, <1>2, <1>3, <1>4, <1>5, <1>6
     DEF CancelInv, RefundHasReason, AnnouncedUnrefunded, NativeStays
<1> QED
  BY <1>7, <1>8, <1>9 DEF CancelInv

-----------------------------------------------------------------------------
\* Cancellations follow the rules.

LEMMA CancelInit == Init => CancelInv
<1> SUFFICES ASSUME Init PROVE CancelInv
  OBVIOUS
<1>1. NoBidsAbout /\ CancelledIsFree
  BY DEF Init, NoBidsAbout, PlainOrders, CancelledIsFree, NoOrder
<1>2. TakeHoldsLock /\ AgreedCancel /\ AnnouncedUnrefunded
  BY DEF Init, TakeHoldsLock, AgreedCancel, AnnouncedUnrefunded
<1>3. RefundHasReason
  BY DEF Init, RefundHasReason, EmptyLedger
<1> QED
  BY <1>1, <1>2, <1>3 DEF CancelInv

LEMMA CancelNext ==
    TypeOK /\ SettlementInv /\ CancelInv /\ [Next]_vars => CancelInv'
<1> SUFFICES ASSUME TypeOK, SettlementInv, CancelInv, [Next]_vars
             PROVE  CancelInv'
  OBVIOUS
<1>1. NoBidsAbout'
  BY NoBidsNext DEF CancelInv
<1>2. NativeStays
  BY MadeStaysMade
<1>3. CancellationStep
  BY CancellationShapes
<1> QED
  BY <1>1, <1>2, <1>3, AsideKeepsInv, MakeKeepsCancel, MirrorKeepsCancel,
     RefundMakeKeepsCancel, TakeKeepsCancel, RefundTakeKeepsCancel,
     PaymentKeepsCancel, CancelKeepsCancel, RefundCancelKeepsCancel
     DEF CancellationStep

\* Cancellations follow the rules of CancelInv whatever takes, bids, refusals
\* and timeouts they meet.
THEOREM CancelCorrect == Spec => []CancelInv
BY CancelInit, CancelNext, TypeCorrect, SettlementCorrect, PTL DEF Spec

\* The sell tokens go back to the maker at most once, by the refund of a
\* failed MakeSwap or of a cancellation (refund_packet_token, and
\* on_packet_success for CancelSwap), however often the maker asks.
THEOREM RefundedOnceCorrect == Spec => []RefundedOnce
<1>1. CancelInv => RefundedOnce
  BY DEF CancelInv, RefundHasReason, RefundedOnce
<1> QED
  BY <1>1, CancelCorrect, PTL

-----------------------------------------------------------------------------
\* Steps that PlainInv does not see.

\* TakeSwaps of plain orders are neither sent, answered nor settled.
TakesKept ==
    \A p : p.order \in PlainOrders /\ p.type = "TakeSwap" =>
               (p \in packets' <=> p \in packets)

\* The mirror of the order, its deliveries and what it holds stay.
EntryKept(o) ==
    /\ remote'[o] = remote[o]
    /\ ledger'[o].delivered = ledger[o].delivered
    /\ ledger'[o].held = ledger[o].held

PlainQuiet == TakesKept /\ \A o \in PlainOrders : EntryKept(o)

\* Nothing happens to any order but o.
OnlyAbout(o) ==
    /\ \A x \in Orders \ {o} :
          native'[x] = native[x] /\ remote'[x] = remote[x] /\ ledger'[x] = ledger[x]
    /\ \A p : p.order # o => (p \in packets' <=> p \in packets)

\* A step about bids is about an order that takes them.
OnlyAboutAnAuction == \E o \in Orders \ PlainOrders : OnlyAbout(o)

LEMMA AuctionUnseen ==
    ASSUME OnlyAboutAnAuction
    PROVE  PlainQuiet
BY DEF OnlyAboutAnAuction, OnlyAbout, PlainQuiet, TakesKept, EntryKept, PlainOrders

LEMMA BidRequestAuction ==
    ASSUME TypeOK, NoBidsAbout, BidRequest
    PROVE  OnlyAboutAnAuction
<1>1. PICK o \in Orders, u \in Users :
            \/ \E amount \in BidAmounts, expire \in BidExpiries :
                  ExecuteMakeBid(o, u, amount, expire)
            \/ ExecuteTakeBid(o, u)
            \/ ExecuteCancelBid(o, u)
            \/ \E addition \in Additions : ExecuteUpdateBid(o, u, addition)
  BY DEF BidRequest
<1>2. o \notin PlainOrders
  BY <1>1 DEF ExecuteMakeBid, ExecuteTakeBid, ExecuteCancelBid, ExecuteUpdateBid,
              PlainOrders, NoBidsAbout, NoBid
<1>3. \A p : p.order # o => (p \in packets' <=> p \in packets)
  <2>1. \E type, amount, expire : SendBidPacket(o, type, u, amount, expire)
    BY <1>1 DEF ExecuteMakeBid, ExecuteTakeBid, ExecuteCancelBid, ExecuteUpdateBid
  <2> QED
    BY <2>1 DEF SendBidPacket, SendPacket, NewPacket
<1>4. \A x \in Orders \ {o} :
         native'[x] = native[x] /\ remote'[x] = remote[x] /\ ledger'[x] = ledger[x]
  <2>1. native' = native /\ remote' = remote
    BY <1>1 DEF ExecuteMakeBid, ExecuteTakeBid, ExecuteCancelBid,
                ExecuteUpdateBid, swapVars
  <2>2. \/ ledger' = ledger
        \/ \E amount : ledger' = [ledger EXCEPT ![o] = PutIn(@, u, amount)]
    BY <1>1 DEF ExecuteMakeBid, ExecuteTakeBid, ExecuteCancelBid,
                ExecuteUpdateBid, Deposit
  <2> QED
    BY <2>1, <2>2 DEF TypeOK
<1> QED
  BY <1>2, <1>3, <1>4 DEF OnlyAbout, OnlyAboutAnAuction

LEMMA BidRelayAuction ==
    ASSUME TypeOK, NoBidsAbout, BidRelay
    PROVE  OnlyAboutAnAuction
<1>1. PICK p \in packets :
            \/ OnReceivedMakeBid(p) \/ AckMakeBid(p) \/ RefundMakeBid(p)
            \/ OnReceivedTakeBid(p) \/ RefuseTakeBidLate(p)
            \/ RefuseTakeBid(p) \/ AckTakeBid(p)
            \/ OnReceivedCancelBid(p) \/ RefuseCancelBid(p) \/ AckCancelBid(p)
            \/ OnReceivedUpdateBid(p) \/ RefuseUpdateBid(p)
            \/ AckUpdateBid(p) \/ RefundUpdateBid(p) \/ DropBidPacket(p)
  BY DEF BidRelay
<1>2. p.order \notin PlainOrders
  <2>1. p.type \in BidTypes
    BY <1>1, Zenon
       DEF BidTypes, OnReceivedMakeBid, AckMakeBid, RefundMakeBid,
        OnReceivedTakeBid, RefuseTakeBidLate, RefuseTakeBid, AckTakeBid,
        OnReceivedCancelBid, RefuseCancelBid, AckCancelBid, OnReceivedUpdateBid,
        RefuseUpdateBid, AckUpdateBid, RefundUpdateBid, DropBidPacket,
        Arrives, Succeeded, Failed
  <2> QED
    BY <2>1 DEF NoBidsAbout, SwapTypes, BidTypes
<1>3. \A q : q.order # p.order => (q \in packets' <=> q \in packets)
  <2>1. Consume(p) \/ \E result : WriteAck(p, result)
    BY <1>1 DEF OnReceivedMakeBid, AckMakeBid, RefundMakeBid,
        OnReceivedTakeBid, RefuseTakeBidLate, RefuseTakeBid, AckTakeBid,
        OnReceivedCancelBid, RefuseCancelBid, AckCancelBid, OnReceivedUpdateBid,
        RefuseUpdateBid, AckUpdateBid, RefundUpdateBid, DropBidPacket
  <2>2. \A result : [p EXCEPT !.state = result].order = p.order
    BY DEF TypeOK, PacketType
  <2> QED
    BY <2>1, <2>2 DEF Consume, WriteAck
<1>4. \A x \in Orders \ {p.order} : remote'[x] = remote[x]
  <2>1. remote' = remote \/ \E amount : PayMaker(p.order, p.who, amount)
    BY <1>1 DEF OnReceivedMakeBid, AckMakeBid, RefundMakeBid,
        OnReceivedTakeBid, RefuseTakeBidLate, RefuseTakeBid, AckTakeBid,
        OnReceivedCancelBid, RefuseCancelBid, AckCancelBid, OnReceivedUpdateBid,
        RefuseUpdateBid, AckUpdateBid, RefundUpdateBid, DropBidPacket, swapVars
  <2> QED
    BY <2>1 DEF PayMaker, TypeOK
<1>5. \A x \in Orders \ {p.order} : ledger'[x] = ledger[x]
  <2>1. ledger' = ledger \/ \E entry : ledger' = [ledger EXCEPT ![p.order] = entry]
    BY <1>1 DEF OnReceivedMakeBid, AckMakeBid, RefundMakeBid,
        OnReceivedTakeBid, RefuseTakeBidLate, RefuseTakeBid, AckTakeBid,
        OnReceivedCancelBid, RefuseCancelBid, AckCancelBid, OnReceivedUpdateBid,
        RefuseUpdateBid, AckUpdateBid, RefundUpdateBid, DropBidPacket,
        PayBack, PayMaker, DeliverTo
  <2> QED
    BY <2>1 DEF TypeOK
<1>6. \A x \in Orders \ {p.order} : native'[x] = native[x]
  <2>1. native' = native \/ DeliverTo(p.order, p.who)
    BY <1>1 DEF OnReceivedMakeBid, AckMakeBid, RefundMakeBid,
        OnReceivedTakeBid, RefuseTakeBidLate, RefuseTakeBid, AckTakeBid,
        OnReceivedCancelBid, RefuseCancelBid, AckCancelBid, OnReceivedUpdateBid,
        RefuseUpdateBid, AckUpdateBid, RefundUpdateBid, DropBidPacket, swapVars
  <2> QED
    BY <2>1 DEF DeliverTo, TypeOK
<1>7. p.order \in Orders
  BY DEF TypeOK, PacketType
<1> QED
  BY <1>2, <1>3, <1>4, <1>5, <1>6, <1>7 DEF OnlyAbout, OnlyAboutAnAuction

\* A refund to the maker leaves what the takers have.
LEMMA RefundedEntry ==
    ASSUME NEW entry \in LedgerType
    PROVE  /\ Refunded(entry).delivered = entry.delivered
           /\ Refunded(entry).held = entry.held
BY DEF LedgerType, Refunded

LEMMA SwapRequestUnseen ==
    ASSUME TypeOK, NEW o \in Orders, ExecuteMakeSwap(o) \/ ExecuteCancelSwap(o)
    PROVE  PlainQuiet
<1>1. remote' = remote /\ ledger' = ledger
  BY DEF ExecuteMakeSwap, ExecuteCancelSwap, swapVars
<1>2. \E q : q.type # "TakeSwap" /\ packets' = packets \cup {q}
  BY DEF ExecuteMakeSwap, ExecuteCancelSwap, SendPacket, NewPacket
<1> QED
  BY <1>1, <1>2 DEF PlainQuiet, TakesKept, EntryKept

LEMMA SwapRelayUnseen ==
    ASSUME TypeOK, NEW p \in packets,
           \/ AckMakeSwap(p) \/ RefundMakeSwap(p) \/ RefuseCancel(p)
           \/ AckCancelSwap(p) \/ DropCancelSwap(p)
    PROVE  PlainQuiet
<1>1. p.type # "TakeSwap"
  BY DEF AckMakeSwap, RefundMakeSwap, RefuseCancel, AckCancelSwap,
         DropCancelSwap, Arrives, Succeeded, Failed
<1>2. \/ packets' = packets \ {p}
      \/ \E result : packets' = (packets \ {p}) \cup {[p EXCEPT !.state = result]}
  BY DEF AckMakeSwap, RefundMakeSwap, RefuseCancel, AckCancelSwap,
         DropCancelSwap, Consume, WriteAck
<1>3. TakesKept
  <2>1. \A result : [p EXCEPT !.state = result].type = p.type
    BY DEF TypeOK, PacketType
  <2> QED
    BY <1>1, <1>2, <2>1 DEF TakesKept
<1>4. remote' = remote
  BY DEF AckMakeSwap, RefundMakeSwap, RefuseCancel, AckCancelSwap,
         DropCancelSwap, swapVars
<1>5. \/ ledger' = ledger
      \/ ledger' = [ledger EXCEPT ![p.order] = Refunded(@)]
  BY DEF AckMakeSwap, RefundMakeSwap, RefuseCancel, AckCancelSwap, DropCancelSwap
<1>6. ledger \in [Orders -> LedgerType]
  BY DEF TypeOK
<1> QED
  BY <1>3, <1>4, <1>5, <1>6, RefundedEntry DEF PlainQuiet, EntryKept, PlainOrders

\* The shapes of a step, as plain orders see it.
PlainStep ==
    \/ PlainQuiet
    \/ \E o \in Orders, u \in Users : ExecuteTakeSwap(o, u)
    \/ \E p \in packets : OnReceivedMake(p)
    \/ \E p \in packets : OnReceivedTake(p) \/ RefuseTake(p)
    \/ \E p \in packets : AckTakeSwap(p) \/ RefundTakeSwap(p)
    \/ \E p \in packets : OnReceivedCancel(p)

LEMMA PlainShapes ==
    ASSUME TypeOK, NoBidsAbout, [Next]_vars
    PROVE  PlainStep
<1>1. CASE Environment \/ UNCHANGED vars
  BY <1>1 DEF Environment, vars, IbcChannelConnect, Tick, swapVars,
        ExecutePauseMarket, ExecuteUnpauseMarket, SetMarket, PlainStep, PlainQuiet,
        TakesKept, EntryKept
<1>2. CASE SwapRequest
  BY <1>2, SwapRequestUnseen DEF SwapRequest, PlainStep
<1>3. CASE BidRequest
  BY <1>3, BidRequestAuction, AuctionUnseen DEF PlainStep
<1>4. CASE SwapRelay
  BY <1>4, SwapRelayUnseen DEF SwapRelay, PlainStep
<1>5. CASE BidRelay
  BY <1>5, BidRelayAuction, AuctionUnseen DEF PlainStep
<1> QED
  BY <1>1, <1>2, <1>3, <1>4, <1>5 DEF Next, Relay

-----------------------------------------------------------------------------
\* Facts that hold before each step.

\* An order is delivered once or not at all; a buyer is a user.
LEMMA Deliveries ==
    ASSUME SettlementInv
    PROVE  \A o \in Orders : ledger[o].delivered \in {0, 1}
BY DEF SettlementInv, PaidMeansInactive

LEMMA TakersAreUsers ==
    ASSUME TypeOK
    PROVE  \A p \in packets : p.type = "TakeSwap" => p.who \in Users /\ p.who # NoUser
BY UserAssumption DEF TypeOK, PacketType, BidTypes

\* What a deposit, a refund and a payment do to the tokens users have in an
\* order; a delivery does nothing to them.
LEMMA HeldEntries ==
    ASSUME NEW entry \in LedgerType, NEW u \in Users, NEW amount, NEW v \in Users
    PROVE  /\ PutIn(entry, u, amount).held[v] =
                 IF v = u THEN entry.held[v] + amount ELSE entry.held[v]
           /\ TakenOut(entry, u, amount).held[v] =
                 IF v = u THEN entry.held[v] - amount ELSE entry.held[v]
           /\ MakerPaid(entry, u, amount).held[v] =
                 IF v = u THEN entry.held[v] - amount ELSE entry.held[v]
BY DEF LedgerType, PutIn, TakenOut, MakerPaid

LEMMA DeliveredEntry ==
    ASSUME NEW entry \in LedgerType
    PROVE  Delivered(entry).held = entry.held
BY DEF LedgerType, Delivered

-----------------------------------------------------------------------------
\* The invariant, shape by shape.

LEMMA QuietKeepsPlain ==
    ASSUME PlainInv, PlainQuiet
    PROVE  PlainInv'
<1>1. LockHasTake'
  BY DEF PlainInv, LockHasTake, TakeRefundable, Found, PlainQuiet, TakesKept,
         EntryKept, PlainOrders
<1>2. SoldToTaker'
  BY DEF PlainInv, SoldToTaker, PlainQuiet, TakesKept, EntryKept, PlainOrders
<1>3. HeldWhileLocked'
  BY DEF PlainInv, HeldWhileLocked, PlainQuiet, EntryKept, PlainOrders
<1> QED
  BY <1>1, <1>2, <1>3 DEF PlainInv

\* A taker locks an open order.
LEMMA TakeKeepsPlain ==
    ASSUME TypeOK, SettlementInv, CancelInv, PlainInv,
           NEW o \in Orders, NEW u \in Users, ExecuteTakeSwap(o, u)
    PROVE  PlainInv'
<1> DEFINE q == NewPacket(o, "TakeSwap", u, Offer[o].buy, 0)
<1>1. remote[o].loc = "active" /\ remote[o].taker = NoUser
  BY DEF ExecuteTakeSwap, Open, Found
<1>2. /\ remote'[o].loc = "active" /\ remote'[o].taker = u
      /\ \A x \in Orders \ {o} : remote'[x] = remote[x]
  <2>1. remote[o] \in OrderType
    BY DEF TypeOK
  <2>2. /\ remote'[o] = TakenBy(remote[o], u)
        /\ \A x \in Orders \ {o} : remote'[x] = remote[x]
    BY DEF ExecuteTakeSwap, TypeOK
  <2> QED
    BY <1>1, <2>1, <2>2, KeptUpdates, UpdatedRecords
<1>3. /\ ledger'[o].delivered = ledger[o].delivered
      /\ \A v \in Users :
            ledger'[o].held[v] = IF v = u THEN ledger[o].held[v] + Offer[o].buy
                                 ELSE ledger[o].held[v]
      /\ \A x \in Orders \ {o} : ledger'[x] = ledger[x]
  <2>1. ledger[o] \in LedgerType
    BY DEF TypeOK
  <2>2. /\ ledger'[o] = PutIn(ledger[o], u, Offer[o].buy)
        /\ \A x \in Orders \ {o} : ledger'[x] = ledger[x]
    BY DEF ExecuteTakeSwap, TypeOK
  <2> QED
    BY <2>1, <2>2, KeptEntries, HeldEntries
<1>4. packets' = packets \cup {q}
  BY DEF ExecuteTakeSwap, SendPacket
<1>5. q.order = o /\ q.type = "TakeSwap" /\ q.who = u
  BY DEF NewPacket
<1>6. ledger[o].held \in [Users -> Int] /\ Offer[o].buy \in Nat
  BY OfferFacts DEF TypeOK, LedgerType
<1>7. u # NoUser
  BY UserAssumption
<1> HIDE DEF q
<1>8. LockHasTake'
  BY <1>1, <1>2, <1>4, <1>5
     DEF PlainInv, LockHasTake, TakeRefundable, Found, PlainOrders
<1>9. SoldToTaker'
  BY <1>1, <1>2, <1>3, <1>4, <1>5, <1>7, Deliveries
     DEF PlainInv, SoldToTaker, PlainOrders
<1>10. HeldWhileLocked'
  <2>1. ASSUME o \in PlainOrders
        PROVE  \A v \in Users : ledger[o].held[v] = 0
    BY <1>1, <2>1, UserAssumption DEF PlainInv, HeldWhileLocked
  <2> QED
    BY <1>1, <1>2, <1>3, <1>6, <2>1 DEF PlainInv, HeldWhileLocked, PlainOrders
<1> QED
  BY <1>8, <1>9, <1>10 DEF PlainInv

\* The mirror of a new order is open, and nobody has anything in it.
LEMMA MirrorKeepsPlain ==
    ASSUME TypeOK, SettlementInv, CancelInv, PlainInv, NEW p \in packets,
           OnReceivedMake(p)
    PROVE  PlainInv'
<1> DEFINE q == [p EXCEPT !.state = "ok"]
<1>1. p.order \in Orders
  BY DEF TypeOK, PacketType
<1>2. p.type = "MakeSwap" /\ remote[p.order].loc = "none"
  BY DEF OnReceivedMake, Arrives, SettlementInv, AnnouncedOnce
<1>3. remote[p.order].taker = NoUser
  BY <1>1, <1>2 DEF CancelInv, CancelledIsFree, NoOrder
<1>4. /\ remote'[p.order].loc = "active" /\ remote'[p.order].taker = NoUser
      /\ \A x \in Orders \ {p.order} : remote'[x] = remote[x]
  BY <1>1, <1>2 DEF OnReceivedMake, TypeOK, Found, Appended
<1>5. ledger' = ledger /\ packets' = (packets \ {p}) \cup {q}
  BY <1>2 DEF OnReceivedMake, WriteAck, Found
<1>6. q.type = "MakeSwap"
  BY <1>2 DEF TypeOK, PacketType
<1> HIDE DEF q
<1>7. LockHasTake'
  BY <1>2, <1>4, <1>5, <1>6
     DEF PlainInv, LockHasTake, TakeRefundable, Found, PlainOrders
<1>8. SoldToTaker'
  BY <1>2, <1>3, <1>4, <1>5, <1>6 DEF PlainInv, SoldToTaker, PlainOrders
<1>9. HeldWhileLocked'
  BY <1>2, <1>4, <1>5, UserAssumption DEF PlainInv, HeldWhileLocked, PlainOrders
<1> QED
  BY <1>7, <1>8, <1>9 DEF PlainInv

\* The home chain sells to the taker, or refuses.
LEMMA AnswerKeepsPlain ==
    ASSUME TypeOK, SettlementInv, CancelInv, PlainInv, NEW p \in packets,
           OnReceivedTake(p) \/ RefuseTake(p)
    PROVE  PlainInv'
<1>1. p.order \in Orders /\ \A r \in packets : r.order \in Orders
  BY DEF TypeOK, PacketType
<1>2. p.type = "TakeSwap" /\ p.state = "sent" /\ remote' = remote
  BY DEF OnReceivedTake, RefuseTake, Arrives, swapVars
<1>3. PICK q : /\ packets' = (packets \ {p}) \cup {q}
               /\ q.order = p.order /\ q.type = p.type
               /\ OnReceivedTake(p) => q.state = "ok"
  <2>1. \A result : /\ [p EXCEPT !.state = result].order = p.order
                    /\ [p EXCEPT !.state = result].type = p.type
                    /\ [p EXCEPT !.state = result].state = result
    BY DEF TypeOK, PacketType
  <2>2. CASE OnReceivedTake(p)
    BY <2>1, <2>2 DEF OnReceivedTake, WriteAck
  <2>3. CASE RefuseTake(p) /\ ~OnReceivedTake(p)
    BY <2>1, <2>3 DEF RefuseTake, WriteAck
  <2> QED
    BY <2>2, <2>3
<1>4. /\ \A x \in Orders : ledger'[x].held = ledger[x].held
      /\ \A x \in Orders \ {p.order} : ledger'[x].delivered = ledger[x].delivered
      /\ ~OnReceivedTake(p) => ledger' = ledger
  <2>1. ledger \in [Orders -> LedgerType]
    BY DEF TypeOK
  <2>2. /\ \/ ledger' = ledger
           \/ ledger' = [ledger EXCEPT ![p.order] = Delivered(@)]
        /\ ~OnReceivedTake(p) => ledger' = ledger
    BY DEF OnReceivedTake, RefuseTake, DeliverTo
  <2> QED
    BY <1>1, <2>1, <2>2, DeliveredEntry
<1>5. LockHasTake'
  BY <1>2, <1>3 DEF PlainInv, LockHasTake, TakeRefundable, Found
<1>6. SoldToTaker'
  <2>1. ASSUME p.order \in PlainOrders
        PROVE  /\ remote[p.order].taker # NoUser
               /\ \A r \in packets : r.type = "TakeSwap" /\ r.order = p.order => r = p
               /\ ~OnReceivedTake(p) => ledger'[p.order].delivered = 0
    BY <1>2, <1>4, <2>1, TakersAreUsers
       DEF PlainInv, LockHasTake, TakeRefundable, Found, SoldToTaker, CancelInv,
           TakeHoldsLock
  <2> QED
    BY <1>1, <1>2, <1>3, <1>4, <2>1 DEF PlainInv, SoldToTaker, PlainOrders
<1>7. HeldWhileLocked'
  BY <1>2, <1>4 DEF PlainInv, HeldWhileLocked, PlainOrders
<1> QED
  BY <1>5, <1>6, <1>7 DEF PlainInv

\* The take is settled on the away chain: the maker is paid and the order
\* closed, or the taker refunded and the order open again.
LEMMA SettleKeepsPlain ==
    ASSUME TypeOK, SettlementInv, CancelInv, PlainInv, NEW p \in packets,
           AckTakeSwap(p) \/ RefundTakeSwap(p)
    PROVE  PlainInv'
<1>1. p.order \in Orders /\ \A r \in packets : r.order \in Orders
  BY DEF TypeOK, PacketType
<1>2. /\ p.type = "TakeSwap" /\ remote[p.order].loc = "active"
      /\ packets' = packets \ {p}
  BY DEF AckTakeSwap, RefundTakeSwap, Succeeded, Failed, Found, Consume
<1>3. /\ p.who \in Users /\ p.who # NoUser /\ remote[p.order].taker = p.who
      /\ p.amount = Offer[p.order].buy
      /\ \A r \in packets : r.type = "TakeSwap" /\ r.order = p.order => r = p
  BY <1>2, TakersAreUsers DEF CancelInv, TakeHoldsLock
<1>4. /\ \/ remote'[p.order].loc = "inactive" /\ remote'[p.order].taker = p.who
         \/ /\ remote'[p.order].loc = "active" /\ remote'[p.order].taker = NoUser
            /\ p.state # "ok"
      /\ \A x \in Orders \ {p.order} : remote'[x] = remote[x]
  <2>1. remote[p.order] \in OrderType
    BY <1>1 DEF TypeOK
  <2>2. CASE AckTakeSwap(p)
    BY <2>2, PaymentStep DEF Payment
  <2>3. CASE RefundTakeSwap(p)
    <3>1. /\ remote'[p.order] = Untaken(remote[p.order])
          /\ \A x \in Orders \ {p.order} : remote'[x] = remote[x]
          /\ p.state # "ok"
      BY <1>1, <2>3 DEF RefundTakeSwap, Failed, TypeOK
    <3> QED
      BY <1>2, <2>1, <3>1, KeptUpdates, UpdatedRecords
  <2> QED
    BY <2>2, <2>3
<1>5. /\ ledger'[p.order].delivered = ledger[p.order].delivered
      /\ \A v \in Users :
            ledger'[p.order].held[v] =
                IF v = p.who THEN ledger[p.order].held[v] - p.amount
                ELSE ledger[p.order].held[v]
      /\ \A x \in Orders \ {p.order} : ledger'[x] = ledger[x]
  <2>1. ledger[p.order] \in LedgerType
    BY <1>1 DEF TypeOK
  <2>2. /\ \/ ledger'[p.order] = MakerPaid(ledger[p.order], p.who, p.amount)
           \/ ledger'[p.order] = TakenOut(ledger[p.order], p.who, p.amount)
        /\ \A x \in Orders \ {p.order} : ledger'[x] = ledger[x]
    BY <1>1 DEF AckTakeSwap, RefundTakeSwap, PayMaker, TypeOK
  <2> QED
    BY <1>3, <2>1, <2>2, KeptEntries, ReleasedEntries, HeldEntries
<1>6. LockHasTake'
  BY <1>1, <1>2, <1>3, <1>4
     DEF PlainInv, LockHasTake, TakeRefundable, Found, PlainOrders
<1>7. SoldToTaker'
  BY <1>1, <1>2, <1>3, <1>4, <1>5 DEF PlainInv, SoldToTaker, PlainOrders
<1>8. HeldWhileLocked'
  <2>1. ledger[p.order].held \in [Users -> Int] /\ Offer[p.order].buy \in Nat
    BY <1>1, OfferFacts DEF TypeOK, LedgerType
  <2>2. ASSUME p.order \in PlainOrders
        PROVE  \A v \in Users : ledger'[p.order].held[v] = 0
    BY <1>2, <1>3, <1>5, <2>1, <2>2 DEF PlainInv, HeldWhileLocked
  <2>3. \A v \in Users :
           ~(remote'[p.order].loc = "active" /\ remote'[p.order].taker = v)
    BY <1>4, UserAssumption
  <2> SUFFICES ASSUME NEW x \in PlainOrders, NEW v \in Users
               PROVE  ledger'[x].held[v] =
                        IF remote'[x].loc = "active" /\ remote'[x].taker = v
                        THEN Offer[x].buy ELSE 0
    BY DEF HeldWhileLocked, PlainOrders
  <2>4. CASE x = p.order
    BY <2>2, <2>3, <2>4
  <2>5. CASE x # p.order
    BY <1>4, <1>5, <2>5 DEF PlainInv, HeldWhileLocked, PlainOrders
  <2> QED
    BY <2>4, <2>5
<1> QED
  BY <1>6, <1>7, <1>8 DEF PlainInv

\* Cancelling an order that nobody has locked.
LEMMA CancelKeepsPlain ==
    ASSUME TypeOK, SettlementInv, CancelInv, PlainInv, NEW p \in packets,
           OnReceivedCancel(p)
    PROVE  PlainInv'
<1> DEFINE q == [p EXCEPT !.state = "ok"]
<1>1. p.order \in Orders /\ \A r \in packets : r.order \in Orders
  BY DEF TypeOK, PacketType
<1>2. /\ remote'[p.order].loc = remote[p.order].loc
      /\ remote'[p.order].taker = remote[p.order].taker
      /\ \A x \in Orders \ {p.order} : remote'[x] = remote[x]
  <2>1. remote[p.order] \in OrderType
    BY <1>1 DEF TypeOK
  <2>2. /\ remote'[p.order] = Cancelled(remote[p.order])
        /\ \A x \in Orders \ {p.order} : remote'[x] = remote[x]
    BY <1>1 DEF OnReceivedCancel, TypeOK
  <2> QED
    BY <2>1, <2>2, KeptUpdates, UpdatedRecords
<1>3. ledger' = ledger /\ packets' = (packets \ {p}) \cup {q}
  BY DEF OnReceivedCancel, WriteAck
<1>4. p.type = "CancelSwap" /\ q.type = "CancelSwap"
  BY DEF OnReceivedCancel, Arrives, TypeOK, PacketType
<1> HIDE DEF q
<1>5. LockHasTake'
  BY <1>1, <1>2, <1>3, <1>4
     DEF PlainInv, LockHasTake, TakeRefundable, Found, PlainOrders
<1>6. SoldToTaker'
  BY <1>1, <1>2, <1>3, <1>4 DEF PlainInv, SoldToTaker, PlainOrders
<1>7. HeldWhileLocked'
  BY <1>1, <1>2, <1>3 DEF PlainInv, HeldWhileLocked, PlainOrders
<1> QED
  BY <1>5, <1>6, <1>7 DEF PlainInv

-----------------------------------------------------------------------------
\* The theorems.

LEMMA PlainInit == Init => PlainInv
<1> SUFFICES ASSUME Init PROVE PlainInv
  OBVIOUS
<1>1. LockHasTake
  BY DEF Init, LockHasTake, TakeRefundable, Found, PlainOrders, NoOrder
<1>2. SoldToTaker
  BY DEF Init, SoldToTaker, PlainOrders, EmptyLedger
<1>3. HeldWhileLocked
  BY DEF Init, HeldWhileLocked, PlainOrders, NoOrder, EmptyLedger
<1> QED
  BY <1>1, <1>2, <1>3 DEF PlainInv

LEMMA PlainNext ==
    TypeOK /\ SettlementInv /\ CancelInv /\ PlainInv /\ [Next]_vars => PlainInv'
<1>1. TypeOK /\ CancelInv /\ [Next]_vars => PlainStep
  BY PlainShapes DEF CancelInv
<1> QED
  BY <1>1, QuietKeepsPlain, TakeKeepsPlain, MirrorKeepsPlain, AnswerKeepsPlain,
     SettleKeepsPlain, CancelKeepsPlain DEF PlainStep

\* An order without bids is locked, sold and released as PlainInv says, in
\* every interleaving of takers, cancellations, refusals and timeouts.
THEOREM PlainCorrect == Spec => []PlainInv
BY PlainInit, PlainNext, TypeCorrect, SettlementCorrect, CancelCorrect, PTL DEF Spec

\* A maker whose order was cancelled, or never mirrored, got the tokens back;
\* a buyer got them only if the mirror was locked, and those exclude each other.
LEMMA NobodySold ==
    ASSUME SettlementInv, CancelInv, PlainInv, NEW o \in PlainOrders,
           remote[o].taker = NoUser
    PROVE  ledger[o].delivered = 0
BY Deliveries DEF PlainInv, SoldToTaker, PlainOrders

LEMMA ReturnedUntaken ==
    ASSUME CancelInv, NEW o \in PlainOrders, ledger[o].refunded = 1
    PROVE  remote[o].taker = NoUser
BY DEF CancelInv, RefundHasReason, CancelledIsFree, Sealed, CancelStands,
       PlainOrders, NoOrder

\* The swap is atomic: the sell tokens of an order without bids go to a buyer
\* or back to the maker, never both (on_received_take against
\* on_received_cancel and the refunds).
THEOREM SoldOrReturnedCorrect == Spec => []SoldOrReturned
<1>1. SettlementInv /\ CancelInv /\ PlainInv => SoldOrReturned
  <2> SUFFICES ASSUME SettlementInv, CancelInv, PlainInv, NEW o \in PlainOrders
               PROVE  ledger[o].delivered + ledger[o].refunded <= 1
    BY DEF SoldOrReturned
  <2>1. ledger[o].delivered \in {0, 1} /\ ledger[o].refunded \in {0, 1}
    BY Deliveries DEF PlainOrders, CancelInv, RefundHasReason
  <2> QED
    BY <2>1, NobodySold, ReturnedUntaken
<1> QED
  BY <1>1, SettlementCorrect, CancelCorrect, PlainCorrect, PTL

\* Once the away chain has cancelled an order without bids, no take of it is
\* on its way, and it was not and will not be sold (on_received_cancel).
THEOREM CancelIsFinalCorrect == Spec => []CancelIsFinal
<1>1. SettlementInv /\ CancelInv /\ PlainInv => CancelIsFinal
  <2> SUFFICES ASSUME SettlementInv, CancelInv, PlainInv, NEW o \in PlainOrders,
                      remote[o].status = "Cancel"
               PROVE  Outstanding(o, "TakeSwap") = {} /\ ledger[o].delivered = 0
    BY DEF CancelIsFinal
  <2>1. remote[o].loc = "active" /\ remote[o].taker = NoUser
    BY DEF CancelInv, CancelledIsFree, PlainOrders
  <2>2. Outstanding(o, "TakeSwap") = {}
    BY <2>1 DEF Outstanding, CancelInv, TakeHoldsLock
  <2> QED
    BY <2>1, <2>2, NobodySold
<1> QED
  BY <1>1, SettlementCorrect, CancelCorrect, PlainCorrect, PTL

\* The refund of a failed take finds its order (refund_packet_token).
THEOREM TakeRefundableCorrect == Spec => []TakeRefundable
<1>1. PlainInv => TakeRefundable
  BY DEF PlainInv, LockHasTake
<1> QED
  BY <1>1, PlainCorrect, PTL

\* The contract holds the tokens of a taker exactly while the taker has the
\* order locked: none of the handlers pays them out twice, or never.
THEOREM HeldWhileLockedCorrect == Spec => []HeldWhileLocked
<1>1. PlainInv => HeldWhileLocked
  BY DEF PlainInv
<1> QED
  BY <1>1, PlainCorrect, PTL

\* An order in the active list is locked exactly if one TakeSwap, of the user
\* who locked it, is unsettled (execute_take_swap against refund_packet_token
\* and on_packet_success).
THEOREM LockHasPacketCorrect == Spec => []LockHasPacket
<1>1. TypeOK /\ CancelInv /\ PlainInv => LockHasPacket
  <2> SUFFICES ASSUME TypeOK, CancelInv, PlainInv, NEW o \in PlainOrders,
                      remote[o].loc = "active"
               PROVE  /\ Cardinality(Outstanding(o, "TakeSwap")) =
                             IF remote[o].taker = NoUser THEN 0 ELSE 1
                      /\ \A p \in Outstanding(o, "TakeSwap") : p.who = remote[o].taker
    BY DEF LockHasPacket
  <2>1. \A p \in Outstanding(o, "TakeSwap") :
            p.who = remote[o].taker /\ p.who # NoUser
    BY TakersAreUsers DEF Outstanding, CancelInv, TakeHoldsLock
  <2>2. CASE remote[o].taker = NoUser
    <3>1. Outstanding(o, "TakeSwap") = {}
      BY <2>1, <2>2
    <3> QED
      BY <2>2, <3>1, FS_EmptySet
  <2>3. CASE remote[o].taker # NoUser
    <3>1. PICK p \in packets : p.order = o /\ p.type = "TakeSwap"
      BY <2>3 DEF PlainInv, LockHasTake, Found
    <3>2. Outstanding(o, "TakeSwap") = {p}
      BY <3>1 DEF Outstanding, CancelInv, TakeHoldsLock
    <3> QED
      BY <2>1, <2>3, <3>2, FS_Singleton
  <2> QED
    BY <2>2, <2>3
<1> QED
  BY <1>1, TypeCorrect, CancelCorrect, PlainCorrect, PTL

\* A locked order without bids changes hands only through the refund of the
\* one who locked it: no other taker can step in between (execute_take_swap).
THEOREM LockNotStolenCorrect == Spec => LockNotStolen
<1> DEFINE Kept == \A o \in PlainOrders :
                      remote[o].taker # NoUser =>
                          remote'[o].taker \in {NoUser, remote[o].taker}
<1>1. TypeOK /\ SettlementInv /\ CancelInv /\ PlainInv /\ [Next]_vars => Kept
  <2> SUFFICES ASSUME TypeOK, SettlementInv, CancelInv, PlainInv, PlainStep
               PROVE  Kept
    BY PlainShapes DEF CancelInv
  <2>1. \A p \in packets : p.order \in Orders
    BY DEF TypeOK, PacketType
  <2>2. CASE PlainQuiet
    BY <2>2 DEF PlainQuiet, EntryKept
  <2>3. ASSUME NEW o \in Orders, NEW u \in Users, ExecuteTakeSwap(o, u) PROVE Kept
    BY <2>3 DEF ExecuteTakeSwap, Open, TypeOK, PlainOrders
  <2>4. ASSUME NEW p \in packets, OnReceivedMake(p) PROVE Kept
    BY <2>1, <2>4 DEF OnReceivedMake, Appended, TypeOK, PlainOrders
  <2>5. ASSUME NEW p \in packets, OnReceivedTake(p) \/ RefuseTake(p) PROVE Kept
    BY <2>5 DEF OnReceivedTake, RefuseTake, swapVars
  <2>6. ASSUME NEW p \in packets, AckTakeSwap(p) PROVE Kept
    <3>1. /\ remote'[p.order].taker = p.who
          /\ \A x \in Orders \ {p.order} : remote'[x] = remote[x]
      BY <2>6, PaymentStep DEF Payment
    <3>2. remote[p.order].taker = p.who
      BY <2>6 DEF AckTakeSwap, Succeeded, Found, CancelInv, TakeHoldsLock
    <3> QED
      BY <3>1, <3>2 DEF PlainOrders
  <2>7. ASSUME NEW p \in packets, RefundTakeSwap(p) \/ OnReceivedCancel(p) PROVE Kept
    <3>1. /\ \/ remote'[p.order] = Untaken(remote[p.order])
             \/ remote'[p.order] = Cancelled(remote[p.order])
          /\ \A x \in Orders \ {p.order} : remote'[x] = remote[x]
      BY <2>1, <2>7 DEF RefundTakeSwap, OnReceivedCancel, TypeOK
    <3>2. remote[p.order] \in OrderType
      BY <2>1 DEF TypeOK
    <3> QED
      BY <3>1, <3>2, UpdatedRecords DEF PlainOrders
  <2> QED
    BY <2>2, <2>3, <2>4, <2>5, <2>6, <2>7 DEF PlainStep
<1> QED
  BY <1>1, TypeCorrect, SettlementCorrect, CancelCorrect, PlainCorrect, PTL
     DEF Spec, LockNotStolen
=============================================================================
