----------------------- MODULE InterchainSwap_proofs ------------------------
(***************************************************************************)
(* For any number of chains, orders and users, any offers, fees and        *)
(* bounds, with bids and without: every reachable state is typed, the sell *)
(* tokens are delivered at most once, the maker is paid at most once and   *)
(* for a delivery, and closed orders stay closed.                          *)
(*                                                                         *)
(* The steps of InterchainSwap fall into five shapes.  Four change which   *)
(* list an order is in (made, mirrored, delivered, paid); all others are   *)
(* quiet.  The settlement invariant is shown for each shape instead of     *)
(* each action.                                                            *)
(***************************************************************************)
EXTENDS SwapInvariants, TLAPS

-----------------------------------------------------------------------------
\* Types of the building blocks.

\* Every order has a home and an away chain and positive amounts.
LEMMA OfferFacts ==
    ASSUME NEW o \in Orders
    PROVE  /\ Home(o) \in Chains /\ Away(o) \in Chains
           /\ Offer[o].sell \in Nat /\ Offer[o].buy \in Nat
           /\ Offer[o].sell > 0 /\ Offer[o].buy > 0
<1>1. Offer[o] \in OfferType
  BY OfferAssumption
<1> QED
  BY <1>1 DEF OfferType, Home, Away

\* Sending a well-typed packet keeps the packet log and the counters typed.
LEMMA SendPacketType ==
    ASSUME TypeOK, NEW from, NEW to, NEW p \in PacketType,
           SendPacket(from, to, p)
    PROVE  packets' \subseteq PacketType /\ sent' \in [Orders -> Nat]
<1>1. p.order \in Orders
  BY DEF PacketType
<1> QED
  BY <1>1 DEF TypeOK, SendPacket

\* So do acknowledging and consuming a packet.
LEMMA WriteAckType ==
    ASSUME TypeOK, NEW p \in packets, NEW result \in {"ok", "err"},
           WriteAck(p, result)
    PROVE  packets' \subseteq PacketType /\ sent' \in [Orders -> Nat]
<1>1. [p EXCEPT !.state = result] \in PacketType
  BY DEF TypeOK, PacketType
<1> QED
  BY <1>1 DEF TypeOK, WriteAck

LEMMA ConsumeType ==
    ASSUME TypeOK, NEW p \in packets, Consume(p)
    PROVE  packets' \subseteq PacketType /\ sent' \in [Orders -> Nat]
BY DEF TypeOK, Consume

\* A new packet is typed.
LEMMA NewPacketType ==
    ASSUME TypeOK, NEW o \in Orders
    PROVE  /\ \A type \in {"MakeSwap", "CancelSwap"} :
                NewPacket(o, type, NoUser, 0, 0) \in PacketType
           /\ \A type \in {"TakeSwap"} \cup BidTypes, u \in Users,
                 amount \in Nat, expire \in Nat :
                NewPacket(o, type, u, amount, expire) \in PacketType
BY DEF TypeOK, NewPacket, PacketType

\* A covered payment leaves a natural number in the account.
LEMMA PaidType ==
    ASSUME TypeOK, NEW c \in Chains, NEW amount \in Nat, Covers(c, amount)
    PROVE  Paid(c, amount) \in [Chains -> Nat]
BY DEF TypeOK, Covers, Paid

LEMMA LockedType ==
    ASSUME TypeOK, NEW c \in Chains, NEW amount \in Nat
    PROVE  Locked(c, amount) \in [Chains -> Nat]
BY DEF TypeOK, Locked

\* Order records stay typed when a step changes them.
LEMMA OrderUpdateType ==
    ASSUME NEW order \in OrderType
    PROVE  /\ Untaken(order) \in OrderType
           /\ Cancelled(order) \in OrderType
           /\ Synced(order) \in OrderType
           /\ NotCreated(order) \in OrderType
BY DEF OrderType, Statuses, Untaken, Cancelled, Synced, NotCreated

LEMMA TakerUpdateType ==
    ASSUME NEW order \in OrderType, NEW u \in Users \cup {NoUser}
    PROVE  TakenBy(order, u) \in OrderType /\ Completed(order, u) \in OrderType
BY DEF OrderType, Statuses, TakenBy, Completed, MoveOrderToBottom

LEMMA AppendedType ==
    ASSUME NEW status \in Statuses
    PROVE  Appended(status) \in OrderType
BY DEF OrderType, Appended

\* And so do the entries of the history.
LEMMA ReleasedType ==
    ASSUME NEW entry \in LedgerType
    PROVE  Delivered(entry) \in LedgerType /\ Refunded(entry) \in LedgerType
BY DEF LedgerType, Delivered, Refunded

LEMMA HeldType ==
    ASSUME NEW entry \in LedgerType, NEW u, NEW amount \in Nat
    PROVE  /\ PutIn(entry, u, amount) \in LedgerType
           /\ TakenOut(entry, u, amount) \in LedgerType
           /\ MakerPaid(entry, u, amount) \in LedgerType
<1> DEFINE more == [entry.held EXCEPT ![u] = @ + amount]
           less == [entry.held EXCEPT ![u] = @ - amount]
<1>1. entry.held \in [Users -> Int] /\ entry.paid + 1 \in Nat
  BY DEF LedgerType
<1>2. more \in [Users -> Int] /\ less \in [Users -> Int]
  <2>1. CASE u \in Users
    BY <1>1, <2>1
  <2>2. CASE u \notin Users
    BY <1>1, <2>2
  <2> QED
    BY <2>1, <2>2
<1> HIDE DEF more, less
<1>3. /\ PutIn(entry, u, amount) = [entry EXCEPT !.held = more]
      /\ TakenOut(entry, u, amount) = [entry EXCEPT !.held = less]
      /\ MakerPaid(entry, u, amount) =
            [entry EXCEPT !.held = less, !.paid = entry.paid + 1]
  BY DEF PutIn, TakenOut, MakerPaid, more, less, LedgerType
<1> QED
  BY <1>1, <1>2, <1>3 DEF LedgerType

\* Bid records stay typed, and so do the functions that hold them.
LEMMA BidUpdateType ==
    ASSUME NEW bid \in BidType, NEW amount \in Nat
    PROVE  /\ \A status \in BidStatuses : InStatus(bid, status) \in BidType
           /\ Raised(bid, amount) \in BidType
BY DEF BidType, InStatus, Raised

LEMMA NewBidType ==
    ASSUME NEW status \in BidStatuses, NEW amount \in Nat, NEW expire \in Nat
    PROVE  NewBid(status, amount, expire) \in BidType
BY DEF BidType, NewBid

LEMMA BidTableType ==
    ASSUME NEW table \in [Orders -> [Users -> BidType]], NEW o \in Orders, NEW u,
           NEW bid, u \in Users => bid \in BidType
    PROVE  [table EXCEPT ![o][u] = bid] \in [Orders -> [Users -> BidType]]
<1> DEFINE row == [table[o] EXCEPT ![u] = bid]
<1>1. row \in [Users -> BidType]
  <2>1. CASE u \in Users
    BY <2>1
  <2>2. CASE u \notin Users
    BY <2>2
  <2> QED
    BY <2>1, <2>2
<1>2. [table EXCEPT ![o][u] = bid] = [table EXCEPT ![o] = row]
  OBVIOUS
<1> HIDE DEF row
<1> QED
  BY <1>1, <1>2

LEMMA SetBidType ==
    ASSUME TypeOK, NEW o \in Orders, NEW u, NEW bid, u \in Users => bid \in BidType
    PROVE  /\ SetRemoteBid(o, u, bid) =>
                 remoteBids' \in [Orders -> [Users -> BidType]]
           /\ SetNativeBid(o, u, bid) =>
                 nativeBids' \in [Orders -> [Users -> BidType]]
<1>1. /\ remoteBids \in [Orders -> [Users -> BidType]]
      /\ nativeBids \in [Orders -> [Users -> BidType]]
  BY DEF TypeOK
<1>2. [remoteBids EXCEPT ![o][u] = bid] \in [Orders -> [Users -> BidType]]
  BY <1>1, BidTableType
<1>3. [nativeBids EXCEPT ![o][u] = bid] \in [Orders -> [Users -> BidType]]
  BY <1>1, BidTableType
<1> QED
  BY <1>2, <1>3, Zenon DEF SetRemoteBid, SetNativeBid

-----------------------------------------------------------------------------
\* Every step keeps the types.

\* Requests and handlers of the swap messages.
LEMMA SwapRequestType == TypeOK /\ SwapRequest => TypeOK'
<1> SUFFICES ASSUME TypeOK, NEW o \in Orders,
                    \/ ExecuteMakeSwap(o)
                    \/ ExecuteCancelSwap(o)
                    \/ \E u \in Users : ExecuteTakeSwap(o, u)
             PROVE  TypeOK'
  BY DEF SwapRequest
<1> USE DEF swapVars, bidVars, netVars
<1>1. CASE ExecuteMakeSwap(o)
  <2>1. NewPacket(o, "MakeSwap", NoUser, 0, 0) \in PacketType
    BY NewPacketType DEF SwapTypes
  <2>2. packets' \subseteq PacketType /\ sent' \in [Orders -> Nat]
    BY <1>1, <2>1, SendPacketType DEF ExecuteMakeSwap
  <2>3. bank' \in [Chains -> Nat]
    BY <1>1, LockedType, OfferFacts DEF ExecuteMakeSwap
  <2>4. native' \in [Orders -> OrderType]
    BY <1>1, AppendedType DEF TypeOK, ExecuteMakeSwap, Statuses
  <2> QED
    BY <1>1, <2>2, <2>3, <2>4 DEF TypeOK, ExecuteMakeSwap
<1>2. CASE ExecuteCancelSwap(o)
  <2>1. NewPacket(o, "CancelSwap", NoUser, 0, 0) \in PacketType
    BY NewPacketType DEF SwapTypes
  <2>2. packets' \subseteq PacketType /\ sent' \in [Orders -> Nat]
    BY <1>2, <2>1, SendPacketType DEF ExecuteCancelSwap
  <2> QED
    BY <1>2, <2>2 DEF TypeOK, ExecuteCancelSwap
<1>3. ASSUME NEW u \in Users, ExecuteTakeSwap(o, u)
      PROVE  TypeOK'
  <2>1. NewPacket(o, "TakeSwap", u, Offer[o].buy, 0) \in PacketType
    BY NewPacketType, OfferFacts DEF SwapTypes
  <2>2. packets' \subseteq PacketType /\ sent' \in [Orders -> Nat]
    BY <1>3, <2>1, SendPacketType DEF ExecuteTakeSwap
  <2>3. bank' \in [Chains -> Nat]
    BY <1>3, LockedType, OfferFacts DEF ExecuteTakeSwap
  <2>4. remote' \in [Orders -> OrderType]
    BY <1>3, TakerUpdateType DEF TypeOK, ExecuteTakeSwap
  <2>5. ledger' \in [Orders -> LedgerType]
    BY <1>3, OfferFacts, ReleasedType, HeldType DEF TypeOK, ExecuteTakeSwap
  <2> QED
    BY <1>3, <2>2, <2>3, <2>4, <2>5 DEF TypeOK, ExecuteTakeSwap
<1> QED
  BY <1>1, <1>2, <1>3

LEMMA SwapRelayType == TypeOK /\ SwapRelay => TypeOK'
<1> SUFFICES ASSUME TypeOK, NEW p \in packets,
                    \/ OnReceivedMake(p) \/ AckMakeSwap(p) \/ RefundMakeSwap(p)
                    \/ OnReceivedTake(p) \/ RefuseTake(p)
                    \/ AckTakeSwap(p) \/ RefundTakeSwap(p)
                    \/ OnReceivedCancel(p) \/ RefuseCancel(p)
                    \/ AckCancelSwap(p) \/ DropCancelSwap(p)
             PROVE  TypeOK'
  BY DEF SwapRelay
<1> USE DEF swapVars, bidVars, netVars
<1>0. /\ p.order \in Orders /\ p.amount \in Nat /\ p.who \in Users \cup {NoUser}
      /\ Offer[p.order].sell \in Nat
      /\ Home(p.order) \in Chains /\ Away(p.order) \in Chains
  BY OfferFacts DEF TypeOK, PacketType
<1>1. CASE OnReceivedMake(p)
  <2>1. packets' \subseteq PacketType /\ sent' \in [Orders -> Nat]
    BY <1>1, WriteAckType DEF OnReceivedMake
  <2>2. remote' \in [Orders -> OrderType]
    BY <1>1, <1>0, AppendedType DEF OnReceivedMake, TypeOK, Statuses
  <2> QED
    BY <1>1, <2>1, <2>2 DEF OnReceivedMake, TypeOK
<1>2. CASE AckMakeSwap(p)
  <2>1. native' \in [Orders -> OrderType]
    BY <1>2, <1>0, OrderUpdateType DEF AckMakeSwap, TypeOK
  <2> QED
    BY <1>2, <2>1, ConsumeType DEF AckMakeSwap, TypeOK
<1>3. CASE RefundMakeSwap(p)
  <2>1. native' \in [Orders -> OrderType]
    BY <1>3, <1>0, OrderUpdateType DEF RefundMakeSwap, TypeOK
  <2>2. bank' \in [Chains -> Nat]
    BY <1>3, <1>0, PaidType DEF RefundMakeSwap
  <2>3. ledger' \in [Orders -> LedgerType]
    BY <1>3, <1>0, ReleasedType, HeldType DEF RefundMakeSwap, TypeOK
  <2> QED
    BY <1>3, <2>1, <2>2, <2>3, ConsumeType DEF RefundMakeSwap, TypeOK
<1>4. CASE OnReceivedTake(p)
  <2>1. packets' \subseteq PacketType /\ sent' \in [Orders -> Nat]
    BY <1>4, <1>0, WriteAckType DEF OnReceivedTake
  <2>2. native' \in [Orders -> OrderType]
    BY <1>4, <1>0, TakerUpdateType DEF OnReceivedTake, DeliverTo, TypeOK
  <2>3. bank' \in [Chains -> Nat]
    BY <1>4, <1>0, PaidType DEF OnReceivedTake, DeliverTo, TakeAccepted, SellPayable
  <2>4. ledger' \in [Orders -> LedgerType]
    BY <1>4, <1>0, ReleasedType, HeldType DEF OnReceivedTake, TypeOK, DeliverTo
  <2> QED
    BY <1>4, <2>1, <2>2, <2>3, <2>4 DEF OnReceivedTake, TypeOK
<1>5. CASE RefuseTake(p)
  <2>1. packets' \subseteq PacketType /\ sent' \in [Orders -> Nat]
    BY <1>5, <1>0, WriteAckType DEF RefuseTake
  <2> QED
    BY <1>5, <2>1 DEF RefuseTake, TypeOK
<1>6. CASE AckTakeSwap(p)
  <2>1. packets' \subseteq PacketType /\ sent' \in [Orders -> Nat]
    BY <1>6, <1>0, ConsumeType DEF AckTakeSwap
  <2>2. remote' \in [Orders -> OrderType]
    BY <1>6, <1>0, TakerUpdateType DEF AckTakeSwap, PayMaker, TypeOK
  <2>3. bank' \in [Chains -> Nat]
    BY <1>6, <1>0, PaidType DEF AckTakeSwap, PayMaker
  <2>4. ledger' \in [Orders -> LedgerType]
    BY <1>6, <1>0, ReleasedType, HeldType DEF AckTakeSwap, TypeOK, PayMaker
  <2> QED
    BY <1>6, <2>1, <2>2, <2>3, <2>4 DEF AckTakeSwap, TypeOK
<1>7. CASE RefundTakeSwap(p)
  <2>1. packets' \subseteq PacketType /\ sent' \in [Orders -> Nat]
    BY <1>7, <1>0, ConsumeType DEF RefundTakeSwap
  <2>2. remote' \in [Orders -> OrderType]
    BY <1>7, <1>0, OrderUpdateType DEF RefundTakeSwap, TypeOK
  <2>3. bank' \in [Chains -> Nat]
    BY <1>7, <1>0, PaidType DEF RefundTakeSwap
  <2>4. ledger' \in [Orders -> LedgerType]
    BY <1>7, <1>0, ReleasedType, HeldType DEF RefundTakeSwap, TypeOK
  <2> QED
    BY <1>7, <2>1, <2>2, <2>3, <2>4 DEF RefundTakeSwap, TypeOK
<1>8. CASE OnReceivedCancel(p)
  <2>1. packets' \subseteq PacketType /\ sent' \in [Orders -> Nat]
    BY <1>8, <1>0, WriteAckType DEF OnReceivedCancel
  <2>2. remote' \in [Orders -> OrderType]
    BY <1>8, <1>0, OrderUpdateType DEF OnReceivedCancel, TypeOK
  <2> QED
    BY <1>8, <2>1, <2>2 DEF OnReceivedCancel, TypeOK
<1>9. CASE RefuseCancel(p)
  <2>1. packets' \subseteq PacketType /\ sent' \in [Orders -> Nat]
    BY <1>9, <1>0, WriteAckType DEF RefuseCancel
  <2> QED
    BY <1>9, <2>1 DEF RefuseCancel, TypeOK
<1>10. CASE AckCancelSwap(p)
  <2>1. packets' \subseteq PacketType /\ sent' \in [Orders -> Nat]
    BY <1>10, <1>0, ConsumeType DEF AckCancelSwap
  <2>2. native' \in [Orders -> OrderType]
    BY <1>10, <1>0, OrderUpdateType DEF AckCancelSwap, TypeOK
  <2>3. bank' \in [Chains -> Nat]
    BY <1>10, <1>0, PaidType DEF AckCancelSwap, CancelRefundable
  <2>4. ledger' \in [Orders -> LedgerType]
    BY <1>10, <1>0, ReleasedType, HeldType DEF AckCancelSwap, TypeOK
  <2> QED
    BY <1>10, <2>1, <2>2, <2>3, <2>4 DEF AckCancelSwap, TypeOK
<1>11. CASE DropCancelSwap(p)
  <2>1. packets' \subseteq PacketType /\ sent' \in [Orders -> Nat]
    BY <1>11, <1>0, ConsumeType DEF DropCancelSwap
  <2> QED
    BY <1>11, <2>1 DEF DropCancelSwap, TypeOK
<1> QED
  BY <1>1, <1>2, <1>3, <1>4, <1>5, <1>6, <1>7, <1>8, <1>9, <1>10, <1>11

\* Requests of the bid messages.
LEMMA BidRequestType == TypeOK /\ BidRequest => TypeOK'
<1> SUFFICES ASSUME TypeOK, NEW o \in Orders, NEW u \in Users,
                    \/ \E amount \in BidAmounts, expire \in BidExpiries :
                          ExecuteMakeBid(o, u, amount, expire)
                    \/ ExecuteTakeBid(o, u)
                    \/ ExecuteCancelBid(o, u)
                    \/ \E addition \in Additions : ExecuteUpdateBid(o, u, addition)
             PROVE  TypeOK'
  BY DEF BidRequest
<1> USE DEF swapVars, bidVars, netVars
<1>1. ASSUME NEW amount \in BidAmounts, NEW expire \in BidExpiries,
             ExecuteMakeBid(o, u, amount, expire)
      PROVE  TypeOK'
  <2>0. amount \in Nat /\ expire \in Nat /\ Away(o) \in Chains
    BY AmountAssumption, OfferFacts
  <2>1. NewPacket(o, "MakeBid", u, amount, expire) \in PacketType
    BY <2>0, NewPacketType DEF BidTypes
  <2>2. packets' \subseteq PacketType /\ sent' \in [Orders -> Nat]
    BY <1>1, <2>1, SendPacketType DEF ExecuteMakeBid, SendBidPacket
  <2>3. bank' \in [Chains -> Nat]
    BY <1>1, <2>0, LockedType DEF ExecuteMakeBid, Deposit
  <2>4. ledger' \in [Orders -> LedgerType]
    BY <1>1, <2>0, HeldType DEF TypeOK, ExecuteMakeBid, Deposit
  <2>5. NewBid("Initial", amount, expire) \in BidType
    BY <2>0, NewBidType DEF BidStatuses
  <2>6. remoteBids' \in [Orders -> [Users -> BidType]]
    BY <1>1, <2>5, SetBidType DEF ExecuteMakeBid
  <2> QED
    BY <1>1, <2>2, <2>3, <2>4, <2>6 DEF TypeOK, ExecuteMakeBid
<1>2. CASE ExecuteTakeBid(o, u)
  <2>1. NewPacket(o, "TakeBid", u, 0, 0) \in PacketType
    BY NewPacketType DEF BidTypes
  <2>2. packets' \subseteq PacketType /\ sent' \in [Orders -> Nat]
    BY <1>2, <2>1, SendPacketType DEF ExecuteTakeBid, SendBidPacket
  <2> QED
    BY <1>2, <2>2 DEF TypeOK, ExecuteTakeBid
<1>3. CASE ExecuteCancelBid(o, u)
  <2>1. NewPacket(o, "CancelBid", u, 0, 0) \in PacketType
    BY NewPacketType DEF BidTypes
  <2>2. packets' \subseteq PacketType /\ sent' \in [Orders -> Nat]
    BY <1>3, <2>1, SendPacketType DEF ExecuteCancelBid, SendBidPacket
  <2> QED
    BY <1>3, <2>2 DEF TypeOK, ExecuteCancelBid
<1>4. ASSUME NEW addition \in Additions, ExecuteUpdateBid(o, u, addition)
      PROVE  TypeOK'
  <2>0. addition \in Nat /\ Away(o) \in Chains
    BY AmountAssumption, OfferFacts
  <2>1. NewPacket(o, "UpdateBid", u, addition, 0) \in PacketType
    BY <2>0, NewPacketType DEF BidTypes
  <2>2. packets' \subseteq PacketType /\ sent' \in [Orders -> Nat]
    BY <1>4, <2>1, SendPacketType DEF ExecuteUpdateBid, SendBidPacket
  <2>3. bank' \in [Chains -> Nat]
    BY <1>4, <2>0, LockedType DEF ExecuteUpdateBid, Deposit
  <2>4. ledger' \in [Orders -> LedgerType]
    BY <1>4, <2>0, HeldType DEF TypeOK, ExecuteUpdateBid, Deposit
  <2> QED
    BY <1>4, <2>2, <2>3, <2>4 DEF TypeOK, ExecuteUpdateBid
<1> QED
  BY <1>1, <1>2, <1>3, <1>4

\* Handlers of the bid messages.
LEMMA BidRelayType == TypeOK /\ BidRelay => TypeOK'
<1> SUFFICES ASSUME TypeOK, NEW p \in packets,
                    \/ OnReceivedMakeBid(p) \/ AckMakeBid(p) \/ RefundMakeBid(p)
                    \/ OnReceivedTakeBid(p) \/ RefuseTakeBidLate(p)
                    \/ RefuseTakeBid(p) \/ AckTakeBid(p)
                    \/ OnReceivedCancelBid(p) \/ RefuseCancelBid(p)
                    \/ AckCancelBid(p)
                    \/ OnReceivedUpdateBid(p) \/ RefuseUpdateBid(p)
                    \/ AckUpdateBid(p) \/ RefundUpdateBid(p)
                    \/ DropBidPacket(p)
             PROVE  TypeOK'
  BY DEF BidRelay
<1> USE DEF swapVars, bidVars, netVars
<1>t. p.type \in BidTypes
  BY Zenon DEF BidTypes, OnReceivedMakeBid, AckMakeBid, RefundMakeBid,
        OnReceivedTakeBid, RefuseTakeBidLate, RefuseTakeBid, AckTakeBid,
        OnReceivedCancelBid, RefuseCancelBid, AckCancelBid, OnReceivedUpdateBid,
        RefuseUpdateBid, AckUpdateBid, RefundUpdateBid, DropBidPacket,
        Arrives, Succeeded, Failed
<1>0. /\ p.order \in Orders /\ p.amount \in Nat /\ p.expire \in Nat
      /\ p.who \in Users /\ Offer[p.order].sell \in Nat
      /\ Home(p.order) \in Chains /\ Away(p.order) \in Chains
  BY <1>t, OfferFacts DEF TypeOK, PacketType, BidTypes
<1>a. /\ nativeBids[p.order][p.who] \in BidType
      /\ remoteBids[p.order][p.who] \in BidType
      /\ remoteBids[p.order][p.who].amount \in Nat
  BY <1>0 DEF TypeOK, BidType
<1>b. \A status \in BidStatuses :
        /\ InStatus(nativeBids[p.order][p.who], status) \in BidType
        /\ InStatus(remoteBids[p.order][p.who], status) \in BidType
  BY <1>a, <1>0, BidUpdateType
<1>c. /\ Raised(nativeBids[p.order][p.who], p.amount) \in BidType
      /\ Raised(remoteBids[p.order][p.who], p.amount) \in BidType
  BY <1>a, <1>0, BidUpdateType
<1>1. CASE OnReceivedMakeBid(p)
  <2>1. packets' \subseteq PacketType /\ sent' \in [Orders -> Nat]
    BY <1>1, <1>0, WriteAckType DEF OnReceivedMakeBid
  <2>2. nativeBids' \in [Orders -> [Users -> BidType]]
    BY <1>1, <1>0, NewBidType, SetBidType DEF OnReceivedMakeBid, BidStatuses
  <2> QED
    BY <1>1, <2>1, <2>2 DEF OnReceivedMakeBid, TypeOK
<1>2. CASE AckMakeBid(p)
  <2>1. packets' \subseteq PacketType /\ sent' \in [Orders -> Nat]
    BY <1>2, <1>0, ConsumeType DEF AckMakeBid
  <2>2. remoteBids' \in [Orders -> [Users -> BidType]]
    BY <1>2, <1>0, <1>b, SetBidType DEF AckMakeBid, BidStatuses
  <2> QED
    BY <1>2, <2>1, <2>2 DEF AckMakeBid, TypeOK
<1>3. CASE RefundMakeBid(p)
  <2>1. packets' \subseteq PacketType /\ sent' \in [Orders -> Nat]
    BY <1>3, <1>0, ConsumeType DEF RefundMakeBid
  <2>2. remoteBids' \in [Orders -> [Users -> BidType]]
    BY <1>3, <1>0, <1>b, SetBidType DEF RefundMakeBid, BidStatuses
  <2>3. bank' \in [Chains -> Nat]
    BY <1>3, <1>0, PaidType DEF RefundMakeBid, PayBack
  <2>4. ledger' \in [Orders -> LedgerType]
    BY <1>3, <1>0, HeldType DEF RefundMakeBid, TypeOK, PayBack
  <2> QED
    BY <1>3, <2>1, <2>2, <2>3, <2>4 DEF RefundMakeBid, TypeOK
<1>4. CASE OnReceivedTakeBid(p)
  <2>1. packets' \subseteq PacketType /\ sent' \in [Orders -> Nat]
    BY <1>4, <1>0, WriteAckType DEF OnReceivedTakeBid
  <2>2. nativeBids' \in [Orders -> [Users -> BidType]]
    BY <1>4, <1>0, <1>b, SetBidType DEF OnReceivedTakeBid, BidStatuses, Execute
  <2>3. native' \in [Orders -> OrderType]
    BY <1>4, <1>0, TakerUpdateType DEF OnReceivedTakeBid, DeliverTo, TypeOK
  <2>4. bank' \in [Chains -> Nat]
    BY <1>4, <1>0, PaidType DEF OnReceivedTakeBid, DeliverTo, SellPayable
  <2>5. ledger' \in [Orders -> LedgerType]
    BY <1>4, <1>0, ReleasedType DEF OnReceivedTakeBid, TypeOK, DeliverTo
  <2> QED
    BY <1>4, <2>1, <2>2, <2>3, <2>4, <2>5 DEF OnReceivedTakeBid, TypeOK
<1>5. CASE RefuseTakeBidLate(p)
  <2>1. packets' \subseteq PacketType /\ sent' \in [Orders -> Nat]
    BY <1>5, <1>0, WriteAckType DEF RefuseTakeBidLate
  <2>2. nativeBids' \in [Orders -> [Users -> BidType]]
    BY <1>5, <1>0, <1>b, SetBidType DEF RefuseTakeBidLate, BidStatuses, Execute
  <2> QED
    BY <1>5, <2>1, <2>2 DEF RefuseTakeBidLate, TypeOK
<1>6. CASE RefuseTakeBid(p)
  <2>1. packets' \subseteq PacketType /\ sent' \in [Orders -> Nat]
    BY <1>6, <1>0, WriteAckType DEF RefuseTakeBid
  <2> QED
    BY <1>6, <2>1 DEF RefuseTakeBid, TypeOK
<1>7. CASE AckTakeBid(p)
  <2>1. packets' \subseteq PacketType /\ sent' \in [Orders -> Nat]
    BY <1>7, <1>0, ConsumeType DEF AckTakeBid
  <2>2. remoteBids' \in [Orders -> [Users -> BidType]]
    BY <1>7, <1>0, <1>b, SetBidType DEF AckTakeBid, BidStatuses
  <2>3. remote' \in [Orders -> OrderType]
    BY <1>7, <1>0, TakerUpdateType DEF AckTakeBid, PayMaker, TypeOK
  <2>4. bank' \in [Chains -> Nat]
    BY <1>7, <1>0, <1>a, PaidType DEF AckTakeBid, PayMaker
  <2>5. ledger' \in [Orders -> LedgerType]
    BY <1>7, <1>0, <1>a, HeldType DEF AckTakeBid, PayMaker, TypeOK
  <2> QED
    BY <1>7, <2>1, <2>2, <2>3, <2>4, <2>5 DEF AckTakeBid, TypeOK
<1>8. CASE OnReceivedCancelBid(p)
  <2>1. packets' \subseteq PacketType /\ sent' \in [Orders -> Nat]
    BY <1>8, <1>0, WriteAckType DEF OnReceivedCancelBid
  <2>2. nativeBids' \in [Orders -> [Users -> BidType]]
    BY <1>8, <1>0, <1>b, SetBidType DEF OnReceivedCancelBid, BidStatuses
  <2> QED
    BY <1>8, <2>1, <2>2 DEF OnReceivedCancelBid, TypeOK
<1>9. CASE RefuseCancelBid(p)
  <2>1. packets' \subseteq PacketType /\ sent' \in [Orders -> Nat]
    BY <1>9, <1>0, WriteAckType DEF RefuseCancelBid
  <2> QED
    BY <1>9, <2>1 DEF RefuseCancelBid, TypeOK
<1>10. CASE AckCancelBid(p)
  <2>1. packets' \subseteq PacketType /\ sent' \in [Orders -> Nat]
    BY <1>10, <1>0, ConsumeType DEF AckCancelBid
  <2>2. remoteBids' \in [Orders -> [Users -> BidType]]
    BY <1>10, <1>0, <1>b, SetBidType DEF AckCancelBid, BidStatuses
  <2>3. bank' \in [Chains -> Nat]
    BY <1>10, <1>0, <1>a, PaidType DEF AckCancelBid, PayBack
  <2>4. ledger' \in [Orders -> LedgerType]
    BY <1>10, <1>0, <1>a, HeldType DEF AckCancelBid, PayBack, TypeOK
  <2> QED
    BY <1>10, <2>1, <2>2, <2>3, <2>4 DEF AckCancelBid, TypeOK
<1>11. CASE OnReceivedUpdateBid(p)
  <2>1. packets' \subseteq PacketType /\ sent' \in [Orders -> Nat]
    BY <1>11, <1>0, WriteAckType DEF OnReceivedUpdateBid
  <2>2. nativeBids' \in [Orders -> [Users -> BidType]]
    BY <1>11, <1>0, <1>c, SetBidType DEF OnReceivedUpdateBid, BidStatuses
  <2> QED
    BY <1>11, <2>1, <2>2 DEF OnReceivedUpdateBid, TypeOK
<1>12. CASE RefuseUpdateBid(p)
  <2>1. packets' \subseteq PacketType /\ sent' \in [Orders -> Nat]
    BY <1>12, <1>0, WriteAckType DEF RefuseUpdateBid
  <2> QED
    BY <1>12, <2>1 DEF RefuseUpdateBid, TypeOK
<1>13. CASE AckUpdateBid(p)
  <2>1. packets' \subseteq PacketType /\ sent' \in [Orders -> Nat]
    BY <1>13, <1>0, ConsumeType DEF AckUpdateBid
  <2>2. remoteBids' \in [Orders -> [Users -> BidType]]
    BY <1>13, <1>0, <1>c, SetBidType DEF AckUpdateBid, BidStatuses
  <2> QED
    BY <1>13, <2>1, <2>2 DEF AckUpdateBid, TypeOK
<1>14. CASE RefundUpdateBid(p)
  <2>1. packets' \subseteq PacketType /\ sent' \in [Orders -> Nat]
    BY <1>14, <1>0, ConsumeType DEF RefundUpdateBid
  <2>2. bank' \in [Chains -> Nat]
    BY <1>14, <1>0, PaidType DEF RefundUpdateBid, PayBack
  <2>3. ledger' \in [Orders -> LedgerType]
    BY <1>14, <1>0, HeldType DEF RefundUpdateBid, TypeOK, PayBack
  <2> QED
    BY <1>14, <2>1, <2>2, <2>3 DEF RefundUpdateBid, TypeOK
<1>15. CASE DropBidPacket(p)
  <2>1. packets' \subseteq PacketType /\ sent' \in [Orders -> Nat]
    BY <1>15, <1>0, ConsumeType DEF DropBidPacket
  <2> QED
    BY <1>15, <2>1 DEF DropBidPacket, TypeOK
<1> QED
  BY <1>1, <1>2, <1>3, <1>4, <1>5, <1>6, <1>7, <1>8,
     <1>9, <1>10, <1>11, <1>12, <1>13, <1>14, <1>15

\* Clocks, markets and the handshake.
LEMMA EnvironmentType == TypeOK /\ Environment => TypeOK'
<1> SUFFICES ASSUME TypeOK, Environment
             PROVE  TypeOK'
  OBVIOUS
<1> USE DEF TypeOK, swapVars, bidVars
<1>1. ASSUME NEW c \in Chains, NEW d \in Chains, IbcChannelConnect(c, d)
      PROVE  TypeOK'
  BY <1>1 DEF IbcChannelConnect
<1>2. ASSUME NEW c \in Chains, Tick(c)
      PROVE  TypeOK'
  BY <1>2 DEF Tick
<1>3. ASSUME NEW c \in Chains, ExecutePauseMarket(c) \/ ExecuteUnpauseMarket(c)
      PROVE  TypeOK'
  BY <1>3 DEF ExecutePauseMarket, ExecuteUnpauseMarket, SetMarket
<1> QED
  BY <1>1, <1>2, <1>3 DEF Environment

LEMMA InitType == Init => TypeOK
<1> SUFFICES ASSUME Init PROVE TypeOK
  OBVIOUS
<1>1. NoOrder \in OrderType /\ NoBid \in BidType /\ EmptyLedger \in LedgerType
  BY DEF NoOrder, NoBid, EmptyLedger, OrderType, BidType, LedgerType, Statuses,
         BidStatuses
<1> QED
  BY <1>1, ReserveAssumption DEF Init, TypeOK

LEMMA NextType == TypeOK /\ [Next]_vars => TypeOK'
<1>1. TypeOK /\ UNCHANGED vars => TypeOK'
  BY DEF TypeOK, vars
<1> QED
  BY <1>1, SwapRequestType, BidRequestType, SwapRelayType, BidRelayType,
     EnvironmentType DEF Next, Relay

\* Every reachable state is typed: accounts are never overdrawn, a locked
\* order names a buyer, and no packet of a take or a bid is anonymous.
THEOREM TypeCorrect == Spec => []TypeOK
BY InitType, NextType, PTL DEF Spec

-----------------------------------------------------------------------------
\* How a sale is settled: the shapes of a step.

\* A step that does not move the record between lists, nor touch a closed one.
RecordKept(old, new) ==
    new = old \/ (old.loc = "active" /\ new.loc = "active")

OrderKept(o) ==
    /\ RecordKept(native[o], native'[o])
    /\ RecordKept(remote[o], remote'[o])
    /\ ledger'[o].delivered = ledger[o].delivered
    /\ ledger'[o].paid = ledger[o].paid

\* The shapes of a change to the packets.
Answered(p, result) ==
    packets' = (packets \ {p}) \cup {[p EXCEPT !.state = result]}
Requested(q) ==
    /\ packets' = packets \cup {q}
    /\ q.type # "MakeSwap" /\ q.state = "sent"
    /\ native[q.order].loc # "none"

QuietPackets ==
    \/ packets' = packets
    \/ \E p \in packets : packets' = packets \ {p}
    \/ \E p \in packets, result \in {"ok", "err"} :
          Answered(p, result) /\ (p.type \in BuyTypes => result = "err")
    \/ \E q : Requested(q)

QuietStep == (\A o \in Orders : OrderKept(o)) /\ QuietPackets

Delivery(p) == OnReceivedTake(p) \/ OnReceivedTakeBid(p)
Payment(p) == AckTakeSwap(p) \/ AckTakeBid(p)

SettlementStep ==
    \/ QuietStep
    \/ \E o \in Orders : ExecuteMakeSwap(o)
    \/ \E p \in packets : OnReceivedMake(p)
    \/ \E p \in packets : Delivery(p)
    \/ \E p \in packets : Payment(p)

-----------------------------------------------------------------------------
\* Quiet steps.

\* Updates that leave a record in its list, and entries that release nothing.
LEMMA KeptUpdates ==
    ASSUME NEW order \in OrderType
    PROVE  /\ Untaken(order).loc = order.loc
           /\ Cancelled(order).loc = order.loc
           /\ Synced(order).loc = order.loc
           /\ NotCreated(order).loc = order.loc
           /\ \A u : TakenBy(order, u).loc = order.loc
BY DEF OrderType, Untaken, Cancelled, Synced, NotCreated, TakenBy

LEMMA KeptEntries ==
    ASSUME NEW entry \in LedgerType
    PROVE  /\ Refunded(entry).delivered = entry.delivered
           /\ Refunded(entry).paid = entry.paid
           /\ \A u, amount :
                /\ PutIn(entry, u, amount).delivered = entry.delivered
                /\ PutIn(entry, u, amount).paid = entry.paid
                /\ TakenOut(entry, u, amount).delivered = entry.delivered
                /\ TakenOut(entry, u, amount).paid = entry.paid
BY DEF LedgerType, Refunded, PutIn, TakenOut

\* Requests about an order that was made are quiet.
LEMMA SwapRequestQuiet ==
    ASSUME TypeOK, NothingBefore, NEW o \in Orders,
           ExecuteCancelSwap(o) \/ \E u \in Users : ExecuteTakeSwap(o, u)
    PROVE  QuietStep
<1> USE DEF swapVars
<1>1. CASE ExecuteCancelSwap(o)
  <2>1. Requested(NewPacket(o, "CancelSwap", NoUser, 0, 0))
    BY <1>1 DEF ExecuteCancelSwap, SendPacket, Requested, NewPacket, Found
  <2>2. \A x \in Orders : OrderKept(x)
    BY <1>1 DEF ExecuteCancelSwap, OrderKept, RecordKept
  <2> QED
    BY <2>1, <2>2 DEF QuietStep, QuietPackets
<1>2. ASSUME NEW u \in Users, ExecuteTakeSwap(o, u)
      PROVE  QuietStep
  <2>1. Requested(NewPacket(o, "TakeSwap", u, Offer[o].buy, 0))
    BY <1>2 DEF ExecuteTakeSwap, SendPacket, Requested, NewPacket, Open, Found,
                NothingBefore
  <2>2. \A x \in Orders : OrderKept(x)
    BY <1>2, KeptUpdates, KeptEntries
       DEF ExecuteTakeSwap, OrderKept, RecordKept, Open, Found, TypeOK
  <2> QED
    BY <2>1, <2>2 DEF QuietStep, QuietPackets
<1> QED
  BY <1>1, <1>2

LEMMA BidRequestQuiet ==
    ASSUME TypeOK, NothingBefore, BidRequest
    PROVE  QuietStep
<1> USE DEF swapVars
<1>1. PICK o \in Orders, u \in Users :
            \/ \E amount \in BidAmounts, expire \in BidExpiries :
                  ExecuteMakeBid(o, u, amount, expire)
            \/ ExecuteTakeBid(o, u)
            \/ ExecuteCancelBid(o, u)
            \/ \E addition \in Additions : ExecuteUpdateBid(o, u, addition)
  BY DEF BidRequest
<1>2. \A x \in Orders : OrderKept(x)
  BY <1>1, KeptEntries
     DEF ExecuteMakeBid, ExecuteTakeBid, ExecuteCancelBid, ExecuteUpdateBid,
         Deposit, OrderKept, RecordKept, TypeOK
<1>3. Found(remote[o]) => native[o].loc # "none"
  BY DEF NothingBefore, Found
<1>4. \E type \in BidTypes : \E amount, expire :
         Found(remote[o]) /\ SendBidPacket(o, type, u, amount, expire)
  BY <1>1 DEF ExecuteMakeBid, ExecuteTakeBid, ExecuteCancelBid,
              ExecuteUpdateBid, BidTypes
<1>5. PICK type, amount, expire :
         /\ type \in BidTypes
         /\ Found(remote[o]) /\ SendBidPacket(o, type, u, amount, expire)
  BY <1>4
<1>6. Requested(NewPacket(o, type, u, amount, expire))
  BY <1>3, <1>5 DEF SendBidPacket, SendPacket, Requested, NewPacket, BidTypes
<1> QED
  BY <1>2, <1>6 DEF QuietStep, QuietPackets

\* So is every handler but those that mirror, deliver or pay.
LEMMA SwapRelayQuiet ==
    ASSUME TypeOK, NEW p \in packets,
           \/ AckMakeSwap(p) \/ RefundMakeSwap(p) \/ RefuseTake(p)
           \/ RefundTakeSwap(p) \/ OnReceivedCancel(p) \/ RefuseCancel(p)
           \/ AckCancelSwap(p) \/ DropCancelSwap(p)
    PROVE  QuietStep
<1> USE DEF swapVars
<1>1. p.order \in Orders
  BY DEF TypeOK, PacketType
<1>2. QuietPackets
  BY DEF AckMakeSwap, RefundMakeSwap, RefuseTake, RefundTakeSwap,
         OnReceivedCancel, RefuseCancel, AckCancelSwap, DropCancelSwap,
         Consume, WriteAck, Arrives, QuietPackets, Answered, BuyTypes
<1>3. \A x \in Orders : OrderKept(x)
  <2>1. CASE AckMakeSwap(p)
    BY <1>1, <2>1, KeptUpdates DEF AckMakeSwap, OrderKept, RecordKept, Found, TypeOK
  <2>2. CASE RefundMakeSwap(p)
    BY <1>1, <2>2, KeptUpdates, KeptEntries
       DEF RefundMakeSwap, OrderKept, RecordKept, Found, TypeOK
  <2>3. CASE RefuseTake(p) \/ RefuseCancel(p) \/ DropCancelSwap(p)
    BY <2>3 DEF RefuseTake, RefuseCancel, DropCancelSwap, OrderKept, RecordKept
  <2>4. CASE RefundTakeSwap(p)
    BY <1>1, <2>4, KeptUpdates, KeptEntries
       DEF RefundTakeSwap, OrderKept, RecordKept, Found, TypeOK
  <2>5. CASE OnReceivedCancel(p)
    BY <1>1, <2>5, KeptUpdates
       DEF OnReceivedCancel, CancelAccepted, OrderKept, RecordKept, Found, TypeOK
  <2>6. CASE AckCancelSwap(p)
    BY <1>1, <2>6, KeptUpdates, KeptEntries
       DEF AckCancelSwap, CancelRefundable, OrderKept, RecordKept, Found, TypeOK
  <2> QED
    BY <2>1, <2>2, <2>3, <2>4, <2>5, <2>6
<1> QED
  BY <1>2, <1>3 DEF QuietStep

LEMMA BidRelayQuiet ==
    ASSUME TypeOK, NEW p \in packets,
           \/ OnReceivedMakeBid(p) \/ AckMakeBid(p) \/ RefundMakeBid(p)
           \/ RefuseTakeBidLate(p) \/ RefuseTakeBid(p)
           \/ OnReceivedCancelBid(p) \/ RefuseCancelBid(p) \/ AckCancelBid(p)
           \/ OnReceivedUpdateBid(p) \/ RefuseUpdateBid(p)
           \/ AckUpdateBid(p) \/ RefundUpdateBid(p) \/ DropBidPacket(p)
    PROVE  QuietStep
<1> USE DEF swapVars
<1>1. p.order \in Orders
  BY DEF TypeOK, PacketType
<1>2. QuietPackets
  <2>1. CASE \/ OnReceivedMakeBid(p) \/ OnReceivedCancelBid(p)
             \/ RefuseCancelBid(p) \/ OnReceivedUpdateBid(p)
             \/ RefuseUpdateBid(p) \/ RefuseTakeBidLate(p) \/ RefuseTakeBid(p)
    BY <2>1 DEF OnReceivedMakeBid, OnReceivedCancelBid, RefuseCancelBid,
                OnReceivedUpdateBid, RefuseUpdateBid, RefuseTakeBidLate,
                RefuseTakeBid, WriteAck, Arrives, QuietPackets, Answered, BuyTypes
  <2>2. CASE \/ AckMakeBid(p) \/ RefundMakeBid(p) \/ AckCancelBid(p)
             \/ AckUpdateBid(p) \/ RefundUpdateBid(p) \/ DropBidPacket(p)
    BY <2>2 DEF AckMakeBid, RefundMakeBid, AckCancelBid, AckUpdateBid,
                RefundUpdateBid, DropBidPacket, Consume, QuietPackets
  <2> QED
    BY <2>1, <2>2
<1>3. native' = native /\ remote' = remote
  BY DEF OnReceivedMakeBid, AckMakeBid, RefundMakeBid, RefuseTakeBidLate,
         RefuseTakeBid, OnReceivedCancelBid, RefuseCancelBid, AckCancelBid,
         OnReceivedUpdateBid, RefuseUpdateBid, AckUpdateBid, RefundUpdateBid,
         DropBidPacket
<1>4. \/ ledger' = ledger
      \/ \E amount : ledger' = [ledger EXCEPT ![p.order] = TakenOut(@, p.who, amount)]
  BY DEF OnReceivedMakeBid, AckMakeBid, RefundMakeBid, RefuseTakeBidLate,
         RefuseTakeBid, OnReceivedCancelBid, RefuseCancelBid, AckCancelBid,
         OnReceivedUpdateBid, RefuseUpdateBid, AckUpdateBid, RefundUpdateBid,
         DropBidPacket, PayBack
<1>5. \A x \in Orders : OrderKept(x)
  BY <1>1, <1>3, <1>4, KeptEntries DEF OrderKept, RecordKept, TypeOK
<1> QED
  BY <1>2, <1>5 DEF QuietStep

\* Every step has one of the five shapes.
LEMMA StepShapes ==
    ASSUME TypeOK, NothingBefore, [Next]_vars
    PROVE  SettlementStep
<1>1. ASSUME packets' = packets, native' = native, remote' = remote,
             ledger' = ledger
      PROVE  QuietStep
  BY <1>1 DEF QuietStep, QuietPackets, OrderKept, RecordKept
<1>2. CASE Environment \/ UNCHANGED vars
  BY <1>1, <1>2 DEF Environment, vars, IbcChannelConnect, Tick, swapVars,
        ExecutePauseMarket, ExecuteUnpauseMarket, SetMarket, SettlementStep
<1>3. CASE SwapRequest
  BY <1>3, SwapRequestQuiet DEF SwapRequest, SettlementStep
<1>4. CASE BidRequest
  BY <1>4, BidRequestQuiet DEF SettlementStep
<1>5. CASE SwapRelay
  BY <1>5, SwapRelayQuiet DEF SwapRelay, SettlementStep, Delivery, Payment
<1>6. CASE BidRelay
  BY <1>6, BidRelayQuiet DEF BidRelay, SettlementStep, Delivery, Payment
<1> QED
  BY <1>2, <1>3, <1>4, <1>5, <1>6 DEF Next, Relay

-----------------------------------------------------------------------------
\* The invariant, shape by shape.

LEMMA QuietKeepsInv ==
    ASSUME TypeOK, SettlementInv, QuietStep
    PROVE  SettlementInv'
<1>1. \A o \in Orders : OrderKept(o)
  BY DEF QuietStep
<1>2. \A p \in packets : p.order \in Orders
  BY DEF TypeOK, PacketType
<1>3. PaidMeansInactive' /\ ClosedAlike'
  BY <1>1 DEF SettlementInv, PaidMeansInactive, ClosedAlike, OrderKept, RecordKept
<1>4. \A o \in Orders : /\ native'[o].loc = "none" <=> native[o].loc = "none"
                        /\ remote'[o].loc = "none" <=> remote[o].loc = "none"
  BY <1>1 DEF OrderKept, RecordKept
<1>5. \A o \in Orders : native[o].loc = "inactive" => native'[o] = native[o]
  BY <1>1 DEF OrderKept, RecordKept
<1>6. NothingBefore' /\ AnnouncedOnce' /\ AgreedSale'
  <2> USE DEF SettlementInv, NothingBefore, AnnouncedOnce, AgreedSale
  <2>1. CASE packets' = packets
    BY <1>2, <1>4, <1>5, <2>1
  <2>2. ASSUME NEW p \in packets, packets' = packets \ {p}
        PROVE  NothingBefore' /\ AnnouncedOnce' /\ AgreedSale'
    BY <1>2, <1>4, <1>5, <2>2
  <2>3. ASSUME NEW p \in packets, NEW result \in {"ok", "err"},
               Answered(p, result), p.type \in BuyTypes => result = "err"
        PROVE  NothingBefore' /\ AnnouncedOnce' /\ AgreedSale'
    <3> DEFINE q == [p EXCEPT !.state = result]
    <3>1. q.order = p.order /\ q.type = p.type /\ q.state = result
      BY DEF TypeOK, PacketType
    <3>2. packets' = (packets \ {p}) \cup {q}
      BY <2>3 DEF Answered
    <3> HIDE DEF q
    <3> QED
      BY <1>2, <1>4, <1>5, <2>3, <3>1, <3>2
  <2>4. ASSUME NEW q, Requested(q)
        PROVE  NothingBefore' /\ AnnouncedOnce' /\ AgreedSale'
    BY <1>2, <1>4, <1>5, <2>4 DEF Requested
  <2> QED
    BY <2>1, <2>2, <2>3, <2>4 DEF QuietStep, QuietPackets
<1> QED
  BY <1>3, <1>6 DEF SettlementInv

LEMMA MakeKeepsInv ==
    ASSUME TypeOK, SettlementInv, NEW o \in Orders, ExecuteMakeSwap(o)
    PROVE  SettlementInv'
<1> DEFINE q == NewPacket(o, "MakeSwap", NoUser, 0, 0)
<1>1. /\ native[o].loc = "none" /\ remote[o].loc = "none"
      /\ \A p \in packets : p.order # o
  BY DEF ExecuteMakeSwap, SettlementInv, NothingBefore
<1>2. native'[o].loc = "active" /\ \A x \in Orders \ {o} : native'[x] = native[x]
  BY DEF ExecuteMakeSwap, TypeOK, Appended
<1>3. remote' = remote /\ ledger' = ledger
  BY DEF ExecuteMakeSwap
<1>4. packets' = packets \cup {q}
  BY DEF ExecuteMakeSwap, SendPacket
<1>5. q.order = o /\ q.type = "MakeSwap" /\ q.state = "sent"
  BY DEF NewPacket
<1>6. \A p \in packets : p.order \in Orders
  BY DEF TypeOK, PacketType
<1> HIDE DEF q
<1>7. NothingBefore' /\ AnnouncedOnce'
  BY <1>1, <1>2, <1>3, <1>4, <1>5, <1>6
     DEF SettlementInv, NothingBefore, AnnouncedOnce
<1>8. PaidMeansInactive' /\ ClosedAlike'
  BY <1>1, <1>2, <1>3 DEF SettlementInv, PaidMeansInactive, ClosedAlike
<1>9. AgreedSale'
  BY <1>1, <1>2, <1>4, <1>5, <1>6 DEF SettlementInv, AgreedSale, BuyTypes
<1> QED
  BY <1>7, <1>8, <1>9 DEF SettlementInv

LEMMA MirrorKeepsInv ==
    ASSUME TypeOK, SettlementInv, NEW p \in packets, OnReceivedMake(p)
    PROVE  SettlementInv'
<1>1. p.order \in Orders /\ \A r \in packets : r.order \in Orders
  BY DEF TypeOK, PacketType
<1>2. /\ p.type = "MakeSwap" /\ remote[p.order].loc = "none"
      /\ native[p.order].loc # "none"
  BY <1>1 DEF OnReceivedMake, Arrives, SettlementInv, AnnouncedOnce, NothingBefore
<1>3. /\ remote'[p.order].loc = "active"
      /\ \A x \in Orders \ {p.order} : remote'[x] = remote[x]
  BY <1>1, <1>2 DEF OnReceivedMake, TypeOK, Found, Appended
<1>4. native' = native /\ ledger' = ledger
  BY DEF OnReceivedMake
<1>5. PICK q : /\ packets' = (packets \ {p}) \cup {q}
               /\ q.order = p.order /\ q.type = p.type /\ q.state # "sent"
  <2>1. PICK result \in {"ok", "err"} : WriteAck(p, result)
    BY DEF OnReceivedMake
  <2>2. LET q == [p EXCEPT !.state = result]
        IN  q.order = p.order /\ q.type = p.type /\ q.state # "sent"
    BY DEF TypeOK, PacketType
  <2> QED
    BY <2>1, <2>2 DEF WriteAck
<1>6. NothingBefore' /\ AnnouncedOnce'
  BY <1>1, <1>2, <1>3, <1>4, <1>5 DEF SettlementInv, NothingBefore, AnnouncedOnce
<1>7. PaidMeansInactive' /\ ClosedAlike'
  BY <1>2, <1>3, <1>4 DEF SettlementInv, PaidMeansInactive, ClosedAlike
<1>8. AgreedSale'
  BY <1>2, <1>4, <1>5 DEF SettlementInv, AgreedSale, BuyTypes
<1> QED
  BY <1>6, <1>7, <1>8 DEF SettlementInv

\* The record and the entry that a delivery and a payment leave.
LEMMA CompletedRecord ==
    ASSUME NEW order \in OrderType, NEW u
    PROVE  /\ Completed(order, u).loc = "inactive"
           /\ Completed(order, u).status = "Complete"
           /\ Completed(order, u).taker = u
BY DEF OrderType, Completed, MoveOrderToBottom

LEMMA ReleasedEntries ==
    ASSUME NEW entry \in LedgerType
    PROVE  /\ Delivered(entry).delivered = entry.delivered + 1
           /\ Delivered(entry).paid = entry.paid
           /\ \A u, amount :
                /\ MakerPaid(entry, u, amount).delivered = entry.delivered
                /\ MakerPaid(entry, u, amount).paid = entry.paid + 1
BY DEF LedgerType, Delivered, MakerPaid

\* What a delivery does: an order in the active list is closed at home.
LEMMA DeliveryStep ==
    ASSUME TypeOK, NEW p \in packets, Delivery(p)
    PROVE  /\ p.order \in Orders /\ p.type \in BuyTypes
           /\ native[p.order].loc = "active"
           /\ native'[p.order].loc = "inactive"
           /\ native'[p.order].status = "Complete"
           /\ native'[p.order].taker = p.who
           /\ ledger'[p.order].delivered = ledger[p.order].delivered + 1
           /\ ledger'[p.order].paid = ledger[p.order].paid
           /\ \A x \in Orders \ {p.order} :
                 native'[x] = native[x] /\ ledger'[x] = ledger[x]
           /\ remote' = remote
           /\ Answered(p, "ok")
<1>1. p.order \in Orders
  BY DEF TypeOK, PacketType
<1>2. DeliverTo(p.order, p.who) /\ Found(native[p.order]) /\ remote' = remote
  BY DEF Delivery, OnReceivedTake, OnReceivedTakeBid, TakeAccepted, BidKnown
<1>3. p.type \in BuyTypes /\ Answered(p, "ok")
  BY DEF Delivery, OnReceivedTake, OnReceivedTakeBid, Arrives, WriteAck,
         Answered, BuyTypes
<1>4. native[p.order] \in OrderType /\ ledger[p.order] \in LedgerType
  BY <1>1 DEF TypeOK
<1>5. /\ native'[p.order] = Completed(native[p.order], p.who)
      /\ ledger'[p.order] = Delivered(ledger[p.order])
      /\ \A x \in Orders \ {p.order} :
            native'[x] = native[x] /\ ledger'[x] = ledger[x]
  BY <1>1, <1>2 DEF DeliverTo, TypeOK
<1> QED
  BY <1>1, <1>2, <1>3, <1>4, <1>5, CompletedRecord, ReleasedEntries DEF Found

LEMMA DeliveryKeepsInv ==
    ASSUME TypeOK, SettlementInv, NEW p \in packets, Delivery(p)
    PROVE  SettlementInv'
<1> DEFINE q == [p EXCEPT !.state = "ok"]
<1>1. /\ p.order \in Orders /\ p.type \in BuyTypes
      /\ native[p.order].loc = "active" /\ native'[p.order].loc = "inactive"
      /\ native'[p.order].status = "Complete" /\ native'[p.order].taker = p.who
      /\ \A x \in Orders \ {p.order} : native'[x] = native[x]
      /\ remote' = remote
  BY DeliveryStep
<1>2. packets' = (packets \ {p}) \cup {q}
  BY DeliveryStep DEF Answered
<1>3. q.order = p.order /\ q.type = p.type /\ q.who = p.who /\ q.state = "ok"
  BY DEF TypeOK, PacketType
<1>4. \A r \in packets : r.order \in Orders
  BY DEF TypeOK, PacketType
<1> HIDE DEF q
<1>5. NothingBefore'
  BY <1>1, <1>2, <1>3, <1>4 DEF SettlementInv, NothingBefore
<1>6. AnnouncedOnce'
  BY <1>1, <1>2, <1>3 DEF SettlementInv, AnnouncedOnce, BuyTypes
<1>7. PaidMeansInactive'
  <2>1. /\ ledger'[p.order].delivered = ledger[p.order].delivered + 1
        /\ ledger'[p.order].paid = ledger[p.order].paid
        /\ \A x \in Orders \ {p.order} : ledger'[x] = ledger[x]
    BY DeliveryStep
  <2> QED
    BY <1>1, <2>1 DEF SettlementInv, PaidMeansInactive
<1>8. AgreedSale'
  <2>1. \A r \in packets : r.type \in BuyTypes /\ r.state = "ok" =>
            r.order # p.order
    BY <1>1 DEF SettlementInv, AgreedSale
  <2> QED
    BY <1>1, <1>2, <1>3, <1>4, <2>1 DEF SettlementInv, AgreedSale
<1>9. ClosedAlike'
  BY <1>1 DEF SettlementInv, ClosedAlike
<1> QED
  BY <1>5, <1>6, <1>7, <1>8, <1>9 DEF SettlementInv

\* What a payment does: the sale the home chain agreed to is closed away.
LEMMA PaymentStep ==
    ASSUME TypeOK, SettlementInv, NEW p \in packets, Payment(p)
    PROVE  /\ p.order \in Orders
           /\ remote[p.order].loc = "active"
           /\ remote'[p.order].loc = "inactive"
           /\ remote'[p.order].status = "Complete"
           /\ remote'[p.order].taker = p.who
           /\ native[p.order].loc = "inactive"
           /\ native[p.order].status = "Complete"
           /\ native[p.order].taker = p.who
           /\ ledger'[p.order].delivered = ledger[p.order].delivered
           /\ ledger'[p.order].paid = ledger[p.order].paid + 1
           /\ \A x \in Orders \ {p.order} :
                 remote'[x] = remote[x] /\ ledger'[x] = ledger[x]
           /\ native' = native
           /\ packets' = packets \ {p}
<1>1. p.order \in Orders
  BY DEF TypeOK, PacketType
<1>2. PICK amount : PayMaker(p.order, p.who, amount)
  BY DEF Payment, AckTakeSwap, AckTakeBid
<1>3. Found(remote[p.order]) /\ native' = native /\ packets' = packets \ {p}
  BY DEF Payment, AckTakeSwap, AckTakeBid, Consume
<1>4. p.type \in BuyTypes /\ p.state = "ok"
  BY DEF Payment, AckTakeSwap, AckTakeBid, Succeeded, BuyTypes
<1>5. /\ native[p.order].loc = "inactive" /\ native[p.order].status = "Complete"
      /\ native[p.order].taker = p.who
  BY <1>4 DEF SettlementInv, AgreedSale
<1>6. remote[p.order] \in OrderType /\ ledger[p.order] \in LedgerType
  BY <1>1 DEF TypeOK
<1>7. /\ remote'[p.order] = Completed(remote[p.order], p.who)
      /\ ledger'[p.order] = MakerPaid(ledger[p.order], p.who, amount)
      /\ \A x \in Orders \ {p.order} :
            remote'[x] = remote[x] /\ ledger'[x] = ledger[x]
  BY <1>1, <1>2 DEF PayMaker, TypeOK
<1> QED
  BY <1>1, <1>3, <1>5, <1>6, <1>7, CompletedRecord, ReleasedEntries DEF Found

LEMMA PaymentKeepsInv ==
    ASSUME TypeOK, SettlementInv, NEW p \in packets, Payment(p)
    PROVE  SettlementInv'
<1>1. \A r \in packets : r.order \in Orders
  BY DEF TypeOK, PacketType
<1>2. NothingBefore' /\ AnnouncedOnce' /\ AgreedSale'
  BY <1>1, PaymentStep
     DEF SettlementInv, NothingBefore, AnnouncedOnce, AgreedSale
<1>3. PaidMeansInactive'
  BY PaymentStep DEF SettlementInv, PaidMeansInactive
<1>4. ClosedAlike'
  BY PaymentStep DEF SettlementInv, ClosedAlike
<1> QED
  BY <1>2, <1>3, <1>4 DEF SettlementInv

-----------------------------------------------------------------------------
\* The theorems.

LEMMA SettlementInit == Init => SettlementInv
BY DEF Init, SettlementInv, NothingBefore, AnnouncedOnce, PaidMeansInactive,
       AgreedSale, ClosedAlike, NoOrder, EmptyLedger

LEMMA SettlementNext == TypeOK /\ SettlementInv /\ [Next]_vars => SettlementInv'
<1>1. TypeOK /\ SettlementInv /\ [Next]_vars => SettlementStep
  BY StepShapes DEF SettlementInv
<1> QED
  BY <1>1, QuietKeepsInv, MakeKeepsInv, MirrorKeepsInv, DeliveryKeepsInv,
     PaymentKeepsInv DEF SettlementStep

\* Every sale is announced, agreed to at home and paid away, in this order
\* and at most once: the invariant behind the theorems below.
THEOREM SettlementCorrect == Spec => []SettlementInv
BY SettlementInit, SettlementNext, TypeCorrect, PTL DEF Spec

\* The sell tokens of an order are delivered at most once, whatever takers and
\* accepted bids race for it (on_received_take, on_received_take_bid).
THEOREM DeliveredOnceCorrect == Spec => []DeliveredOnce
<1>1. SettlementInv => DeliveredOnce
  BY DEF SettlementInv, PaidMeansInactive, DeliveredOnce
<1> QED
  BY <1>1, SettlementCorrect, PTL

\* The maker is paid at most once, for delivered tokens, on account of the
\* user who received them (on_packet_success, TakeSwap and TakeBid).
THEOREM PaidForDeliveryCorrect == Spec => []PaidForDelivery
<1>1. SettlementInv => PaidForDelivery
  BY DEF SettlementInv, PaidMeansInactive, ClosedAlike, PaidForDelivery
<1> QED
  BY <1>1, SettlementCorrect, PTL

\* A sale closed on the away chain was closed on the home chain first.
THEOREM SettledHomeFirstCorrect == Spec => []SettledHomeFirst
<1>1. SettlementInv => SettledHomeFirst
  BY DEF SettlementInv, ClosedAlike, SettledHomeFirst
<1> QED
  BY <1>1, SettlementCorrect, PTL

\* A closed order never changes again and never returns to the active list,
\* not even through the on_received_make of a delayed or late packet.
THEOREM InactiveFrozenCorrect == Spec => InactiveFrozen
<1> DEFINE Frozen ==
       \A o \in Orders :
         /\ native[o].loc = "inactive" => native'[o] = native[o]
         /\ remote[o].loc = "inactive" => remote'[o] = remote[o]
<1>1. TypeOK /\ SettlementInv /\ [Next]_vars => Frozen
  <2> SUFFICES ASSUME TypeOK, SettlementInv, SettlementStep
               PROVE  Frozen
    BY StepShapes DEF SettlementInv
  <2>1. CASE QuietStep
    BY <2>1 DEF QuietStep, OrderKept, RecordKept
  <2>2. ASSUME NEW x \in Orders, ExecuteMakeSwap(x) PROVE Frozen
    BY <2>2 DEF ExecuteMakeSwap, TypeOK
  <2>3. ASSUME NEW p \in packets, OnReceivedMake(p) PROVE Frozen
    <3>1. remote[p.order].loc = "none"
      BY <2>3 DEF OnReceivedMake, Arrives, SettlementInv, AnnouncedOnce
    <3> QED
      BY <2>3, <3>1 DEF OnReceivedMake, TypeOK
  <2>4. ASSUME NEW p \in packets, Delivery(p) PROVE Frozen
    BY <2>4, DeliveryStep
  <2>5. ASSUME NEW p \in packets, Payment(p) PROVE Frozen
    BY <2>5, PaymentStep
  <2> QED
    BY <2>1, <2>2, <2>3, <2>4, <2>5 DEF SettlementStep
<1> QED
  BY <1>1, TypeCorrect, SettlementCorrect, PTL DEF Spec, InactiveFrozen
=============================================================================
