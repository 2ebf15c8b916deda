CONSTANTS
    c1 = c1
    c2 = c2
    plain = plain
    reserved = reserved
    auction = auction
    closedAuction = closedAuction
    u1 = u1
    u2 = u2
    u3 = u3
    Chains = {c1, c2}
    Orders = {plain, reserved}
    Users = {u1, u2}
    NoUser = NoUser
    AnyTaker = AnyTaker
    Offer <- MCOffer
    BidAmounts = {}
    BidExpiries = {}
    Additions = {}
    BadReceivers = {}
    MakerFee <- OnePercent
    TakerFee <- OnePercent
    Reserve <- NoReserve
    AdminChains = {}
    MaxPackets <- ThreePackets
    MaxTime <- OneTickOnHome
SPECIFICATION FairSpec
INVARIANTS TypeOK SoldOrReturned LockHasPacket BooksBalance CancelIsFinal PlainInv
PROPERTIES LockNotStolen AtomicSwapKept LockResolved DeliveryIsPaid CancelIsRefunded
CHECK_DEADLOCK FALSE
