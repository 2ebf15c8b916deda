CONSTANTS
    c1 = c1
    c2 = c2
    plain = plain
    reserved = reserved
    auction = auction
    closedAuction = closedAuction
    u1 = u1
    u2 = u2
    u3 = u3
    Chains = {c1, c2}
    Orders = {auction}
    Users = {u1, u2, u3}
    NoUser = NoUser
    AnyTaker = AnyTaker
    Offer <- MCOffer
    BidAmounts = {2}
    BidExpiries = {0}
    Additions = {1}
    BadReceivers = {u3}
    MakerFee <- OnePercent
    TakerFee <- OnePercent
    Reserve <- SmallReserve
    AdminChains = {c2}
    MaxPackets <- FivePackets
    MaxTime <- OneTickOnAway
SPECIFICATION Spec
INVARIANTS DeliveredOnce PaidForDelivery SettledHomeFirst SettlementInv CancelInv
PROPERTIES InactiveFrozen
CHECK_DEADLOCK FALSE
