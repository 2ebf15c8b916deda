CONSTANTS
    c1 = c1
    c2 = c2
    plain = plain
    reserved = reserved
    auction = auction
    closedAuction = closedAuction
    u1 = u1
    u2 = u2
    u3 = u3
    Chains = {c1, c2}
    Orders = {auction}
    Users = {u1, u2}
    NoUser = NoUser
    AnyTaker = AnyTaker
    Offer <- MCOffer
    BidAmounts = {2}
    BidExpiries = {0}
    Additions = {}
    BadReceivers = {}
    MakerFee <- OnePercent
    TakerFee <- OnePercent
    Reserve <- SmallReserve
    AdminChains = {}
    MaxPackets <- FivePackets
    MaxTime <- NoTicks
SPECIFICATION Spec
INVARIANT CancelRefundsDeposit
CHECK_DEADLOCK FALSE
