CONSTANTS
    gold = gold
    silver = silver
    lot = lot
    u1 = u1
    u2 = u2
    Denoms = {gold, silver}
    Orders = {lot}
    Users = {u1, u2}
    NoUser = NoUser
    AnyTaker = AnyTaker
    Offer <- MCOffer
    BidAmounts = {1, 2}
    BidExpiries = {1}
    Additions = {1}
    MakerFee = 100
    TakerFee = 100
    Reserve <- Nothing
    MaxTime = 1
    Rank <- MCRank
    DefaultQueryLimit = 1
    MaxQueryLimit = 2
    Limits <- MCLimits
SPECIFICATION ScanSpec
INVARIANTS TypeOK BidScanFaithful
PROPERTIES SoldIsFinal
CHECK_DEADLOCK FALSE
