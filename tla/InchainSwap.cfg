CONSTANTS
    gold = gold
    silver = silver
    lot = lot
    swap = swap
    u1 = u1
    Denoms = {gold, silver}
    Orders = {lot, swap}
    Users = {u1, u2}
    NoUser = NoUser
    AnyTaker = AnyTaker
    Offer <- MCOffer
    BidAmounts = {1, 2}
    BidExpiries = {0, 1}
    Additions = {1}
    MakerFee = 100
    TakerFee = 100
    Reserve <- OneEach
    MaxTime = 2
SPECIFICATION CarefulSpec
INVARIANTS SoldOrReturned StakesHeld BooksBalance
