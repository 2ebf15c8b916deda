CONSTANTS
    u1 = u1
    u2 = u2
    home = home
    away = away
    OwnPaths = {home}
    OtherPaths = {away}
    Users = {u1, u2}
    Nobody = Nobody
    Offer <- MCOffer
    MaxOwn = 2
    MaxOther = 1
    DefaultLimit = 1
    MaxLimit = 2
    Limits <- MCLimits
    Filters <- MCFilters
SPECIFICATION Spec
INVARIANTS TypeOK BookAgrees ListsAnswer ScanFaithful
PROPERTIES StoreKept
CHECK_DEADLOCK FALSE
