CONSTANTS
    Senders = {swapA, swapB}
    Lists = {{swapA}, {swapA, swapB}}
    Ids = {zero, one}
    Users = {u1, u2}
    NoUser = NoUser
    Schedules <- MCSchedules
    Amounts = {7}
    MaxStamp = 8
    MaxTime = 2
SPECIFICATION FairSpec
INVARIANTS TypeOK ClaimedWasReleased BooksBalance
PROPERTIES VestingKept AllClaimed
CHECK_DEADLOCK FALSE
