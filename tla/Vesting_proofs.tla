--------------------------- MODULE Vesting_proofs ---------------------------
(***************************************************************************)
(* Theorems about the vesting contract, for any senders, users, amounts    *)
(* and schedules, in whatever order claims, transfers and starts come.     *)
(***************************************************************************)
EXTENDS Vesting, SumTheorems

\* The schedules in use add up, so that no more is released than there is.
AddsUp == \A id \in Ids : TotalShare(vestings[id].schedule) <= FeeBasisPoint

VestingInv == TypeOK /\ AddsUp /\ ClaimedWasReleased /\ BooksBalance

-----------------------------------------------------------------------------
\* What a schedule releases.

LEMMA ScheduleParts ==
    ASSUME NEW v \in VestingType
    PROVE  /\ v.start \in Nat /\ v.amount \in Nat /\ v.claimed \in Nat
           /\ Len(v.schedule) \in Nat /\ DOMAIN v.schedule = 1 .. Len(v.schedule)
           /\ IsFiniteSet(DOMAIN v.schedule)
           /\ \A i \in DOMAIN v.schedule :
                 v.schedule[i].interval \in Nat /\ v.schedule[i].share \in Nat
<1> DEFINE Part == [interval: Nat, share: Nat]
<1>1. v.schedule \in Seq(Part)
  <2>1. v.schedule \in Schedules \/ v.schedule = <<>>
    BY DEF VestingType
  <2>2. <<>> \in Seq(Part)
    <3> HIDE DEF Part
    <3> QED OBVIOUS
  <2> QED BY <2>1, <2>2, ScheduleAssumption
<1>2. Len(v.schedule) \in Nat /\ DOMAIN v.schedule = 1 .. Len(v.schedule)
  <2> HIDE DEF Part
  <2> QED BY <1>1
<1>3. \A i \in DOMAIN v.schedule : v.schedule[i] \in Part
  <2> HIDE DEF Part
  <2> QED BY <1>1, <1>2
<1>4. IsFiniteSet(1 .. Len(v.schedule))
  BY <1>2, FS_Interval
<1> QED BY <1>2, <1>3, <1>4 DEF VestingType

LEMMA StampType ==
    ASSUME NEW v \in VestingType, NEW i \in DOMAIN v.schedule
    PROVE  Stamp(v, i) \in Nat
<1> DEFINE interval == [j \in DOMAIN v.schedule |-> v.schedule[j].interval]
<1>1. i \in 1 .. Len(v.schedule) /\ Len(v.schedule) \in Nat
  BY ScheduleParts
<1>2. 1 .. i \subseteq DOMAIN v.schedule /\ IsFiniteSet(1 .. i)
  BY <1>1, ScheduleParts, FS_Interval
<1>3. \A j \in 1 .. i : interval[j] \in Nat
  BY <1>2, ScheduleParts
<1>4. SumFunctionOnSet(interval, 1 .. i) \in Nat
  <2> HIDE DEF interval
  <2> QED BY <1>2, <1>3, SumNat
<1> QED BY <1>4, ScheduleParts DEF Stamp

\* Rounding down never makes a part larger.
LEMMA RoundedDown ==
    ASSUME NEW n \in Nat
    PROVE  n \div FeeBasisPoint \in Nat /\ FeeBasisPoint * (n \div FeeBasisPoint) <= n
BY DEF FeeBasisPoint

LEMMA ShareBound ==
    ASSUME NEW v \in VestingType, NEW i \in DOMAIN v.schedule
    PROVE  /\ Share(v, i) \in Nat
           /\ FeeBasisPoint * Share(v, i) <= v.amount * v.schedule[i].share
<1>1. v.schedule[i].share \in Nat /\ v.amount \in Nat
  BY ScheduleParts
<1>2. v.schedule[i].share * v.amount \in Nat
  BY <1>1
<1>3. /\ Share(v, i) \in Nat
      /\ FeeBasisPoint * Share(v, i) <= v.schedule[i].share * v.amount
  BY <1>2, RoundedDown DEF Share
<1>4. v.schedule[i].share * v.amount = v.amount * v.schedule[i].share
  BY <1>1
<1> QED BY <1>3, <1>4

LEMMA DueParts ==
    ASSUME NEW v \in VestingType, NEW time \in Nat
    PROVE  Due(v, time) \in SUBSET DOMAIN v.schedule
BY ScheduleParts DEF Due

\* Time only adds to what is released.
LEMMA ReleasedGrows ==
    ASSUME NEW v \in VestingType, NEW t \in Nat, NEW time \in Nat, t <= time
    PROVE  /\ Released(v, t) \in Nat
           /\ Released(v, t) <= Released(v, time)
<1> DEFINE share == [i \in DOMAIN v.schedule |-> Share(v, i)]
<1>1. \A i \in DOMAIN v.schedule : share[i] \in Nat
  BY ShareBound
<1>2. Due(v, t) \in SUBSET Due(v, time) /\ Due(v, time) \in SUBSET DOMAIN v.schedule
  BY DueParts, StampType DEF Due
<1>3. IsFiniteSet(Due(v, t)) /\ IsFiniteSet(Due(v, time))
  BY <1>2, ScheduleParts, FS_Subset
<1> HIDE DEF share
<1>4. SumFunctionOnSet(share, Due(v, t)) \in Nat
  BY <1>1, <1>2, <1>3, SumNat
<1>5. SumFunctionOnSet(share, Due(v, t)) <= SumFunctionOnSet(share, Due(v, time))
  <2>1. \A i \in Due(v, time) : share[i] \in Int /\ 0 <= share[i]
    BY <1>1, <1>2
  <2>2. \A i \in Due(v, t) : share[i] <= share[i]
    BY <1>1, <1>2
  <2> QED BY <1>2, <1>3, <2>1, <2>2, SumMonotone
<1> QED BY <1>4, <1>5 DEF Released, share

\* Of a schedule that adds up, however its parts are rounded, never more than
\* the amount is released.
LEMMA ReleasedBounded ==
    ASSUME NEW v \in VestingType, NEW time \in Nat,
           TotalShare(v.schedule) <= FeeBasisPoint
    PROVE  Released(v, time) <= v.amount
<1> DEFINE share == [i \in DOMAIN v.schedule |-> Share(v, i)]
           part == [i \in DOMAIN v.schedule |-> v.schedule[i].share]
           all == DOMAIN v.schedule
<1>1. \A i \in all : share[i] \in Nat /\ part[i] \in Nat
                     /\ FeeBasisPoint * share[i] <= v.amount * part[i]
  BY ShareBound, ScheduleParts
<1>2. Due(v, time) \in SUBSET all /\ IsFiniteSet(all) /\ v.amount \in Nat
  BY DueParts, ScheduleParts
<1> HIDE DEF share, part, all
<1>3. SumFunctionOnSet(share, Due(v, time)) <= SumFunctionOnSet(share, all)
  <2>1. \A i \in all : share[i] \in Int /\ 0 <= share[i]
    BY <1>1
  <2>2. \A i \in Due(v, time) : share[i] <= share[i]
    BY <1>1, <1>2
  <2> QED BY <1>2, <2>1, <2>2, SumMonotone
<1>4. FeeBasisPoint * SumFunctionOnSet(share, all) <= v.amount * SumFunctionOnSet(part, all)
  <2>1. FeeBasisPoint \in Int /\ v.amount \in Int
    BY <1>2 DEF FeeBasisPoint
  <2>2. \A i \in all : share[i] \in Int /\ part[i] \in Int
                       /\ FeeBasisPoint * share[i] <= v.amount * part[i]
    BY <1>1
  <2> QED BY <1>2, <2>1, <2>2, SumScaled
<1>5. /\ SumFunctionOnSet(share, all) \in Nat /\ SumFunctionOnSet(part, all) \in Nat
      /\ SumFunctionOnSet(share, Due(v, time)) \in Nat
  <2>1. IsFiniteSet(Due(v, time))
    BY <1>2, FS_Subset
  <2>2. \A i \in Due(v, time) : share[i] \in Nat
    BY <1>1, <1>2
  <2>3. SumFunctionOnSet(share, Due(v, time)) \in Nat
    BY <2>1, <2>2, SumNat
  <2>4. (\A i \in all : share[i] \in Nat) /\ (\A i \in all : part[i] \in Nat)
    BY <1>1
  <2> QED BY <1>2, <2>3, <2>4, SumNat
<1>6. TotalShare(v.schedule) = SumFunctionOnSet(part, all)
  BY DEF TotalShare, part, all
<1>7. v.amount * SumFunctionOnSet(part, all) <= v.amount * FeeBasisPoint
  <2>1. SumFunctionOnSet(part, all) <= FeeBasisPoint
    BY <1>6
  <2> HIDE DEF FeeBasisPoint
  <2>2. FeeBasisPoint \in Nat
    BY DEF FeeBasisPoint
  <2>3. ASSUME NEW a \in Nat, NEW x \in Nat, NEW y \in Nat, x <= y
        PROVE  a * x <= a * y
    BY <2>3
  <2> QED BY <1>2, <1>5, <2>1, <2>2, <2>3
<1>8. SumFunctionOnSet(share, all) <= v.amount
  BY <1>2, <1>4, <1>5, <1>7 DEF FeeBasisPoint
<1> QED BY <1>2, <1>3, <1>5, <1>8 DEF Released, share

-----------------------------------------------------------------------------
\* Steps.

Unclaimed == [id \in Ids |-> vestings[id].amount - vestings[id].claimed]

\* A vesting in use: what was claimed, what was released, and the amount.
LEMMA VestingFacts ==
    ASSUME VestingInv, NEW id \in Ids
    PROVE  LET v == vestings[id]
           IN  /\ v \in VestingType /\ now \in Nat
               /\ v.claimed \in Nat /\ v.amount \in Nat /\ Released(v, now) \in Nat
               /\ v.claimed <= Released(v, now) /\ Released(v, now) <= v.amount
               /\ Unclaimed[id] \in Nat
<1>1. vestings[id] \in VestingType /\ now \in Nat
  BY DEF VestingInv, TypeOK
<1>2. vestings[id].claimed \in Nat /\ vestings[id].amount \in Nat
      /\ Released(vestings[id], now) \in Nat
  BY <1>1, ScheduleParts, ReleasedGrows
<1>3. /\ vestings[id].claimed <= Released(vestings[id], now)
      /\ Released(vestings[id], now) <= vestings[id].amount
  BY DEF VestingInv, ClaimedWasReleased
<1>4. Unclaimed[id] = vestings[id].amount - vestings[id].claimed
  BY DEF Unclaimed
<1>5. vestings[id].amount - vestings[id].claimed \in Nat
  BY <1>2, <1>3
<1> QED BY <1>1, <1>2, <1>3, <1>4, <1>5

LEMMA StartNext ==
    ASSUME VestingInv, NEW s \in Senders, NEW x \in Ids, NEW u \in Users,
           NEW schedule \in Schedules, NEW amount \in Amounts,
           ExecuteStartVesting(s, x, u, schedule, amount)
    PROVE  VestingInv'
<1> DEFINE new == [start |-> now, schedule |-> schedule, amount |-> amount, claimed |-> 0]
<1> USE DEF ExecuteStartVesting
<1>1. amount \in Nat /\ now \in Nat /\ bank \in Nat /\ lost \in Nat
  BY NumberAssumption DEF VestingInv, TypeOK
<1>2. new \in VestingType
  BY <1>1 DEF VestingType
<1>3. /\ vestings' = [vestings EXCEPT ![x] = new] /\ now' = now
      /\ bank' = bank + amount /\ lost' = lost + vestings[x].amount - vestings[x].claimed
  OBVIOUS
<1>4. /\ vestings' \in [Ids -> VestingType] /\ vestings'[x] = new
      /\ \A y \in Ids \ {x} : vestings'[y] = vestings[y]
  BY <1>2, <1>3 DEF VestingInv, TypeOK
<1>5. new.schedule = schedule /\ new.amount = amount /\ new.claimed = 0
  OBVIOUS
<1> HIDE DEF new
<1>6. bank' \in Nat /\ lost' \in Nat
  BY <1>1, <1>3, VestingFacts
<1>7. TypeOK'
  BY <1>3, <1>4, <1>6 DEF VestingInv, TypeOK
<1>8. AddsUp'
  <2>1. TotalShare(schedule) <= FeeBasisPoint
    BY DEF FeeBasisPoint
  <2> QED BY <1>4, <1>5, <2>1 DEF VestingInv, AddsUp
<1>9. ClaimedWasReleased'
  <2>1. 0 <= Released(new, now) /\ Released(new, now) <= amount
    <3>1. TotalShare(new.schedule) <= FeeBasisPoint
      BY <1>5 DEF FeeBasisPoint
    <3>2. Released(new, now) <= amount
      BY <1>1, <1>2, <1>5, <3>1, ReleasedBounded
    <3>3. Released(new, now) \in Nat
      BY <1>1, <1>2, ReleasedGrows
    <3> QED BY <3>2, <3>3
  <2> QED BY <1>3, <1>4, <1>5, <2>1 DEF VestingInv, ClaimedWasReleased
<1>10. BooksBalance'
  <2>1. \A y \in Ids : Unclaimed[y] \in Int /\ Unclaimed'[y] \in Int
    <3>1. \A y \in Ids : Unclaimed[y] \in Int
      BY VestingFacts
    <3>2. Unclaimed'[x] = amount
      BY <1>1, <1>4, <1>5 DEF Unclaimed
    <3>3. \A y \in Ids \ {x} : Unclaimed'[y] = Unclaimed[y]
      BY <1>4 DEF Unclaimed
    <3> QED BY <1>1, <3>1, <3>2, <3>3
  <2>2. \A y \in Ids \ {x} : Unclaimed[y] = Unclaimed'[y]
    BY <1>4 DEF Unclaimed
  <2>3. Unclaimed[x] = vestings[x].amount - vestings[x].claimed /\ Unclaimed'[x] = amount
    BY <1>1, <1>4, <1>5 DEF Unclaimed
  <2>4. SumFunctionOnSet(Unclaimed', Ids)
           = SumFunctionOnSet(Unclaimed, Ids) + Unclaimed'[x] - Unclaimed[x]
    <3> HIDE DEF ExecuteStartVesting
    <3> QED BY <2>1, <2>2, IdAssumption, SumChange
  <2>5. SumFunctionOnSet(Unclaimed, Ids) \in Int
    BY <2>1, IdAssumption, SumType
  <2>6. bank = lost + SumFunctionOnSet(Unclaimed, Ids)
    BY DEF VestingInv, BooksBalance, Unclaimed
  <2>7. vestings[x].amount \in Int /\ vestings[x].claimed \in Int
    BY VestingFacts
  <2>8. bank' = lost' + SumFunctionOnSet(Unclaimed', Ids)
    BY <1>1, <1>3, <2>3, <2>4, <2>5, <2>6, <2>7
  <2> QED BY <2>8 DEF BooksBalance, Unclaimed
<1> QED BY <1>7, <1>8, <1>9, <1>10 DEF VestingInv

LEMMA ClaimedMore ==
    ASSUME NEW v \in VestingType, NEW more \in Nat
    PROVE  LET new == [v EXCEPT !.claimed = @ + more]
           IN  /\ new \in VestingType /\ new.claimed = v.claimed + more
               /\ new.start = v.start /\ new.schedule = v.schedule
               /\ new.amount = v.amount
BY DEF VestingType

LEMMA ClaimNext ==
    ASSUME VestingInv, NEW x \in Ids, NEW u \in Users, ExecuteClaim(x, u)
    PROVE  VestingInv'
<1> DEFINE v == vestings[x]
           payout == Released(v, now) - v.claimed
           new == [v EXCEPT !.claimed = @ + payout]
<1> USE DEF ExecuteClaim
<1>1. /\ v \in VestingType /\ now \in Nat /\ v.claimed \in Nat /\ v.amount \in Nat
      /\ Released(v, now) \in Nat
      /\ v.claimed <= Released(v, now) /\ Released(v, now) <= v.amount
  BY VestingFacts
<1>2. payout \in Nat /\ bank >= payout /\ bank \in Nat
  <2>1. bank \in Nat
    BY DEF VestingInv, TypeOK
  <2> QED BY <1>1, <2>1
<1>3. /\ vestings' = [vestings EXCEPT ![x] = new] /\ now' = now /\ lost' = lost
      /\ bank' = bank - payout
  BY DEF Claimed
<1>4. /\ new \in VestingType /\ new.claimed = v.claimed + payout
      /\ new.start = v.start /\ new.schedule = v.schedule /\ new.amount = v.amount
  <2> HIDE DEF payout, v
  <2> QED BY <1>1, <1>2, ClaimedMore
<1>5. /\ vestings' \in [Ids -> VestingType] /\ vestings'[x] = new
      /\ \A y \in Ids \ {x} : vestings'[y] = vestings[y]
  <2> HIDE DEF new
  <2> QED BY <1>3, <1>4 DEF VestingInv, TypeOK
<1>6. Released(new, now) = Released(v, now)
  <2> HIDE DEF new, v
  <2> QED BY <1>4 DEF Released, Due, Stamp, Share
<1>7. new.claimed = Released(v, now)
  BY <1>1, <1>4
<1> HIDE DEF new
<1>8. TypeOK'
  <2>1. bank' \in Nat
    BY <1>2, <1>3
  <2> QED BY <1>3, <1>5, <2>1 DEF VestingInv, TypeOK
<1>9. AddsUp'
  BY <1>4, <1>5 DEF VestingInv, AddsUp
<1>10. ClaimedWasReleased'
  BY <1>1, <1>3, <1>4, <1>5, <1>6, <1>7 DEF VestingInv, ClaimedWasReleased
<1>11. BooksBalance'
  <2>1. \A y \in Ids \ {x} : Unclaimed[y] = Unclaimed'[y]
    BY <1>5 DEF Unclaimed
  <2>2. Unclaimed[x] = v.amount - v.claimed /\ Unclaimed'[x] = v.amount - (v.claimed + payout)
    BY <1>4, <1>5 DEF Unclaimed
  <2>3. \A y \in Ids : Unclaimed[y] \in Int
    BY VestingFacts
  <2>4. Unclaimed'[x] \in Int
    BY <1>1, <1>2, <2>2
  <2>5. \A y \in Ids : Unclaimed[y] \in Int /\ Unclaimed'[y] \in Int
    BY <2>1, <2>3, <2>4
  <2>6. SumFunctionOnSet(Unclaimed', Ids)
           = SumFunctionOnSet(Unclaimed, Ids) + Unclaimed'[x] - Unclaimed[x]
    BY <2>1, <2>5, IdAssumption, SumChange
  <2>7. SumFunctionOnSet(Unclaimed, Ids) \in Int
    BY <2>3, IdAssumption, SumType
  <2>8. bank = lost + SumFunctionOnSet(Unclaimed, Ids) /\ lost \in Nat
    BY DEF VestingInv, BooksBalance, Unclaimed, TypeOK
  <2>9. bank' = lost' + SumFunctionOnSet(Unclaimed', Ids)
    <3> HIDE DEF v, payout
    <3> QED BY <1>1, <1>2, <1>3, <2>2, <2>6, <2>7, <2>8
  <2> QED BY <2>9 DEF BooksBalance, Unclaimed
<1> QED BY <1>8, <1>9, <1>10, <1>11 DEF VestingInv

LEMMA TickNext ==
    ASSUME VestingInv, Tick  PROVE VestingInv'
<1> USE DEF Tick
<1>1. TypeOK' /\ now \in Nat /\ now' = now + 1 /\ vestings' = vestings
  BY DEF VestingInv, TypeOK
<1>2. AddsUp'
  BY DEF VestingInv, AddsUp
<1>3. ClaimedWasReleased'
  <2>1. ASSUME NEW id \in Ids
        PROVE  /\ vestings[id].claimed <= Released(vestings[id], now')
               /\ Released(vestings[id], now') <= vestings[id].amount
    <3>1. vestings[id] \in VestingType /\ vestings[id].claimed \in Nat
          /\ vestings[id].claimed <= Released(vestings[id], now)
      BY VestingFacts
    <3>2. now' \in Nat /\ now <= now'
      BY <1>1
    <3>3. /\ Released(vestings[id], now) <= Released(vestings[id], now')
          /\ Released(vestings[id], now) \in Nat /\ Released(vestings[id], now') \in Nat
      BY <1>1, <3>1, <3>2, ReleasedGrows
    <3>4. TotalShare(vestings[id].schedule) <= FeeBasisPoint
      BY DEF VestingInv, AddsUp
    <3>5. Released(vestings[id], now') <= vestings[id].amount
      BY <3>1, <3>2, <3>4, ReleasedBounded
    <3> QED BY <3>1, <3>3, <3>5
  <2> QED BY <1>1, <2>1 DEF ClaimedWasReleased
<1>4. BooksBalance'
  BY DEF VestingInv, BooksBalance
<1> QED BY <1>1, <1>2, <1>3, <1>4 DEF VestingInv

\* Steps that leave the tokens, the vestings and the clock alone.
LEMMA OtherNext ==
    ASSUME VestingInv, TypeOK', UNCHANGED <<vestings, bank, lost, now>>
    PROVE  VestingInv'
BY DEF VestingInv, AddsUp, ClaimedWasReleased, BooksBalance

LEMMA InitVesting == Init => VestingInv
<1> SUFFICES ASSUME Init PROVE VestingInv
  OBVIOUS
<1> USE DEF Init
<1>1. NoVesting \in VestingType /\ NoVesting.claimed = 0 /\ NoVesting.amount = 0
  BY DEF NoVesting, VestingType
<1>2. TypeOK
  BY <1>1, ListAssumption DEF TypeOK
<1>3. DOMAIN NoVesting.schedule = {}
  BY DEF NoVesting
<1>4. TotalShare(NoVesting.schedule) = 0
  BY <1>3, SumEmpty DEF TotalShare
<1>5. AddsUp
  BY <1>4 DEF AddsUp, FeeBasisPoint
<1>6. Released(NoVesting, 0) = 0
  <2>1. Due(NoVesting, 0) = {}
    BY <1>1, <1>3, DueParts
  <2> QED BY <2>1, SumEmpty DEF Released
<1>7. ClaimedWasReleased
  BY <1>1, <1>6 DEF ClaimedWasReleased
<1>8. BooksBalance
  <2>1. \A id \in Ids : Unclaimed[id] = 0
    BY <1>1 DEF Unclaimed
  <2>2. SumFunctionOnSet(Unclaimed, Ids) = 0
    BY <2>1, IdAssumption, SumZero
  <2>3. bank = lost + SumFunctionOnSet(Unclaimed, Ids)
    BY <2>2
  <2> QED BY <2>3 DEF BooksBalance, Unclaimed
<1> QED BY <1>2, <1>5, <1>7, <1>8 DEF VestingInv

LEMMA VestingNext == VestingInv /\ [Next]_vars => VestingInv'
<1> SUFFICES ASSUME VestingInv, [Next]_vars  PROVE VestingInv'
  OBVIOUS
<1>1. ASSUME NEW id \in Ids, NEW u \in Users, NEW s \in Senders,
             NEW schedule \in Schedules, NEW amount \in Amounts,
             ExecuteStartVesting(s, id, u, schedule, amount)
      PROVE  VestingInv'
  BY <1>1, StartNext
<1>2. ASSUME NEW id \in Ids, NEW u \in Users, TransferNft(id, u)
      PROVE  VestingInv'
  BY <1>2, OtherNext DEF TransferNft, VestingInv, TypeOK
<1>3. ASSUME NEW addresses \in Lists, ExecuteSetContract(addresses)
      PROVE  VestingInv'
  BY <1>3, ListAssumption, OtherNext DEF ExecuteSetContract, VestingInv, TypeOK
<1>4. ASSUME NEW id \in Ids, Claim(id)  PROVE VestingInv'
  BY <1>4, ClaimNext DEF Claim
<1>5. ASSUME NEW id \in Ids, BurnNft(id)  PROVE VestingInv'
  BY <1>5, OtherNext DEF BurnNft, VestingInv, TypeOK
<1>6. CASE Tick
  BY <1>6, TickNext
<1>7. CASE UNCHANGED vars
  BY <1>7, OtherNext DEF vars, VestingInv, TypeOK
<1> QED BY <1>1, <1>2, <1>3, <1>4, <1>5, <1>6, <1>7 DEF Next

-----------------------------------------------------------------------------
\* The theorems.

\* Whatever is started, claimed, traded or burnt: every schedule in force adds
\* up to the whole (checked by execute_start_vesting), claims follow it, and the
\* balance covers what they may still ask for.
THEOREM VestingCorrect == Spec => []VestingInv
BY InitVesting, VestingNext, PTL DEF Spec

\* Balances and what burnt tokens leave behind never go below zero
\* (execute_claim pays what is released and not claimed yet).
THEOREM TypeCorrect == Spec => []TypeOK
<1>1. VestingInv => TypeOK
  BY DEF VestingInv
<1> QED BY <1>1, VestingCorrect, PTL

\* Whatever the schedule and wherever its parts are rounded, claims do not run
\* ahead of it, nor the schedule ahead of the amount (contract.rs, execute_claim).
THEOREM ClaimedWasReleasedCorrect == Spec => []ClaimedWasReleased
<1>1. VestingInv => ClaimedWasReleased
  BY DEF VestingInv
<1> QED BY <1>1, VestingCorrect, PTL

\* However many vestings, senders and owners, the contract holds what is
\* unclaimed of all of them, so that no claim is paid from another vesting.
THEOREM BooksBalanceCorrect == Spec => []BooksBalance
<1>1. VestingInv => BooksBalance
  BY DEF VestingInv
<1> QED BY <1>1, VestingCorrect, PTL

\* Only the mint keeps a live vesting from being written over
\* (execute_start_vesting), and it does.
THEOREM VestingKeptCorrect == Spec => VestingKept
<1> DEFINE Kept == \A id \in Ids :
                      owner[id] # NoUser =>
                          \E more \in 0 .. vestings[id].amount :
                              vestings'[id] = [vestings[id] EXCEPT !.claimed = @ + more]
<1>1. ASSUME VestingInv, [Next]_vars  PROVE [Kept]_vars
  <2> SUFFICES ASSUME NEW y \in Ids, owner[y] # NoUser, ~ UNCHANGED vars
               PROVE  \E more \in 0 .. vestings[y].amount :
                         vestings'[y] = [vestings[y] EXCEPT !.claimed = @ + more]
    OBVIOUS
  <2>1. /\ vestings \in [Ids -> VestingType] /\ vestings[y] \in VestingType
        /\ vestings[y].amount \in Nat /\ vestings[y].claimed \in Nat
    BY <1>1, VestingFacts DEF VestingInv, TypeOK
  <2>2. CASE vestings'[y] = vestings[y]
    <3>1. vestings[y] = [vestings[y] EXCEPT !.claimed = @ + 0]
      BY <2>1 DEF VestingType
    <3>2. 0 \in 0 .. vestings[y].amount
      BY <2>1
    <3> QED BY <2>2, <3>1, <3>2
  <2>3. ASSUME NEW id \in Ids, NEW u \in Users, NEW s \in Senders,
               NEW schedule \in Schedules, NEW amount \in Amounts,
               ExecuteStartVesting(s, id, u, schedule, amount)
        PROVE  vestings'[y] = vestings[y]
    BY <2>1, <2>3 DEF ExecuteStartVesting, Mintable
  <2>4. ASSUME NEW id \in Ids, NEW u \in Users, ExecuteClaim(id, u), id # y
        PROVE  vestings'[y] = vestings[y]
    BY <2>1, <2>4 DEF ExecuteClaim
  <2>5. ASSUME NEW u \in Users, ExecuteClaim(y, u)
        PROVE  \E more \in 0 .. vestings[y].amount :
                  vestings'[y] = [vestings[y] EXCEPT !.claimed = @ + more]
    <3> DEFINE v == vestings[y]
               payout == Released(v, now) - v.claimed
    <3>1. vestings'[y] = [v EXCEPT !.claimed = @ + payout]
      BY <2>1, <2>5 DEF ExecuteClaim, Claimed
    <3>2. payout \in 0 .. v.amount
      <4>1. /\ v.claimed \in Nat /\ v.amount \in Nat /\ Released(v, now) \in Nat
            /\ v.claimed <= Released(v, now) /\ Released(v, now) <= v.amount
        BY <1>1, VestingFacts
      <4> QED BY <4>1
    <3> HIDE DEF payout
    <3> QED BY <3>1, <3>2
  <2>6. CASE \E id \in Ids : Claim(id)
    BY <2>2, <2>4, <2>5, <2>6 DEF Claim
  <2>7. CASE ~ \E id \in Ids : Claim(id)
    <3>1. vestings'[y] = vestings[y]
      BY <1>1, <2>3, <2>7
         DEF Next, TransferNft, ExecuteSetContract, BurnNft, Tick, vars
    <3> QED BY <2>2, <3>1
  <2> QED BY <2>6, <2>7
<1>2. Spec => [][Kept]_vars
  <2> HIDE DEF Kept
  <2> QED BY <1>1, VestingCorrect, PTL DEF Spec
<1> QED BY <1>2 DEF VestingKept
=============================================================================
