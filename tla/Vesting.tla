------------------------------ MODULE Vesting ------------------------------
(***************************************************************************)
(* The vesting contract.  A swap contract pays a buyer by starting a       *)
(* vesting: the tokens are released by a schedule of intervals and shares, *)
(* and whoever owns the NFT minted for it may claim what is due.  One      *)
(* denomination: balances of others do not interfere.                      *)
(***************************************************************************)
EXTENDS Integers, Sequences, FiniteSets, Functions, Fees

CONSTANTS
    Senders,    \* swap contracts
    Lists,      \* lists of allowed senders the admin may set
    Ids,        \* their order ids, which name the vesting and its NFT
    Users,      \* receivers and later owners
    NoUser,     \* the owner of an NFT that does not exist
    Schedules,  \* schedules a maker may have asked for
    Amounts,    \* amounts to vest
    MaxStamp,   \* the largest u64, in seconds
    MaxTime     \* bound: ticks of the clock

ASSUME UserAssumption == NoUser \notin Users
ASSUME IdAssumption == IsFiniteSet(Ids)
ASSUME ListAssumption == \A list \in Lists : list \subseteq Senders
ASSUME ScheduleAssumption ==
    Schedules \subseteq Seq([interval: Nat, share: Nat])
ASSUME NumberAssumption ==
    /\ Amounts \subseteq Nat \ {0} /\ MaxTime \in Nat /\ MaxStamp \in Nat
    /\ MaxTime <= MaxStamp

VARIABLES
    allowed,   \* Config.allowed_addresses
    vestings,  \* VESTED_TOKENS_ALL; an empty schedule where there is none
    owner,     \* owner[id]: whose the NFT is, in the cw721 contract
    settled,   \* orders the senders have settled, each of them once
    bank,      \* balance of the contract
    lost,      \* history: unclaimed tokens of records that were replaced
    now        \* block time

vars == <<allowed, vestings, owner, settled, bank, lost, now>>

VestingType ==
    [start: Nat, schedule: Schedules \cup {<<>>}, amount: Nat, claimed: Nat]
NoVesting == [start |-> 0, schedule |-> <<>>, amount |-> 0, claimed |-> 0]

TypeOK ==
    /\ allowed \subseteq Senders
    /\ vestings \in [Ids -> VestingType]
    /\ owner \in [Ids -> Users \cup {NoUser}]
    /\ settled \subseteq Senders \X Ids
    /\ bank \in Nat /\ lost \in Nat /\ now \in Nat

\* instantiate, and the reply that links the NFT contract in the same
\* transaction.
Init ==
    /\ allowed \in Lists
    /\ vestings = [id \in Ids |-> NoVesting]
    /\ owner = [id \in Ids |-> NoUser]
    /\ settled = {}
    /\ bank = 0 /\ lost = 0 /\ now = 0

-----------------------------------------------------------------------------
\* What a schedule releases.

\* The end of the i-th interval.
Stamp(v, i) ==
    v.start + SumFunctionOnSet([j \in DOMAIN v.schedule |-> v.schedule[j].interval], 1 .. i)

\* Fault: every part is rounded up.
ShareRoundedUp(v, i) ==
    (v.schedule[i].share * v.amount + FeeBasisPoint - 1) \div FeeBasisPoint
\* The part released then, rounded down.
Share(v, i) == (v.schedule[i].share * v.amount) \div FeeBasisPoint

\* Fault: the last interval is left out.
DueButLast(v, time) == {i \in 1 .. Len(v.schedule) - 1 : Stamp(v, i) <= time}
\* Intervals that have ended.  They come in order, so the loop may stop at
\* the first that has not.
Due(v, time) == {i \in 1 .. Len(v.schedule) : Stamp(v, i) <= time}

Released(v, time) ==
    SumFunctionOnSet([i \in DOMAIN v.schedule |-> Share(v, i)], Due(v, time))

\* The loop adds up the intervals that ended and the next one.  A u64
\* overflow panics, and the claim fails.
InRange(v, time) ==
    \A i \in 1 .. Len(v.schedule) :
        (\A j \in 1 .. i - 1 : j \in Due(v, time)) => Stamp(v, i) <= MaxStamp

TotalShare(schedule) ==
    SumFunctionOnSet([i \in DOMAIN schedule |-> schedule[i].share], DOMAIN schedule)

-----------------------------------------------------------------------------
\* Fault: an existing token id may be minted again.
MintableAgain(id) == TRUE
\* cw721: a token id is minted once, or again after it was burnt.
Mintable(id) == owner[id] = NoUser

\* The swap contracts send the block time as the start, nothing claimed, and
\* the tokens along with the message.  The record is saved without a look at
\* an older one: only the mint, in the same transaction, protects that.
ExecuteStartVesting(s, id, u, schedule, amount) ==
    /\ s \in allowed
    /\ <<s, id>> \notin settled
    /\ Mintable(id)
    /\ TotalShare(schedule) = FeeBasisPoint
    /\ vestings' = [vestings EXCEPT ![id] =
          [start |-> now, schedule |-> schedule, amount |-> amount, claimed |-> 0]]
    /\ owner' = [owner EXCEPT ![id] = u]
    /\ settled' = settled \cup {<<s, id>>}
    /\ bank' = bank + amount
    /\ lost' = lost + vestings[id].amount - vestings[id].claimed
    /\ UNCHANGED <<allowed, now>>

ExecuteSetContract(addresses) ==
    /\ addresses # allowed
    /\ allowed' = addresses
    /\ UNCHANGED <<vestings, owner, settled, bank, lost, now>>

\* Fault: the amount last paid is recorded, not the total.
ClaimedLast(v, payout) == [v EXCEPT !.claimed = payout]
Claimed(v, payout) == [v EXCEPT !.claimed = @ + payout]

\* Before the start time a claim succeeds and changes nothing; no vesting the
\* swap contracts start is that early.
ExecuteClaim(id, u) ==
    LET v == vestings[id]
        payout == Released(v, now) - v.claimed
    IN  /\ owner[id] = u
        /\ InRange(v, now)
        /\ payout > 0
        /\ bank >= payout
        /\ bank' = bank - payout
        /\ vestings' = [vestings EXCEPT ![id] = Claimed(v, payout)]
        /\ UNCHANGED <<allowed, owner, settled, lost, now>>

-----------------------------------------------------------------------------
\* The NFT contract: its owner may transfer a token, or burn it.
TransferNft(id, u) ==
    /\ owner[id] \notin {NoUser, u}
    /\ owner' = [owner EXCEPT ![id] = u]
    /\ UNCHANGED <<allowed, vestings, settled, bank, lost, now>>

BurnNft(id) ==
    /\ owner[id] # NoUser
    /\ owner' = [owner EXCEPT ![id] = NoUser]
    /\ UNCHANGED <<allowed, vestings, settled, bank, lost, now>>

Tick ==
    /\ now < MaxTime
    /\ now' = now + 1
    /\ UNCHANGED <<allowed, vestings, owner, settled, bank, lost>>

Claim(id) == \E u \in Users : ExecuteClaim(id, u)

Next ==
    \/ \E id \in Ids, u \in Users :
          \/ \E s \in Senders, schedule \in Schedules, amount \in Amounts :
                ExecuteStartVesting(s, id, u, schedule, amount)
          \/ TransferNft(id, u)
    \/ \E addresses \in Lists : ExecuteSetContract(addresses)
    \/ \E id \in Ids : Claim(id) \/ BurnNft(id)
    \/ Tick

\* Time passes, and owners go on claiming what they can.
Spec == Init /\ [][Next]_vars
FairSpec == Spec /\ WF_vars(Tick) /\ \A id \in Ids : WF_vars(Claim(id))

-----------------------------------------------------------------------------
\* No claim runs ahead of its schedule, nor the schedule ahead of the amount.
ClaimedWasReleased ==
    \A id \in Ids :
        LET v == vestings[id]
        IN  v.claimed <= Released(v, now) /\ Released(v, now) <= v.amount

\* The contract holds what was not claimed of every vesting, so that a claim
\* is never paid from another one; what a burnt token left is in it for ever.
BooksBalance ==
    bank = lost + SumFunctionOnSet([id \in Ids |-> vestings[id].amount - vestings[id].claimed],
                                   Ids)

\* As long as the NFT exists its vesting is not replaced, whoever owns it and
\* however many contracts use the same ids; only the claimed amount grows.
VestingKept ==
    [][\A id \in Ids :
        owner[id] # NoUser =>
            \E more \in 0 .. vestings[id].amount :
                vestings'[id] = [vestings[id] EXCEPT !.claimed = @ + more]]_vars

\* All the intervals end before the clock of the model does.
Ends(v) == Stamp(v, Len(v.schedule)) <= MaxTime

\* What rounding leaves behind is less than one unit per interval: everything
\* else is claimed by the owners sooner or later.
AllClaimed ==
    \A id \in Ids :
        owner[id] # NoUser ~>
            \/ owner[id] = NoUser \/ ~Ends(vestings[id])
            \/ vestings[id].amount - vestings[id].claimed < Len(vestings[id].schedule)
=============================================================================
