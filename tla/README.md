# Verification of the atomic swap contracts

TLA+ modules, TLC configurations and TLAPS proofs about the CosmWasm contracts
in `src/contracts`: the inter-chain atomic swap (two instances of one contract
talking over IBC), the in-chain atomic swap, and the vesting contract.
Sections: the system, the modules, the runs, the proofs, what is left out, the
plan.

## 1. The system

### Components

| component | source | state it keeps | operations |
|---|---|---|---|
| inter-chain swap: swap messages | `interchain-atomic-swap/src/contract.rs`, `atomic_swap_handler.rs` | the order record on the home (maker) chain and its mirror on the away (taker) chain: list, status, taker | `execute_make_swap`, `execute_take_swap`, `execute_cancel_swap`; `on_received_*`; `on_packet_success`; `refund_packet_token` |
| inter-chain swap: bids | the same files | one record per (order, bidder) on each chain: status, amount, expiration | `execute_make_bid`, `_take_bid`, `_cancel_bid`, `_update_bid`; their receipts, acknowledgements, refunds |
| IBC entry points | `ibc.rs` | the open channels | handshake, `ibc_packet_receive`, `_ack`, `_timeout`; closing panics |
| order store | `state.rs` | `SWAP_ORDERS`, `INACTIVE_SWAP_ORDERS`, `ORDER_TO_COUNT`, two counters, `bids()` | append, get, set, move to the inactive list |
| fees and payouts | `utils.rs` | `FEE_INFO` | `maker_fee`, `taker_fee`, `send_tokens` |
| ids, paths, decoding | `utils.rs`, `msg.rs` | `SWAP_SEQUENCE` | `generate_order_id`, `order_path`, `decode_*` |
| market switch | `contract.rs` | `CONFIG.state` | pause, unpause; asked for by `execute_update_bid` only |
| lists of orders | `contract.rs`, `query_reverse.rs`, the same in both swap contracts | none | twelve paginated lists: active or inactive, upwards or downwards, all or by maker, taker or desired taker |
| lists of bids | `contract.rs`, `state.rs`, the same in both swap contracts | the bid indexes | by amount or time received, upwards or downwards; by bidder |
| in-chain swap | `inchain-atomic-swap/src` | orders, bids, fees on one chain | `execute_make_swap`, `_take_swap`, `_cancel_swap`, `_make_bid`, `_take_bid`, `_update_bid`, `_cancel_bid`, market switch |
| vesting | `vesting/src` | one vesting per order id (`VESTED_TOKENS_ALL`), the allowed senders; a cw721 contract keeps the owners | `execute_start_vesting`, `execute_claim`, `execute_set_contract` |

### How they interact

A maker on the home chain locks the sell tokens in the contract's account and
sends `MakeSwap`; the away chain mirrors the order. From then on the away chain
decides who may buy and whether the order is cancelled, and the home chain
decides whether a sale goes through:

```
 MakeSwap    home: lock tokens      -> away: mirror       -> home: Sync | refund
 TakeSwap    away: lock tokens,     -> home: deliver,     -> away: pay the maker, close
             lock the order            close | refuse               | refund, unlock
 CancelSwap  home: nothing          -> away: cancel|refuse -> home: refund the maker | nothing
 MakeBid     away: lock, record     -> home: record       -> away: Placed | refund, Failed
 TakeBid     away: nothing          -> home: deliver,     -> away: pay the maker, close | nothing
                                       close | refuse
 CancelBid   away: nothing          -> home: Cancelled    -> away: refund, Cancelled | nothing
 UpdateBid   away: lock addition    -> home: add          -> away: add | refund the addition
```

The third column is the acknowledgement, or a timeout, handled by the sender.
Nothing but packets passes between the chains; all orders and bids of a chain
share one bank account.

The in-chain contract settles the same requests in one transaction each, and its
orders and bids share one account too. Either contract pays a buyer of an order
with a release schedule by calling the vesting contract in the transaction of
the sale; if that fails the sale is undone. The vesting contract mints an NFT
whose id is the order id, and pays claims to whoever owns it.

### What is hard, and what makes each component correct

* **Crossing messages.** Takes, bids and cancellations of an order cross on the
  wire, and the acknowledgements arrive in any order. Correct: an order is
  delivered at most once, sold or returned but not both, a cancellation is
  final, the lock of a taker is not stolen.
* **Late acknowledgements.** The handler of an acknowledgement writes what the
  answer says over a record that has moved on (`Sync` over `Cancel`, `Placed`
  over `Cancelled`), or no longer finds the order. Correct: a refund or a
  payment is due once and can always be made.
* **Shared account.** A payout too many is paid from somebody else's tokens and
  nothing fails at once. Correct: the books balance.
* **Partial failure.** An `Err` in a receipt handler becomes an acknowledgement
  and keeps earlier writes; a panic or a failed submessage undoes them all; an
  `Err` in an acknowledgement handler leaves the packet pending. Correct: both
  chains still agree.
* **Calls out of order.** In one transaction nothing interleaves, but bids are
  made, raised, cancelled and made again around a sale or a cancellation of
  their order. Correct: sell tokens go out once, every stake is held or was
  spent, a sold order is final.
* **Rounding and time.** A vesting is paid in parts that are rounded down, at
  any time, to changing owners. Correct: claims do not run ahead of the
  schedule, the balance covers every vesting, only the rounding stays behind.
* **Reading in pages.** A client goes from page to page while orders are moved
  between the lists and bids are raised, each page starting from where the last
  one ended. Correct: what stays is seen once, whatever is done meanwhile.
* **Two lists, two counters, an index.** Every change of an order writes several
  of them. Correct: they agree, and together they are one record per order.
* **Relaying.** Nobody in particular relays. Correct: with some relayer, a lock
  is resolved, a delivery paid, a cancellation refunded.

`PROJECT.json` lists each hazard at its line with the properties that cover it.

## 2. The modules

| module | content |
|---|---|
| `Fees` | fee rounding (`FeeOf`, `NetOf`) and when the two payouts can be made (`Payable`) |
| `SwapState` | constants and their assumptions, variables, records, `Init`, the order store, bank, IBC, clock, market switch, handshake |
| `SwapHandlers` | the fourteen actions of MakeSwap, TakeSwap, CancelSwap |
| `BidHandlers` | the nineteen actions of MakeBid, TakeBid, CancelBid, UpdateBid |
| `InterchainSwap` | `Next`, `Spec`, `FairSpec`, and the properties of the contract |
| `SwapInvariants` | the invariants behind those properties, as conjunctions of named parts |
| `CarefulClients` | the system restricted to clients that follow a discipline; properties that need it |
| `Claims` | what comments of the code say and the code does not keep |
| `AtomicSwap` | abstract specification: what maker and buyer are promised of an order without bids, with no chain or packet in sight |
| `AtomicAuction` | abstract specification of an order with bids: tokens put in and taken out, one sale for a price in escrow, one payment |
| `SwapRefinement` | the mappings under which `InterchainSwap` implements `AtomicSwap`, and with careful clients `AtomicAuction` |
| `InchainSwap` | the in-chain contract: nine handlers, records, a balance per denomination, its properties |
| `Vesting` | the vesting contract, with transfer and burning of the NFTs |
| `OrderBook` | the order store as the code keeps it: two lists, their counters, the index from ids to places, and the handlers as far as they change them |
| `OrderStore` | abstract specification: one record per order, which is what `SwapState` builds on |
| `OrderQueries` | the lists of orders over `OrderBook`, and a client that reads one page by page; refines `OrderStore` |
| `BidQueries` | the lists of bids over `InchainSwap`, and a client that does the same |
| `MCInterchainSwap`, `MCInchainSwap`, `MCBidQueries`, `MCOrderQueries`, `MCVesting` | orders, schedules and bounds for TLC |
| `SumTheorems` | first members of finite sets, and what sums over them satisfy |
| `InterchainSwap_proofs`, `Atomicity_proofs`, `CarefulClients_proofs`, `SwapRefinement_proofs` | theorems about the inter-chain swap |
| `InchainSwap_proofs`, `OrderQueries_proofs`, `Vesting_proofs` | theorems about the in-chain swap, the order store and its lists, the vesting contract |

### State of the inter-chain swap

| variable | code |
|---|---|
| `native[o]`, `remote[o]` | the `AtomicSwapOrder` of `o` on its home and its away chain. `loc` says whether it is in no list, in `SWAP_ORDERS` or in `INACTIVE_SWAP_ORDERS`; `get_atomic_order` succeeds for the second only (`Found`) |
| `nativeBids[o][u]`, `remoteBids[o][u]` | the `Bid` of `u` on `o` on the two chains |
| `packets` | packets sent whose sender has not finished with them: `sent`, or received and answered `ok` or `err` |
| `sent[o]` | how many packets about `o` were sent; numbers them, and bounds them |
| `bank[c]` | tokens in the contract's account on `c` |
| `channelInfo`, `market`, `now` | `CHANNEL_INFO`, `CONFIG.state`, block time |
| `ledger[o]` | history, not in the code: deliveries, refunds and payments of `o`, and what each user put in and did not get back |

### State of the in-chain swap and of the vesting contract

| variable | code |
|---|---|
| `orders[o]`, `bids[o][u]` | the records of an order and of a bid; `loc` as above |
| `bank[d]`, `market`, `now` | the account, per denomination; `CONFIG.state`; block time |
| `ledger[o]` | history: payouts of the sell tokens, and what each bidder put in and did not get back |
| `vestings[id]`, `allowed` | `VESTED_TOKENS_ALL`, `allowed_addresses` |
| `owner[id]` | external: the owner in the cw721 contract, asked by a claim |
| `settled`, `lost` | orders the senders have sold, each of them once; history of what burnt NFTs left unclaimed |

### State of the order store and of the scans

| variable | code |
|---|---|
| `swapOrders`, `count`, `inactiveOrders`, `inactiveCount` | `SWAP_ORDERS`, `COUNT`, `INACTIVE_SWAP_ORDERS`, `INACTIVE_COUNT`: the lists are functions from places to records, with gaps where an order was removed |
| `orderToCount`, `swapSequence` | `ORDER_TO_COUNT`, `SWAP_SEQUENCE` |
| `announced` | external: ids whose MakeSwap has arrived, which IBC delivers once |
| `scan` | external: a client that reads a list page by page, what it asked for and has seen, and the entries that were there all along |

`OrderBook` keeps of each handler what changes the store: an append
(`execute_make_swap`, `on_received_make`), a change in place (lock, unlock), a
move to the inactive list (a sale). `OrderStore` is what the handlers take this
to be, one record per order that is in no list, active or inactive;
`SwapState`, `InchainSwap` and their `loc` are written in those terms. The
refinement (`StoreKept`) is what justifies that. The in-chain contract has the
same `state.rs`, the same lists of orders and the same `query_reverse.rs`, line
for line, so one model stands for both.

`BidQueries` adds the client to `InchainSwap` itself, so that bids are made,
raised, cancelled and taken by the handlers while it reads.

### Actions

One action per handler and outcome; `PROJECT.json` "map" gives the lines. A
packet action consumes or answers the packet in the same step as the handler's
writes. The outcomes follow the rules of the chain:

* a request handler that returns `Err` changes nothing, so its checks are guards;
* a receipt handler that returns `Err` answers `err` and keeps what it wrote
  before (`RefuseTakeBidLate`); one that panics, or whose submessage fails,
  answers `err` and keeps nothing (`RefuseTake`, `RefuseTakeBid`; the vesting
  contract may fail whenever an order pays out by vesting);
* an acknowledgement or timeout handler that returns `Err` leaves the packet
  pending, so its checks are guards and the step can be retried;
* a message of the in-chain or of the vesting contract that fails changes
  nothing, with all submessages: every check is a guard, the mint of the NFT
  among them;
* a packet is received at most once; a timeout only happens if it was not
  received, at any time (block time at the receiver is not compared with the
  packet's timeout: any late packet may time out).

`AtomicSwap` maps as follows: the phase of an order is read off the payouts (`paid`,
`delivered`, `refunded` of `ledger`) and off whether it was made, its buyer is
the taker in the mirror. MakeSwap is `Escrow`, TakeSwap `Enter`, its refund `Leave`, the delivery
on the home chain `Sell`, the payment on the away chain `Pay`, a refund to the
maker `Return`; all other steps change nothing it speaks of.
`AtomicAuction` has the same phases; `stake` is what the ledger holds of each
user, `buyer` the taker in the home chain's record, and `due` the price of a sale
that the maker has not got yet: the order's if the mirror is locked, else what
the bid of the buyer says. Takes, bids and additions are `PutIn`, every refund of
them `TakeOut`. It says more than the invariants about a sale under way: from the
delivery to the payment nobody puts anything in or takes anything out, and what
is paid in the end is what was in escrow at the start.

Operators commented `Fault:` are not part of the model. Each is a plausible
wrong version of the definition after it, kept to show that the property
checked for that definition notices.

### Assumptions

In the inter-chain model the account on a chain holds one token (what all orders trade in on that chain),
so that a payout from the wrong order is possible as in the code where orders
share a denomination; the bank rejects uncovered and empty transfers. The taker's
sending and receiving address are one user, and the maker likewise. A user may
have given an address to receive at that is no address of the home chain
(`BadReceivers`): nobody looks at it before the sale, where `addr_validate`
refuses it, before anything is written for a take
(`atomic_swap_handler.rs:145`), after the bid was saved for a bid (`:285`). The
maker's address on the away chain is taken to be valid. Nobody looks at that one
either when the order is made, and if it is not, the acknowledgement of a
TakeSwap fails for ever (`:440-442`): the order stays locked and the maker
unpaid, so `LockResolved` and `DeliveryIsPaid` are about makers with a valid one.
(A bid can be taken only from that very address, `contract.rs:450`.) Channel
ids differ at the two ends, and messages about an order use its own channel.
Amounts are far from 2^128. `Reserve` stands for tokens of orders outside the
model, which is what wrong payouts are made from. Order ids are unique, as the
sequence number in them makes them; in `OrderBook` they are numbered as the code
does it, per path, and `KnownIsOld` says that none is used twice.
The vesting model has one denomination (the contract looks at no balance, only
the bank does) and the vestings the swap contracts start: from the block time,
nothing claimed, once per order.

## 3. The runs

The runs of the inter-chain swap use `MCInterchainSwap`, two chains and two
users, three in `bids`. Clock values matter only against expirations, which a
handler compares with the clock of its own chain, so one tick passes one: in
`swaps` on the away chain of the order that expires at 0, in `bids` on the away
chain (takes, and requests of bidders, too late), in `careful_bids` on the home
chain (additions that arrive too late). `CHECK_DEADLOCK FALSE` there and in `vesting`: once all orders are
closed and the bounds used up nothing is left to do, and that is not an error.
The runs with a client (`inchain_any`, `order_queries`) end when it has read the
last page. The in-chain contract by itself can always pause, so `inchain_swap`
checks deadlock. No symmetry:
the second user differs from the first where `desired` names one.

| run | instance | shows |
|---|---|---|
| `swaps` | two plain orders in opposite directions, three packets each, an empty reserve | each order is sold or returned once and not both, locks and packets match, the contract holds exactly what is unsettled; `PlainInv` is the invariant these follow from; the two chains implement `AtomicSwap` (`AtomicSwapKept`); with fair relaying a lock is resolved, a delivery paid, a cancellation refunded |
| `bids` | one auctioned order, three buyers, one of them with a bad receiving address, five packets, reserve, market switch and one tick on the away chain, where bids are made and raised | whatever bidders do, the sale itself is settled once, home first, and its records freeze; `SettlementInv` and `CancelInv` are inductive invariants |
| `careful_bids` | an auction of five packets and one reserved for `u1` of three | with the discipline of `CarefulClients`, every stake is refunded or paid once and in full, the accounts hold exactly what is open and staked (`BooksBalanceAll`), the chains agree on placed bids (`PlacedBidsAgree`), no bid is raised past the price (`PriceCaps`), whatever a message in flight may ask for is in the account (`PayoutsCovered`), and the two chains implement `AtomicAuction` (`AuctionKept`) |
| `inchain_any` | one auction with two bidders, any calls, and a client that reads one of the five lists of bids in pages of one or two | no balance is overdrawn, a sold order, its bids and its accounts are final, losing bids included; the client misses no bid that stays placed and sees none twice, unless it was raised |
| `inchain_swap` | an auction, and a reserved order that sells what the auction buys; two ticks; `CarefulSpec` | sell tokens go out once, stakes are held or were spent, every balance is the sum of what is open |
| `order_queries` | two orders made here, one mirrored, pages of one or two, all four filters | lists, counters and index agree and implement `OrderStore`; every list of active orders can be had, and what it names is found; a client sees every order that stays exactly once |
| `vesting` | two senders with the same two order ids, two owners, seven units in thirds, a schedule that does not add up, one that overflows | claims follow the schedule, the balance covers all vestings, a vesting is not replaced while its NFT lives, owners who go on claiming get all but the rounding |
| `double_refund`, `stranded_bid`, `stuck_refund`, `sold_after_cancel` | one auctioned order, no clock | each a comment of the code that does not hold, see below |
| `inactive_lists` | as `order_queries` | the same, of the lists of inactive orders |

Bounds. Three packets about an order are its creation and two that cross (two
takes, a take and a cancellation, two cancellations), and the second can follow
the refusal of the first. The
auction needs five: creation, two bids, and two requests that cross. A further
packet repeats one of these against a record already in the same state. The
empty reserve in `swaps` makes a payout too many impossible to hide: it either
breaks `BooksBalance` or blocks a step. Fees are one percent of small amounts
and round up to one unit, the least the code charges.

In `inchain_*` two bid amounts, one of them below the minimum, and one addition
reach the cap of the auction; bids are not limited in number, as a bid must be
cancelled before the next. Two ticks in `inchain_swap` pass both expirations
there; in `inchain_any` the order expires at 0 and one tick passes that. There
is one order in it, because the scan multiplies the
states: the list by bidder then has one entry, the other four have two and so
two pages. In `order_queries` three orders give a list with a gap in the middle
(the second is sold), pages of one (`DefaultLimit`) and of two (`MaxLimit`, also
the answer to a request for three), and a filter that matches some of them. In
`vesting` each sender sells each order once; seven units do not divide by three,
and two of the thirds are due together, so one claim pays two parts and rounds
twice. `MaxStamp` is the width of the clock, small so that a schedule overflows.

Where there is disagreement with a comment, the run is expected to be violated:

* `double_refund`: `contract.rs:492-493` "Bid maker can cancel their bid / After
  cancellation amount is refunded". A second CancelBid is refunded again, as no
  handler looks at the status of the bid.
* `stranded_bid`: same comment. After the order is sold to another buyer, a
  placed bid cannot be cancelled: its order is not among the active ones.
* `stuck_refund`: `ibc.rs:113` "return fund to original sender". If a TakeBid
  wins against a TakeSwap and is acknowledged first, the refund of the TakeSwap
  does not find its order.
* `sold_after_cancel`: `state.rs:42` "cancelled". Taking a bid does not look at
  the status of the order, so a cancelled and refunded order can be sold.
* `inactive_lists`: `msg.rs:310` "Inactive fields query". The lists of inactive
  orders end by looking up the index entry that `move_order_to_bottom` removed
  (`contract.rs:1136`, `state.rs:166`): they fail whenever they would not be
  empty.

`CarefulClients` is the other half of the first four: requests that end an order
wait until nothing about it is in flight, a bidder asks one thing at a time,
only placed bids are cancelled, no bid of a cancelled order is taken, nor one
whose bidder the home chain refuses. The code
does not enforce it; the run shows, and `CarefulClients_proofs` proves, that it
is enough. The last clause is there for `PlacedBidsAgree`: `on_received_take_bid`
saves the bid as executed before it looks at the bidder (lines 281-285), so
without the clause the home chain would keep as executed a bid that is still
placed on the away chain. The run `bids` takes that step
(`RefuseTakeBidLate`), for a bidder with a bad address; no text of
the repository promises that the two records agree, so it is not reported as a
finding. `CarefulSpec` of
`InchainSwap` does the same for the in-chain contract: its `execute_take_bid`
does not look at the status of the order and its `execute_cancel_bid` not at the
status of the bid (`contract.rs:449`, `:623`). The comments are the same and the
runs above show what follows, so no run repeats it there. That holds of
`stranded_bid` too: `SoldIsFinal` says of the in-chain contract that a sale
freezes the bids that lost, which is not what its comment "Bid maker can cancel
their bid" (`contract.rs:597-598`) promises. It is stated as the code has it,
for what it says of the order, the winning bid and the accounts.

### Fairness

`FairSpec` of `InterchainSwap` asks weak fairness of relaying, for each order and packet number: if
some handler could go on accepting the packet, some relay step with it is
eventually taken. IBC relaying is permissionless and a step that failed can be
tried again, which is why the code can be said to justify this; it does not say
which of a delivery and a timeout wins. Nothing is assumed of users, and
nothing of clocks. The properties carry `Payable`: the fee is never below one
unit (`utils.rs:154-193`), so an order for a single unit leaves nothing to pay,
the bank refuses the empty transfer and the acknowledgement fails for ever; so
it does if the maker's address is not valid (section 2, assumptions).

`FairSpec` of `Vesting` asks that time passes and that an owner who can claim
sooner or later does, which is up to the owner: `AllClaimed` says what the code
gives to one who does. It speaks of schedules that end within the clock of the
model (`Ends`); the overflowing one is excluded by that, and `InRange` shows its
claims failing.

## 4. The proofs

The theorems hold for any chains, orders, users, offers, fees and bounds that
satisfy the `ASSUME`s of `SwapState` (offers are well formed with different home and away
chains, `NoUser` and `AnyTaker` are not users, amounts are positive naturals,
fees and bounds naturals, orders and users are finitely many), and for the other
contracts the same of `InchainSwap`, `OrderBook`, `OrderQueries` and `Vesting`.
Finiteness is needed only where tokens are added up.

### Inter-chain swap

Four modules, each resting on the ones before it; `SwapInvariants` holds the
invariants, and TLC checks them as well (runs `swaps` and `bids`).

* `InterchainSwap_proofs`: **TypeCorrect**, `Spec => []TypeOK`. Typing includes
  that no account is overdrawn and that takes and bids name a buyer. One lemma
  per handler group, one case per handler.
  Then **SettlementCorrect**, `Spec => []SettlementInv`, for all
  orders and whatever bidders do. The properties of a sale are not inductive:
  that the home chain delivers once says nothing of the acknowledgement that
  tells the away chain to pay. The invariant follows a sale through its stages:
  nothing exists before the order (`NothingBefore`), one packet announces it
  (`AnnouncedOnce`), an acknowledged purchase is the one the home chain closed
  the order with (`AgreedSale`), both sides are closed alike (`ClosedAlike`),
  and a side is closed exactly if it paid (`PaidMeansInactive`). Only four kinds
  of steps touch it, and `StepShapes` sorts the 33 handlers into these and the
  quiet ones. From it: **DeliveredOnceCorrect**, **PaidForDeliveryCorrect**,
  **SettledHomeFirstCorrect**, **InactiveFrozenCorrect**.
* `Atomicity_proofs`: **CancelCorrect**, `Spec => []CancelInv`, on top of
  `SettlementInv`. `RefundedOnce` needs to know that the away chain agrees to
  one cancellation (`AgreedCancel`), that only an order nobody locked is
  cancelled (`CancelledIsFree`), that there is one TakeSwap, of the one who
  locked the order (`TakeHoldsLock`), and that a refund made because the order
  was not mirrored excludes a mirror later (`RefundHasReason`,
  `AnnouncedUnrefunded`). From it: **RefundedOnceCorrect**.
  Then **PlainCorrect**, `Spec => []PlainInv`, for orders without bids: a lock has
  its TakeSwap and can be released (`LockHasTake`), and nobody is sold to but the
  one who locked the order (`SoldToTaker`). From the three
  invariants together: **SoldOrReturnedCorrect**, **CancelIsFinalCorrect**,
  **TakeRefundableCorrect**, **HeldWhileLockedCorrect**,
  **LockHasPacketCorrect**, **LockNotStolenCorrect**.
* `CarefulClients_proofs`: **TalkCorrect**, `CarefulSpec => []TalkInv`, for orders
  with bids. The stakes alone are not inductive: what a refund pays is what the
  record says when the answer comes, so the record must not have changed since
  the question. That is what the discipline gives: no two packets in flight
  conflict (`OneTalk`). A step belongs to one packet and disturbs no bid and no
  order but those the packet is about (`Focused`, `FocusKeeps`), so each action is
  a claim about one bid: what its packet knows of the two records (`BidTalk`,
  `Agreement`), of the order (`SaleTalk`), and that stake, additions in flight and
  lock add up to what is held (`Staked`). From it **StakesHeldCorrect**,
  **PriceCapsCorrect** and **PlacedBidsAgreeCorrect** (while nothing about a bid is in
  flight, the two records of it differ only once it is no longer placed); with `SettlementInv` and
  `CancelInv`, **SoldOrReturnedAllCorrect**: an order that is being bought was not
  refunded, and a refund finds the order unsold.
  The books come in two parts. **AccountsCorrect**, `Spec => []Accounts`, needs no
  discipline: an account is its reserve, what the history says is left of the
  orders made there (`HomeRest`, below zero if an order was sold and returned),
  and what users put in and did not get back or spend (`held`). Each handler
  changes one summand by what it adds to the account (`HomeMoves`, `AwayMoves`).
  The discipline then says what the summands are, by `SoldOrReturnedAll` and
  `StakesHeld`, which is **BooksBalanceAllCorrect**. A sum of amounts is at least
  each of them (`SumCovers`), and what finishing with a message pays out is one of
  the stakes (`DueStaked`) or the sell tokens of an order not yet settled
  (`ReleasedUnsettled`); so no payout is refused because somebody else's came
  first: **PayoutsCoveredCorrect**.
* `SwapRefinement_proofs`: **AtomicSwapKeptCorrect**, `Spec => AtomicSwapKept`.
  The phase and the buyer of an order before and after a step say which of the
  steps of `AtomicSwap` it is (`Moved`); each handler is shown to be one of them
  for its order and to leave the others alone. On top of that
  **BooksBalanceCorrect**, `Spec => []BooksBalance`: a handler that moves tokens
  changes what exactly one order has in one account by as much (`HomeGains`,
  `AwayGains`), so that the sum over all orders follows (`SumsFollow`); the
  invariants of the other modules say that a handler never pays out what is not
  there any more.
  **AuctionKeptCorrect**, `CarefulSpec => AuctionKept`, is the refinement of
  `AtomicAuction`. What is added to the invariants above is `SaleInv`
  (**SaleCorrect**): a sale that the away chain has not paid has its answer in
  flight, and by `OneTalk` nothing else about the order then is, so neither the
  bid nor the price can move before the payment (`UnsoldBefore`). Each handler is
  then a deal with one order (`Dealt`) or changes nothing (`AllStays`): what it
  takes out is there (`DueHeld`), and what a purchase is worth is the same when it
  is made and when it is paid (`SaleDue`).

### In-chain swap

`InchainSwap_proofs`, for any denominations, orders, users, offers, fees and
bounds:

* **TypeCorrect** and **SoldIsFinalCorrect** for `Spec`, that is, whatever
  callers do. The second needs that a completed order is in the inactive list
  (`CompletedAway`), where no handler finds it.
* **AccountsCorrect**, `CarefulSpec => []AccountInv`: the history agrees with
  the records, order by order and bidder by bidder. From it
  **SoldOrReturnedCorrect** and **StakesHeldCorrect**, for careful callers.
* **BooksBalanceCorrect**, `CarefulSpec => []BooksBalance`, for each
  denomination and any number of orders and bidders that share it: a handler
  changes what one order has for sale and what one bidder has staked by what it
  adds to the balance.
* **BidScanFaithfulCorrect**, `ScanSpec => []BidScanFaithful`, whatever callers do.
  The invariant (`ScanInv`) says of each bid that was placed all along that the
  client has been given it if and only if the pages have gone past it, unless it
  was raised and the list is by amount. A page holds the first bids of a strict
  total order (`BidOrderFacts`: no two keys of an index are equal), so it has a
  last one and everything placed up to that is in it (`FirstBidsFacts`,
  `LastBidFacts`). Handlers leave a bid that stays where it is, or raise it
  (`PlacedBidMoves`), and a raised bid moves up (`RaisedKey`).

### Order store and its lists

`OrderQueries_proofs`, for any paths, offers, limits and filters:

* **BookAgreesCorrect** and **TypeCorrect**: `BookInv`, typing and agreement of
  the lists, the counters and the index, is inductive as it stands. Handlers are
  appends, changes and moves; an append takes a place and an id that were never
  used (`KnownIsOld`), a move frees one place and takes one.
* **StoreKeptCorrect**, `Spec => StoreKept`: the refinement of `OrderStore`.
* **ListsAnswerCorrect**, for the lists of active orders: what a page lists is
  found by its id, and the place it ends with is the place the index gives, so
  the offset of a page is where it ended.
* **ScanFaithfulCorrect**: the client has seen exactly what stays and lies behind
  its cursor (`ScanInv`), because a new order goes to the end of the list and
  nothing else moves.

### Vesting

`Vesting_proofs`: **VestingCorrect**, `Spec => []VestingInv`. What the schedule
has released grows with time and never exceeds the amount, because its shares
are checked to add up when a vesting starts (`AddsUp`) and each part is rounded
down. From it **TypeCorrect**, **ClaimedWasReleasedCorrect**,
**BooksBalanceCorrect** and **VestingKeptCorrect**.

### Sums

`SumTheorems` proves that a finite set has a first member in any strict order
(`FirstExists`), and what the books and the schedules need of the community
operator `SumFunctionOnSet`: it is the recursion over the set (`SumStep`), any
member may be taken out first (`SumAt`), it is monotone, scales, and changes by
what one summand changes (`SumChange`). Each is shown by taking a smallest
subset that is a counterexample (`SmallestBad`, from the well-foundedness of
proper inclusion between finite sets) instead of by an induction theorem, whose
operator parameter the provers cannot instantiate.

Only model-checked: liveness (`LockResolved`, `DeliveryIsPaid`,
`CancelIsRefunded`, `AllClaimed`), as fairness is out of the prover's reach.
The proofs assume nothing but the `ASSUME`s; that callers are careful is in the
specification a theorem names, where it is needed.

### What the models of the lists say of the code

* `limit` comes before the filter (`contract.rs:882-887`): a page of a filtered
  list may be empty although later orders match, and a client that stops there
  misses them. `AllVisited` is that condition in `ScanFaithful`.
* With the order `desc`, `start_after` still is the lower bound
  (`contract.rs:837-855`): the next page of a descending list is the same page
  again. `query_list_reverse` is the one to page downwards with.
* The lists of inactive orders fail whenever they would not be empty (run
  `inactive_lists`); `ListsAnswer` is about the lists of active ones.
* Orders that were cancelled, or never mirrored, stay in the list of active ones
  for ever (only a sale moves an order), which the queries commented "Show all
  open swaps" (`msg.rs:250`) list with their status.
* By amount, a bid that is raised between two pages may be seen twice upwards
  and missed downwards; by time, and by bidder, no bid moves.

## 5. Not modelled

* The hash and the JSON of ids and packets (`utils.rs`): an id is the path and
  the number it is made of, a packet its fields. A channel
  with the same id on both chains would make `extract_source_channel_for_*`
  ambiguous; the model takes them to differ.
* `query_details` and the queries of the vesting contract, each a lookup.
* Moving an expired order to the inactive list in `execute_take_swap`: the code
  moves it and returns `Err`, which undoes the move.
* Closing a channel: the handler panics, so the step does not happen.
* Sending through a channel to a third chain, migration, schemas.
* The vesting contract as a partner: to the swaps it is a payee that may refuse,
  to it they are senders that sell an order once. No module composes the two.
* In the vesting contract, a start time other than the block time (a sender that
  is not one of the swap contracts could choose one) and approvals of NFTs.

## 6. Plan

Done: the inter-chain swap with its invariants, proofs and refinement; the
in-chain swap and the vesting contract with their proofs, sums of tokens
included; the order store with its refinement and proofs; the lists of orders
and of bids; the auction of careful clients as an abstract specification, with
the proof that the two chains implement it. Left, in this order:

1. `VestedSwap`: `InchainSwap` and `Vesting` composed, so that a sale and the
   vesting it starts are one step, with the refusal where the code has it.
2. `OrderPath`: the path codec, and which end of a channel it names.
