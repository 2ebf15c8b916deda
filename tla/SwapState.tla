----------------------------- MODULE SwapState ------------------------------
(***************************************************************************)
(* State of the inter-chain atomic swap: the same contract runs on every   *)
(* chain, and IBC packets are all that passes between two instances.       *)
(* An order is native on its home (maker) chain and mirrored as remote on  *)
(* its away (taker) chain; a bid has a record on both.  The modules        *)
(* SwapHandlers and BidHandlers hold the entry points, InterchainSwap      *)
(* puts them together.                                                     *)
(***************************************************************************)
EXTENDS Integers, FiniteSets, Fees

CONSTANTS
    Chains,       \* chains that run the contract
    Orders,       \* orders makers may create, one per SWAP_SEQUENCE value
    Users,        \* buyers: takers and bidders
    NoUser,       \* the None of Option<TakeSwapMsg>
    AnyTaker,     \* the empty string in MakeSwapMsg.desired_taker
    Offer,        \* what the maker asks for in each order (MakeSwapMsg)
    BidAmounts,   \* amounts a bidder may offer
    BidExpiries,  \* expiration times a bidder may choose
    Additions,    \* amounts a bidder may add to a bid
    BadReceivers, \* users whose receiving address addr_validate refuses
    MakerFee,     \* basis points the maker pays, per chain (FeeInfo)
    TakerFee,     \* basis points the taker pays, per chain (FeeInfo)
    Reserve,      \* tokens the contract holds that belong to other orders
    AdminChains,  \* chains whose admin uses the market switch
    MaxPackets,   \* bound, per order: packets sent about it
    MaxTime       \* bound, per chain: ticks of its clock

\* What MakeSwapMsg says of an order.  An order sells tokens of its home
\* chain for tokens of its away chain, in amounts the bank can carry.
OfferType ==
    [home: Chains, away: Chains, sell: Nat \ {0}, buy: Nat \ {0},
     desired: Users \cup {AnyTaker}, takeBids: BOOLEAN, minBid: Nat,
     expiration: Nat, vesting: BOOLEAN]

ASSUME OfferAssumption ==
    /\ Offer \in [Orders -> OfferType]
    /\ \A o \in Orders : Offer[o].home # Offer[o].away
ASSUME UserAssumption ==
    NoUser \notin Users /\ AnyTaker \notin Users /\ BadReceivers \subseteq Users
ASSUME FeeAssumption ==
    MakerFee \in [Chains -> Nat] /\ TakerFee \in [Chains -> Nat]
ASSUME AmountAssumption ==
    /\ BidAmounts \subseteq Nat \ {0}
    /\ BidExpiries \subseteq Nat
    /\ Additions \subseteq Nat \ {0}
ASSUME FiniteAssumption == IsFiniteSet(Orders) /\ IsFiniteSet(Users)
ASSUME ReserveAssumption == Reserve \in [Chains -> Nat]
ASSUME BoundAssumption ==
    MaxPackets \in [Orders -> Nat] /\ MaxTime \in [Chains -> Nat]

Home(o) == Offer[o].home
Away(o) == Offer[o].away

VARIABLES
    channelInfo,  \* channelInfo[c]: chains c has an open channel to
    market,       \* market[c]: Config.state on c
    now,          \* now[c]: block time on c
    native,       \* native[o]: the order's record on its home chain
    remote,       \* remote[o]: its mirror on its away chain
    nativeBids,   \* nativeBids[o][u]: u's bid on o as the home chain has it
    remoteBids,   \* remoteBids[o][u]: the same on the away chain
    packets,      \* packets sent whose sender has not finished with them
    sent,         \* sent[o]: packets sent about o, which numbers them
    bank,         \* bank[c]: tokens the contract account holds on c
    ledger        \* history: what was paid out and is held, per order

swapVars == <<native, remote>>
bidVars == <<nativeBids, remoteBids>>
netVars == <<channelInfo, market, now>>
vars == <<channelInfo, market, now, native, remote, nativeBids, remoteBids,
          packets, sent, bank, ledger>>

-----------------------------------------------------------------------------
\* Records.

Statuses == {"Initial", "Sync", "Cancel", "Failed", "Complete"}
BidStatuses == {"none", "Initial", "Placed", "Failed", "Cancelled", "Executed"}
SwapTypes == {"MakeSwap", "TakeSwap", "CancelSwap"}
BidTypes == {"MakeBid", "TakeBid", "CancelBid", "UpdateBid"}

\* loc: in no list, in SWAP_ORDERS (with its ORDER_TO_COUNT entry), or moved
\* to INACTIVE_SWAP_ORDERS (and no longer found by its id).
OrderType ==
    [loc: {"none", "active", "inactive"}, status: Statuses,
     taker: Users \cup {NoUser}]

BidType == [status: BidStatuses, amount: Nat, expire: Nat]

\* A packet: sent and not yet received, or received and acknowledged.  Those
\* of a take or a bid name a buyer.
PacketType ==
    [order: Orders, seq: Nat, type: {"MakeSwap", "CancelSwap"}, who: {NoUser},
     amount: {0}, expire: {0}, state: {"sent", "ok", "err"}]
    \cup
    [order: Orders, seq: Nat, type: {"TakeSwap"} \cup BidTypes, who: Users,
     amount: Nat, expire: Nat, state: {"sent", "ok", "err"}]

\* delivered: payouts of the sell tokens to a buyer; refunded: their
\* returns to the maker; paid: payouts of buy tokens to the maker;
\* held[u]: what u put in minus what left on u's account.
LedgerType ==
    [delivered: Nat, refunded: Nat, paid: Nat, held: [Users -> Int]]

NoOrder == [loc |-> "none", status |-> "Initial", taker |-> NoUser]
NoBid == [status |-> "none", amount |-> 0, expire |-> 0]
EmptyLedger ==
    [delivered |-> 0, refunded |-> 0, paid |-> 0, held |-> [u \in Users |-> 0]]

TypeOK ==
    /\ channelInfo \in [Chains -> SUBSET Chains]
    /\ market \in [Chains -> {"Active", "Paused"}]
    /\ now \in [Chains -> Nat]
    /\ native \in [Orders -> OrderType]
    /\ remote \in [Orders -> OrderType]
    /\ nativeBids \in [Orders -> [Users -> BidType]]
    /\ remoteBids \in [Orders -> [Users -> BidType]]
    /\ packets \subseteq PacketType
    /\ sent \in [Orders -> Nat]
    /\ bank \in [Chains -> Nat]
    /\ ledger \in [Orders -> LedgerType]

Init ==
    /\ channelInfo = [c \in Chains |-> {}]
    /\ market = [c \in Chains |-> "Active"]
    /\ now = [c \in Chains |-> 0]
    /\ native = [o \in Orders |-> NoOrder]
    /\ remote = [o \in Orders |-> NoOrder]
    /\ nativeBids = [o \in Orders |-> [u \in Users |-> NoBid]]
    /\ remoteBids = [o \in Orders |-> [u \in Users |-> NoBid]]
    /\ packets = {}
    /\ sent = [o \in Orders |-> 0]
    /\ bank = Reserve
    /\ ledger = [o \in Orders |-> EmptyLedger]

-----------------------------------------------------------------------------
\* Order store (state.rs).

\* get_atomic_order succeeds.
Found(order) == order.loc = "active"

\* append_atomic_order.
Appended(status) == [loc |-> "active", status |-> status, taker |-> NoUser]

\* move_order_to_bottom.
MoveOrderToBottom(order) == [order EXCEPT !.loc = "inactive"]

\* The record a sale leaves behind: completed, then moved to the inactive list.
Completed(order, u) ==
    MoveOrderToBottom([order EXCEPT !.status = "Complete", !.taker = u])

\* If desired_taker is set, only that user may buy.
DesiredTakerOK(o, u) == Offer[o].desired \in {AnyTaker, u}

\* addr_validate: the address at which u wants the sell tokens is one of the
\* home chain.  The away chain takes any string.
ReceiverOK(u) == u \notin BadReceivers

\* The home chain sells o to u.
BuyerOK(o, u) == DesiredTakerOK(o, u) /\ ReceiverOK(u)

-----------------------------------------------------------------------------
\* Bank: a transfer the account cannot cover fails the whole transaction.

Covers(c, amount) == bank[c] >= amount
Locked(c, amount) == [bank EXCEPT ![c] = @ + amount]
Paid(c, amount) == [bank EXCEPT ![c] = @ - amount]

\* Entries in the history: tokens a user put in or got back, the sell tokens
\* delivered or refunded, the maker paid on account of a user.
PutIn(entry, u, amount) == [entry EXCEPT !.held[u] = @ + amount]
TakenOut(entry, u, amount) == [entry EXCEPT !.held[u] = @ - amount]
Delivered(entry) == [entry EXCEPT !.delivered = @ + 1]
Refunded(entry) == [entry EXCEPT !.refunded = @ + 1]
MakerPaid(entry, u, amount) ==
    [entry EXCEPT !.paid = @ + 1, !.held[u] = @ - amount]

-----------------------------------------------------------------------------
\* IBC, as the contract meets it: the channel is unordered, a packet is
\* received at most once, and its sender finishes with it once, on the
\* acknowledgement or on a timeout, the latter only if it was not received.
\* A sender's handler that returns an error leaves the packet pending.

NewPacket(o, type, u, amount, expire) ==
    [order |-> o, seq |-> sent[o], type |-> type, who |-> u,
     amount |-> amount, expire |-> expire, state |-> "sent"]

\* IbcMsg::SendPacket, from chain `from` to chain `to`.
SendPacket(from, to, p) ==
    /\ to \in channelInfo[from]
    /\ sent[p.order] < MaxPackets[p.order]
    /\ packets' = packets \cup {p}
    /\ sent' = [sent EXCEPT ![p.order] = @ + 1]

\* A packet of this type reaches chain `to`, whose end of the channel is open.
Arrives(p, type, from, to) ==
    /\ p.type = type
    /\ p.state = "sent"
    /\ from \in channelInfo[to]

WriteAck(p, result) ==
    /\ packets' = (packets \ {p}) \cup {[p EXCEPT !.state = result]}
    /\ sent' = sent

\* ibc_packet_ack with a success.
Succeeded(p, type) == p.type = type /\ p.state = "ok"

\* ibc_packet_ack with an error, or ibc_packet_timeout.
Failed(p, type) == p.type = type /\ p.state \in {"err", "sent"}

Consume(p) == packets' = packets \ {p} /\ sent' = sent

-----------------------------------------------------------------------------
\* A chain's clock, its market switch, and the channel handshake.

Tick(c) ==
    /\ now[c] < MaxTime[c]
    /\ now' = [now EXCEPT ![c] = @ + 1]
    /\ UNCHANGED <<channelInfo, market, swapVars, bidVars, packets, sent, bank,
                   ledger>>

\* ibc_channel_connect: the handshake checked ordering and version, and this
\* end of the channel to d opens.  ibc_channel_close panics, so no channel
\* ever closes.
IbcChannelConnect(c, d) ==
    /\ c # d
    /\ d \notin channelInfo[c]
    /\ channelInfo' = [channelInfo EXCEPT ![c] = @ \cup {d}]
    /\ UNCHANGED <<market, now, swapVars, bidVars, packets, sent, bank, ledger>>

\* execute_pause_market and execute_unpause_market, by the admin.
SetMarket(c, state) ==
    /\ c \in AdminChains
    /\ market[c] # state
    /\ market' = [market EXCEPT ![c] = state]
    /\ UNCHANGED <<channelInfo, now, swapVars, bidVars, packets, sent, bank,
                   ledger>>

ExecutePauseMarket(c) == SetMarket(c, "Paused")
ExecuteUnpauseMarket(c) == SetMarket(c, "Active")
=============================================================================
