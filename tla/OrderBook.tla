----------------------------- MODULE OrderBook ------------------------------
(***************************************************************************)
(* The order store of one instance of the swap contract: a list of active  *)
(* orders, an index from ids to places in it, and a list of inactive       *)
(* orders.  Orders made here are numbered by this contract, those mirrored *)
(* here by the contracts at the other end, so ids come from several        *)
(* counters; packets about them arrive in any order, each of them once.    *)
(***************************************************************************)
EXTENDS Integers, FiniteSets

CONSTANTS
    OwnPaths,     \* paths of the orders made here, one per channel
    OtherPaths,   \* paths of the orders mirrored here
    Users,        \* makers, takers, and takers whom an order is reserved for
    Nobody,       \* the None of taker, the empty string of desired_taker
    Offer,        \* maker and desired taker of each order (MakeSwapMsg)
    MaxOwn,       \* bound: orders made here
    MaxOther      \* bound: orders mirrored here, per path

OfferType == [maker: Users, desired: Users \cup {Nobody}]

ASSUME NobodyAssumption == Nobody \notin Users
ASSUME BoundAssumption == MaxOwn \in Nat /\ MaxOther \in Nat
\* The two ends of a channel do not name the same ports and channels.
ASSUME PathAssumption == OwnPaths \cap OtherPaths = {}

\* The id is the hash of the path with the number, and as good as these.
OrderId(path, sequence) == <<path, sequence>>
OwnSequences == 0 .. MaxOwn - 1
OtherSequences == 0 .. MaxOther - 1
OwnIds == OwnPaths \X OwnSequences
OtherIds == OtherPaths \X OtherSequences
Ids == OwnIds \cup OtherIds

ASSUME OfferAssumption == Offer \in [Ids -> OfferType]

VARIABLES
    swapSequence,    \* SWAP_SEQUENCE
    swapOrders,      \* SWAP_ORDERS, by place
    orderToCount,    \* ORDER_TO_COUNT: the place of an active order
    count,           \* COUNT, the next place
    inactiveOrders,  \* INACTIVE_SWAP_ORDERS, by place
    inactiveCount,   \* INACTIVE_COUNT
    announced        \* orders of other chains whose MakeSwap has arrived

activeVars == <<swapOrders, orderToCount, count>>
inactiveVars == <<inactiveOrders, inactiveCount>>
bookVars == <<swapSequence, activeVars, inactiveVars, announced>>

OrderType ==
    [id: Ids, maker: Users, desired: Users \cup {Nobody}, taker: Users \cup {Nobody}]

NoEntries == [key \in {} |-> Nobody]

BookInit ==
    /\ swapSequence = 0 /\ count = 0 /\ inactiveCount = 0
    /\ swapOrders = NoEntries /\ orderToCount = NoEntries
    /\ inactiveOrders = NoEntries
    /\ announced = {}

-----------------------------------------------------------------------------
\* Maps of the contract's storage.

Saved(map, key, value) ==
    [k \in DOMAIN map \cup {key} |-> IF k = key THEN value ELSE map[k]]
Removed(map, key) == [k \in DOMAIN map \ {key} |-> map[k]]

-----------------------------------------------------------------------------
\* What state.rs offers the handlers.

NewOrder(id) ==
    [id |-> id, maker |-> Offer[id].maker, desired |-> Offer[id].desired,
     taker |-> Nobody]

\* Fault: the next place is not moved on.
AppendInPlace(order) ==
    /\ swapOrders' = Saved(swapOrders, count, order)
    /\ orderToCount' = Saved(orderToCount, order.id, count)
    /\ count' = IF count = 0 THEN 1 ELSE count
AppendAtomicOrder(order) ==
    /\ swapOrders' = Saved(swapOrders, count, order)
    /\ orderToCount' = Saved(orderToCount, order.id, count)
    /\ count' = count + 1

\* get_atomic_order succeeds, and what it finds.
Found(id) == id \in DOMAIN orderToCount /\ orderToCount[id] \in DOMAIN swapOrders
AtomicOrder(id) == swapOrders[orderToCount[id]]

TakenBy(id, taker) == [AtomicOrder(id) EXCEPT !.taker = taker]

SetAtomicOrder(id, order) ==
    swapOrders' = Saved(swapOrders, orderToCount[id], order)

\* Fault: the entry of the active list is left behind.
MoveLeavingEntry(id, order) ==
    /\ orderToCount' = Removed(orderToCount, id)
    /\ UNCHANGED swapOrders
    /\ inactiveOrders' = Saved(inactiveOrders, inactiveCount, order)
    /\ inactiveCount' = inactiveCount + 1
\* Fault: the order is moved before its new record is saved.
MoveUnsaved(id, order) ==
    /\ swapOrders' = Removed(swapOrders, orderToCount[id])
    /\ orderToCount' = Removed(orderToCount, id)
    /\ inactiveOrders' = Saved(inactiveOrders, inactiveCount, AtomicOrder(id))
    /\ inactiveCount' = inactiveCount + 1
\* Fault: the counter of the inactive orders goes down.
MoveCountingDown(id, order) ==
    /\ swapOrders' = Removed(swapOrders, orderToCount[id])
    /\ orderToCount' = Removed(orderToCount, id)
    /\ inactiveOrders' = Saved(inactiveOrders, inactiveCount, order)
    /\ inactiveCount' = inactiveCount - 1
\* set_atomic_order and move_order_to_bottom, which always go together: the
\* order leaves the active list and its index, and its last record ends the
\* inactive list.
MoveOrderToBottom(id, order) ==
    /\ swapOrders' = Removed(swapOrders, orderToCount[id])
    /\ orderToCount' = Removed(orderToCount, id)
    /\ inactiveOrders' = Saved(inactiveOrders, inactiveCount, order)
    /\ inactiveCount' = inactiveCount + 1

-----------------------------------------------------------------------------
\* What the handlers do with it.

\* Fault: the sequence is left where it was.
MakeSwapUnnumbered(path) ==
    /\ swapSequence \in OwnSequences
    /\ AppendAtomicOrder(NewOrder(OrderId(path, swapSequence)))
    /\ UNCHANGED <<swapSequence, inactiveVars, announced>>
\* execute_make_swap.
MakeSwap(path) ==
    /\ swapSequence \in OwnSequences
    /\ AppendAtomicOrder(NewOrder(OrderId(path, swapSequence)))
    /\ swapSequence' = swapSequence + 1
    /\ UNCHANGED <<inactiveVars, announced>>

\* on_received_make, with the check for an active order of that id.
ReceiveMakeSwap(id) ==
    /\ id \notin announced
    /\ id \notin DOMAIN orderToCount
    /\ AppendAtomicOrder(NewOrder(id))
    /\ announced' = announced \cup {id}
    /\ UNCHANGED <<swapSequence, inactiveVars>>

\* Who may take, or have a bid taken.
Desired(id, taker) == AtomicOrder(id).desired \in {Nobody, taker}

\* Handlers that leave the order active: a take locks it for the taker, the
\* refund of a take unlocks it.  A change of status alone is none here: an
\* order that is synchronised, cancelled or failed keeps its place in the list.
LockOrder(id, taker) ==
    /\ Found(id) /\ AtomicOrder(id).taker = Nobody /\ Desired(id, taker)
    /\ SetAtomicOrder(id, TakenBy(id, taker))
    /\ UNCHANGED <<swapSequence, orderToCount, count, inactiveVars, announced>>

UnlockOrder(id) ==
    /\ Found(id) /\ AtomicOrder(id).taker # Nobody
    /\ SetAtomicOrder(id, TakenBy(id, Nobody))
    /\ UNCHANGED <<swapSequence, orderToCount, count, inactiveVars, announced>>

\* The handlers of a sale, to the one who locked the order or to a bidder.
SellOrder(id, taker) ==
    /\ Found(id) /\ Desired(id, taker)
    /\ MoveOrderToBottom(id, TakenBy(id, taker))
    /\ UNCHANGED <<swapSequence, count, announced>>

BookNext ==
    \/ \E path \in OwnPaths : MakeSwap(path)
    \/ \E id \in OtherIds : ReceiveMakeSwap(id)
    \/ \E id \in Ids : UnlockOrder(id)
    \/ \E id \in Ids, taker \in Users : LockOrder(id, taker) \/ SellOrder(id, taker)
=============================================================================
