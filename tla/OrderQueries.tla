---------------------------- MODULE OrderQueries ----------------------------
(***************************************************************************)
(* The list queries, and a client that reads a list page by page while the *)
(* handlers go on changing it: it asks for the next page with the          *)
(* last_order_id of the page before, until a page is empty.                *)
(***************************************************************************)
EXTENDS OrderBook

CONSTANTS
    DefaultLimit,  \* DEFAULT_LIMIT
    MaxLimit,      \* MAX_LIMIT
    Limits,        \* limits a client may ask for
    Filters        \* what a client may look for

\* The None of an Option<u64> or Option<u32>.
None == -1

\* "any" for the unfiltered lists.
FilterType == [by: {"any", "desired", "maker", "taker"}, user: Users]

ASSUME FilterAssumption == Filters \subseteq FilterType
ASSUME LimitAssumption ==
    /\ DefaultLimit \in Nat /\ MaxLimit \in Nat
    /\ Limits \subseteq Nat \cup {None}

VARIABLE scan  \* the client: what it asks for, how far it is, what it has seen

vars == <<bookVars, scan>>

-----------------------------------------------------------------------------
\* Answers.

Limit(limit) ==
    LET asked == IF limit = None THEN DefaultLimit ELSE limit
    IN  IF asked < MaxLimit THEN asked ELSE MaxLimit

\* The first, and the last, n places of a list.
FirstOf(places, n) == {p \in places : Cardinality({q \in places : q < p}) < n}
LastOf(places, n) == {p \in places : Cardinality({q \in places : q > p}) < n}

After(list, cursor) == {p \in DOMAIN list : cursor = None \/ p > cursor}
Before(list, cursor) == {p \in DOMAIN list : cursor = None \/ p < cursor}

Matches(filter, order) ==
    CASE filter.by = "desired" -> order.desired = filter.user
      [] filter.by = "maker"   -> order.maker = filter.user
      [] filter.by = "taker"   -> order.taker = filter.user
      [] OTHER                 -> TRUE

Failed == [ok |-> FALSE, swaps |-> {}, last |-> 0]
Empty == [ok |-> TRUE, swaps |-> {}, last |-> 0]

Highest(places) == CHOOSE p \in places : \A q \in places : q <= p
Lowest(places) == CHOOSE p \in places : \A q \in places : p <= q

\* Fault: the place of the last order is one more.
ListResponsePast(list, swaps, last) ==
    IF swaps = {} THEN Empty
    ELSE [ok |-> TRUE, swaps |-> {list[p].id : p \in swaps}, last |-> last + 1]
\* last_order_id is looked up in the index of the active orders, whatever the
\* list: that of an order which is not in it fails the query.
ListResponse(list, swaps, last) ==
    IF swaps = {} THEN Empty
    ELSE IF list[last].id \notin DOMAIN orderToCount THEN Failed
    ELSE [ok |-> TRUE, swaps |-> {list[p].id : p \in swaps},
          last |-> orderToCount[list[last].id]]

\* The limit applies to the orders visited, before the filter.
Page(list, visited, filter) == {p \in visited : Matches(filter, list[p])}

\* query_list and the filtered lists, start_after as the cursor.
QueryList(list, cursor, n, filter) ==
    LET swaps == Page(list, FirstOf(After(list, cursor), n), filter)
    IN  ListResponse(list, swaps, Highest(swaps))

\* query_inactive_list and its filtered kin.
QueryInactiveList(cursor, n, filter) == QueryList(inactiveOrders, cursor, n, filter)

\* query_list with the order "desc": start_after is still the lower bound.
QueryListDescending(list, cursor, n) ==
    LET swaps == LastOf(After(list, cursor), n)
    IN  ListResponse(list, swaps, Lowest(swaps))

\* query_list_reverse and its filtered kin, start_before as the cursor.
QueryListReverse(list, cursor, n, filter) ==
    LET swaps == Page(list, LastOf(Before(list, cursor), n), filter)
    IN  ListResponse(list, swaps, Lowest(swaps))

ActiveTypes == {"List", "ListDescending", "ListReverse"}
InactiveTypes == {"InactiveList", "InactiveListDescending"}

Query(type, cursor, limit, filter) ==
    CASE type = "List" -> QueryList(swapOrders, cursor, Limit(limit), filter)
      [] type = "ListDescending" ->
            QueryListDescending(swapOrders, cursor, Limit(limit))
      [] type = "ListReverse" ->
            QueryListReverse(swapOrders, cursor, Limit(limit), filter)
      [] type = "InactiveList" ->
            QueryInactiveList(cursor, Limit(limit), filter)
      [] type = "InactiveListDescending" ->
            QueryListDescending(inactiveOrders, cursor, Limit(limit))

-----------------------------------------------------------------------------
\* The client.

\* steady: orders that have been active and matching since the scan began;
\* listed, again: orders it has seen, and seen more than once.
ScanType ==
    [type: {"List", "ListReverse"}, filter: FilterType, limit: Limits,
     cursor: Nat \cup {None}, listed: SUBSET Ids, again: SUBSET Ids,
     steady: SUBSET Ids, state: {"idle", "reading", "done"}]

Init ==
    /\ BookInit
    /\ \E type \in {"List", "ListReverse"}, filter \in Filters, limit \in Limits :
          scan = [type |-> type, filter |-> filter, limit |-> limit,
                  cursor |-> None, listed |-> {}, again |-> {}, steady |-> {},
                  state |-> "idle"]

MatchingIds(filter, list) == {list[p].id : p \in {q \in DOMAIN list : Matches(filter, list[q])}}

StartScan ==
    /\ scan.state = "idle"
    /\ scan' = [scan EXCEPT !.state = "reading",
                            !.steady = MatchingIds(scan.filter, swapOrders)]
    /\ UNCHANGED bookVars

ReadPage ==
    LET page == Query(scan.type, scan.cursor, scan.limit, scan.filter)
    IN  /\ scan.state = "reading" /\ page.ok
        /\ scan' = IF page.swaps = {}
                   THEN [scan EXCEPT !.state = "done"]
                   ELSE [scan EXCEPT !.cursor = page.last,
                                     !.listed = @ \cup page.swaps,
                                     !.again = @ \cup (scan.listed \cap page.swaps)]
        /\ UNCHANGED bookVars

\* The handlers go on in between, until the last page is read.
Trade ==
    /\ scan.state # "done"
    /\ BookNext
    /\ scan' = [scan EXCEPT !.steady = @ \cap MatchingIds(scan.filter, swapOrders')]

Next == StartScan \/ ReadPage \/ Trade

Spec == Init /\ [][Next]_vars

-----------------------------------------------------------------------------
BookTypeOK ==
    /\ swapSequence \in Nat /\ count \in Nat /\ inactiveCount \in Nat
    /\ DOMAIN swapOrders \subseteq Nat
    /\ \A p \in DOMAIN swapOrders : swapOrders[p] \in OrderType
    /\ DOMAIN orderToCount \subseteq Ids
    /\ \A id \in DOMAIN orderToCount : orderToCount[id] \in Nat
    /\ \A p \in DOMAIN inactiveOrders : inactiveOrders[p] \in OrderType
    /\ announced \subseteq OtherIds

\* Every variable has its type.
TypeOK == BookTypeOK /\ scan \in ScanType

\* The index leads to the place of the order it names.
IndexLeads ==
    \A id \in DOMAIN orderToCount : Found(id) /\ AtomicOrder(id).id = id

\* Every place in use was given out, and is the one its order is found by.
PlacesIndexed ==
    \A p \in DOMAIN swapOrders :
        /\ p < count
        /\ swapOrders[p].id \in DOMAIN orderToCount
        /\ orderToCount[swapOrders[p].id] = p

\* The inactive list has no gaps, no order twice and none that is active.
InactiveOnce ==
    /\ DOMAIN inactiveOrders = 0 .. inactiveCount - 1
    /\ \A p \in DOMAIN inactiveOrders :
          /\ inactiveOrders[p].id \notin DOMAIN orderToCount
          /\ \A q \in DOMAIN inactiveOrders :
                inactiveOrders[p].id = inactiveOrders[q].id => p = q

Known == DOMAIN orderToCount \cup {inactiveOrders[p].id : p \in DOMAIN inactiveOrders}

\* No order that may still be created is in the book already.
Old(id) == IF id \in OwnIds THEN id[2] < swapSequence ELSE id \in announced
KnownIsOld == \A id \in Known : Old(id)

\* The index and the two lists agree with each other and with the counters:
\* append_atomic_order and move_order_to_bottom never write over an entry.
BookAgrees == IndexLeads /\ PlacesIndexed /\ InactiveOnce /\ KnownIsOld

\* A list of active orders can always be had, wherever it starts and whatever
\* is asked for, and lists orders that are found by their id.
ListsAnswer ==
    \A type \in ActiveTypes, cursor \in -1 .. count, limit \in Limits, filter \in Filters :
        LET answer == Query(type, cursor, limit, filter)
        IN  answer.ok /\ \A id \in answer.swaps : Found(id)

\* msg.rs:310, "Inactive fields query": once orders have been sold, a client
\* that asks for the inactive ones from the start is given some.  (The code
\* looks for the last one in the index of the active orders, and fails.)
InactiveListsAnswer ==
    \A type \in InactiveTypes, limit \in Limits, filter \in Filters :
        inactiveCount > 0 /\ Limit(limit) > 0 /\ filter.by = "any" =>
            LET answer == Query(type, None, limit, filter)
            IN  answer.ok /\ answer.swaps # {}

\* A list with last_order_id at cursor goes past place p.
Passed(cursor, p) == IF scan.type = "List" THEN p <= cursor ELSE p >= cursor
\* A page is empty only at the end of the list.
AllVisited ==
    Limit(scan.limit) > 0 /\ (scan.filter.by = "any" \/ Limit(scan.limit) >= count)

\* A client that goes on from page to page sees no order twice, and every
\* order that matches all along before it gets past its place, whatever is
\* made, locked, unlocked or sold between two pages.  When it gets to the end
\* it has seen them all, unless the filter left a page empty that the limit
\* had cut off.
ScanFaithful ==
    /\ scan.again = {}
    /\ scan.cursor # None =>
          \A id \in scan.steady :
             Passed(scan.cursor, orderToCount[id]) => id \in scan.listed
    /\ scan.state = "done" /\ AllVisited => scan.steady \subseteq scan.listed

Inactive(id) == {p \in DOMAIN inactiveOrders : inactiveOrders[p].id = id}
PlaceOf(id) ==
    IF Found(id) THEN "active" ELSE IF Inactive(id) # {} THEN "inactive" ELSE "none"
RecordOf(id) ==
    IF Found(id) THEN AtomicOrder(id) ELSE inactiveOrders[CHOOSE p \in Inactive(id) : TRUE]

TermsOf(id) ==
    IF PlaceOf(id) = "none" THEN [maker |-> Nobody, desired |-> Nobody]
    ELSE [maker |-> RecordOf(id).maker, desired |-> RecordOf(id).desired]
TakerOf(id) == IF PlaceOf(id) = "none" THEN Nobody ELSE RecordOf(id).taker

Store == INSTANCE OrderStore WITH
    place <- [id \in Ids |-> PlaceOf(id)],
    terms <- [id \in Ids |-> TermsOf(id)],
    taker <- [id \in Ids |-> TakerOf(id)]

\* The two lists with their counters and the index are a store of orders as
\* the handlers see it: nothing is lost, found under another id or written
\* over, an order that is moved keeps its record, and stays as it is.
StoreKept == Store!Spec
=============================================================================
