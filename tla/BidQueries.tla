----------------------------- MODULE BidQueries -----------------------------
(***************************************************************************)
(* The bid queries of the in-chain contract, and a client that reads the   *)
(* placed bids on an order, or of a bidder, page by page: it asks for the  *)
(* next page with the offset of the last bid it was given, until a page is *)
(* empty.  The handlers of InchainSwap go on in between.                   *)
(***************************************************************************)
EXTENDS InchainSwap

CONSTANTS
    Rank,               \* order of addresses and of order ids as byte strings
    DefaultQueryLimit,  \* DEFAULT_QUERY_LIMIT
    MaxQueryLimit,      \* MAX_QUERY_LIMIT
    Limits              \* limits a client may ask for

\* The None of an Option<u32>.
None == -1

ASSUME RankAssumption ==
    /\ Rank \in [Orders \cup Users -> Nat]
    /\ \A o, x \in Orders : Rank[o] = Rank[x] => o = x
    /\ \A u, x \in Users : Rank[u] = Rank[x] => u = x
ASSUME LimitAssumption ==
    /\ DefaultQueryLimit \in Nat \ {0} /\ MaxQueryLimit \in Nat \ {0}
    /\ Limits \subseteq (Nat \ {0}) \cup {None}

VARIABLE scan  \* the client: what it asks for, how far it is, what it has seen

scanVars == <<vars, scan>>

-----------------------------------------------------------------------------
\* Answers.  A bid is named by its order and its bidder.

QueryLimit(limit) ==
    LET asked == IF limit = None THEN DefaultQueryLimit ELSE limit
    IN  IF asked < MaxQueryLimit THEN asked ELSE MaxQueryLimit

AmountTypes == {"BidByAmount", "BidByAmountReverse"}
TimeTypes == {"BidbyOrder", "BidbyOrderReverse"}
ReverseTypes == {"BidByAmountReverse", "BidbyOrderReverse"}

Bids == Orders \X Users
BidOf(b) == bids[b[1]][b[2]]
PlacedBid(b) == BidOf(b).status = "Placed"

\* The indexes of bids(): by amount and by time for an order, with the key of
\* the bid to tell equal ones apart, and by key for a bidder.
Indexed(type, subject) ==
    IF type = "BidByBidder" THEN Orders \X {subject} ELSE {subject} \X Users

IndexKey(type, b) ==
    IF type \in AmountTypes THEN <<BidOf(b).amount, Rank[b[2]]>>
    ELSE IF type \in TimeTypes THEN <<BidOf(b).received, Rank[b[2]]>>
    ELSE <<Rank[b[1]], Rank[b[2]]>>

Less(k, l) == k[1] < l[1] \/ (k[1] = l[1] /\ k[2] < l[2])
\* In the direction of the query, l comes after k.
Precedes(type, k, l) == IF type \in ReverseTypes THEN Less(l, k) ELSE Less(k, l)

NoOffset == <<>>

\* The first n, in the direction of the query.
FirstBids(type, some, n) ==
    {b \in some :
        Cardinality({c \in some : Precedes(type, IndexKey(type, c), IndexKey(type, b))}) < n}

Ahead(type, subject, offset) ==
    {b \in Indexed(type, subject) :
        /\ BidOf(b).status # "none"
        /\ offset = NoOffset \/ Precedes(type, offset, IndexKey(type, b))}

\* Fault: the limit is applied before the status is looked at.
QueryBidsLimitFirst(type, subject, status, offset, n) ==
    {b \in FirstBids(type, Ahead(type, subject, offset), n) : BidOf(b).status = status}
\* query_bids_sorted_by_amount, query_bids_sorted_by_order, both reversed, and
\* query_bids_by_bidder.
QueryBids(type, subject, status, offset, n) ==
    FirstBids(type, {b \in Ahead(type, subject, offset) : BidOf(b).status = status}, n)

LastBid(type, some) ==
    CHOOSE b \in some :
        \A c \in some \ {b} : Precedes(type, IndexKey(type, c), IndexKey(type, b))

-----------------------------------------------------------------------------
\* The client.

\* type, subject, limit: what it asks for; offset: the last bid it was given;
\* seen, again: bids it was given, and given more than once; steady: bids that
\* have been placed since the scan began; raised: those with an addition since.
NoScan ==
    [type |-> "BidByAmount", subject |-> NoUser, limit |-> None, offset |-> NoOffset,
     seen |-> {}, again |-> {}, steady |-> {}, raised |-> {}, state |-> "idle"]

ScanInit == Init /\ scan = NoScan

StartScan(type, subject, limit) ==
    /\ scan.state = "idle"
    /\ scan' = [NoScan EXCEPT !.type = type, !.subject = subject, !.limit = limit,
                              !.steady = {b \in Indexed(type, subject) : PlacedBid(b)},
                              !.state = "reading"]
    /\ UNCHANGED vars

ReadPage ==
    LET page == QueryBids(scan.type, scan.subject, "Placed", scan.offset,
                          QueryLimit(scan.limit))
    IN  /\ scan.state = "reading"
        /\ scan' = IF page = {} THEN [scan EXCEPT !.state = "done"]
                   ELSE [scan EXCEPT !.offset = IndexKey(scan.type, LastBid(scan.type, page)),
                                     !.seen = @ \cup page,
                                     !.again = @ \cup (scan.seen \cap page)]
        /\ UNCHANGED vars

\* Any handler, until the last page is read.
Trade ==
    /\ scan.state # "done"
    /\ Next
    /\ scan' = [scan EXCEPT
                   !.steady = {b \in @ : bids'[b[1]][b[2]].status = "Placed"},
                   !.raised = @ \cup {b \in scan.steady :
                                        bids'[b[1]][b[2]].amount # BidOf(b).amount}]

ScanNext ==
    \/ \E limit \in Limits :
          \/ \E type \in AmountTypes \cup TimeTypes, o \in Orders : StartScan(type, o, limit)
          \/ \E u \in Users : StartScan("BidByBidder", u, limit)
    \/ ReadPage \/ Trade

ScanSpec == ScanInit /\ [][ScanNext]_scanVars

-----------------------------------------------------------------------------
\* The pages of the scan have gone past b.
PassedBid(b) ==
    \/ scan.state = "done"
    \/ /\ scan.offset # NoOffset
       /\ ~ Precedes(scan.type, scan.offset, IndexKey(scan.type, b))

\* Of the bids that stay placed while the client goes from page to page, in
\* whatever order they come, it misses none and sees none twice, although
\* others come and go and the market moves on.  By amount this holds only for
\* those that are not raised meanwhile: upwards, a raised bid may be seen
\* twice, downwards it may be missed.
BidScanFaithful ==
    \A b \in scan.steady :
        /\ PassedBid(b) =>
              \/ b \in scan.seen
              \/ scan.type = "BidByAmountReverse" /\ b \in scan.raised
        /\ b \in scan.again => scan.type = "BidByAmount" /\ b \in scan.raised
=============================================================================
