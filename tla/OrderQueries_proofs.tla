------------------------ MODULE OrderQueries_proofs -------------------------
(***************************************************************************)
(* Theorems about the order store and the list queries, for any paths,     *)
(* offers, limits and filters.                                             *)
(***************************************************************************)
EXTENDS OrderQueries, SumTheorems

USE DEF OrderId

-----------------------------------------------------------------------------
\* Places: finite sets of naturals have a lowest and a highest member.

LEMMA LowestExists ==
    ASSUME NEW S \in SUBSET Nat, S # {}, IsFiniteSet(S)
    PROVE  \E m \in S : \A q \in S : m <= q
<1> DEFINE R == {e \in S \X S : e[1] < e[2]}
<1>1. /\ \A a \in S : <<a, a>> \notin R
      /\ \A a, b, c \in S : <<a, b>> \in R /\ <<b, c>> \in R => <<a, c>> \in R
  OBVIOUS
<1>2. PICK m \in S : \A q \in S : <<q, m>> \notin R
  <2> HIDE DEF R
  <2> QED BY <1>1, FirstExists
<1>3. \A q \in S : ~ (q < m)
  BY <1>2
<1>4. m \in Nat /\ \A q \in S : q \in Nat
  OBVIOUS
<1> QED BY <1>3, <1>4

LEMMA HighestExists ==
    ASSUME NEW S \in SUBSET Nat, S # {}, IsFiniteSet(S)
    PROVE  \E m \in S : \A q \in S : q <= m
<1> DEFINE R == {e \in S \X S : e[1] > e[2]}
<1>1. /\ \A a \in S : <<a, a>> \notin R
      /\ \A a, b, c \in S : <<a, b>> \in R /\ <<b, c>> \in R => <<a, c>> \in R
  OBVIOUS
<1>2. PICK m \in S : \A q \in S : <<q, m>> \notin R
  <2> HIDE DEF R
  <2> QED BY <1>1, FirstExists
<1>3. \A q \in S : ~ (q > m)
  BY <1>2
<1>4. m \in Nat /\ \A q \in S : q \in Nat
  OBVIOUS
<1> QED BY <1>3, <1>4
-----------------------------------------------------------------------------
\* What an append, a change and a move do to the lists.

\* The order is added at the next place, and to the index.
AppendShape(order) ==
    /\ DOMAIN swapOrders' = DOMAIN swapOrders \cup {count}
    /\ swapOrders'[count] = order
    /\ \A p \in DOMAIN swapOrders \ {count} : swapOrders'[p] = swapOrders[p]
    /\ DOMAIN orderToCount' = DOMAIN orderToCount \cup {order.id}
    /\ orderToCount'[order.id] = count
    /\ \A id \in DOMAIN orderToCount \ {order.id} : orderToCount'[id] = orderToCount[id]
    /\ count' = count + 1
    /\ UNCHANGED inactiveVars

\* The order at the place of id is replaced.
ChangeShape(id, order) ==
    /\ DOMAIN swapOrders' = DOMAIN swapOrders
    /\ swapOrders'[orderToCount[id]] = order
    /\ \A p \in DOMAIN swapOrders \ {orderToCount[id]} : swapOrders'[p] = swapOrders[p]
    /\ UNCHANGED <<orderToCount, count, inactiveVars, swapSequence, announced>>

\* The place of id is given up, and order added to the inactive list.
MoveShape(id, order) ==
    /\ DOMAIN swapOrders' = DOMAIN swapOrders \ {orderToCount[id]}
    /\ \A p \in DOMAIN swapOrders' : swapOrders'[p] = swapOrders[p]
    /\ DOMAIN orderToCount' = DOMAIN orderToCount \ {id}
    /\ \A other \in DOMAIN orderToCount' : orderToCount'[other] = orderToCount[other]
    /\ DOMAIN inactiveOrders' = DOMAIN inactiveOrders \cup {inactiveCount}
    /\ inactiveOrders'[inactiveCount] = order
    /\ \A p \in DOMAIN inactiveOrders \ {inactiveCount} :
          inactiveOrders'[p] = inactiveOrders[p]
    /\ inactiveCount' = inactiveCount + 1
    /\ UNCHANGED <<count, swapSequence, announced>>

\* A record of id with a taker in the place of the one found.
Retaken(id, order) ==
    /\ Found(id)
    /\ \E taker \in Users \cup {Nobody} : order = TakenBy(id, taker)

LEMMA AppendIsShape ==
    ASSUME NEW order, AppendAtomicOrder(order), UNCHANGED inactiveVars
    PROVE  AppendShape(order)
BY DEF AppendAtomicOrder, AppendShape, Saved

LEMMA SetIsShape ==
    ASSUME NEW id, NEW order, Found(id), SetAtomicOrder(id, order),
           UNCHANGED <<swapSequence, orderToCount, count, inactiveVars, announced>>
    PROVE  ChangeShape(id, order)
BY DEF SetAtomicOrder, ChangeShape, Found, Saved

LEMMA MoveIsShape ==
    ASSUME NEW id, NEW order, MoveOrderToBottom(id, order),
           UNCHANGED <<swapSequence, count, announced>>
    PROVE  MoveShape(id, order)
BY DEF MoveOrderToBottom, MoveShape, Saved, Removed

-----------------------------------------------------------------------------
\* The handlers, as appends, changes and moves.

BookInv == BookTypeOK /\ BookAgrees

\* An append adds an order that was never in the book, and is old from then.
NewStep ==
    \E id \in Ids \ Known :
        /\ AppendShape(NewOrder(id)) /\ Old(id)'
        /\ swapSequence' \in Nat /\ swapSequence <= swapSequence'
        /\ announced' \subseteq OtherIds /\ announced \subseteq announced'
ChangeStep ==
    \E id \in Ids, taker \in Users \cup {Nobody} :
        Found(id) /\ ChangeShape(id, TakenBy(id, taker))
MoveStep ==
    \E id \in Ids, taker \in Users :
        Found(id) /\ MoveShape(id, TakenBy(id, taker))

LEMMA IdFacts == OwnIds \cap OtherIds = {} /\ \A id \in Ids : id[2] \in Nat
BY PathAssumption, BoundAssumption
   DEF Ids, OwnIds, OtherIds, OwnSequences, OtherSequences

LEMMA NewOrderFacts ==
    ASSUME NEW id \in Ids
    PROVE  NewOrder(id) \in OrderType /\ NewOrder(id).id = id
BY OfferAssumption DEF NewOrder, OrderType, OfferType

LEMMA TakenByFacts ==
    ASSUME BookInv, NEW id \in DOMAIN orderToCount, NEW taker \in Users \cup {Nobody}
    PROVE  /\ Found(id) /\ AtomicOrder(id) \in OrderType /\ AtomicOrder(id).id = id
           /\ TakenBy(id, taker) \in OrderType
           /\ TakenBy(id, taker).id = id
           /\ TakenBy(id, taker).maker = AtomicOrder(id).maker
           /\ TakenBy(id, taker).desired = AtomicOrder(id).desired
           /\ TakenBy(id, taker).taker = taker
<1>1. Found(id) /\ AtomicOrder(id) \in OrderType /\ AtomicOrder(id).id = id
  BY DEF BookInv, BookTypeOK, BookAgrees, IndexLeads, Found, AtomicOrder
<1> QED BY <1>1 DEF TakenBy, OrderType

LEMMA MakeIsNew ==
    ASSUME BookInv, NEW path \in OwnPaths, MakeSwap(path)
    PROVE  NewStep
<1>0. PICK id : id = OrderId(path, swapSequence)
  OBVIOUS
<1>1. id \in OwnIds /\ id[2] = swapSequence
  BY <1>0 DEF MakeSwap, OwnIds
<1>2. id \in Ids \ Known
  BY <1>1 DEF Ids, BookInv, BookTypeOK, BookAgrees, KnownIsOld, Old
<1>3. AppendShape(NewOrder(id))
  BY <1>0, AppendIsShape DEF MakeSwap
<1>4. swapSequence' = swapSequence + 1 /\ announced' = announced
  BY DEF MakeSwap
<1>5. Old(id)'
  BY <1>1, <1>4 DEF Old, BookInv, BookTypeOK
<1> QED BY <1>2, <1>3, <1>4, <1>5 DEF NewStep, BookInv, BookTypeOK

LEMMA ReceiveIsNew ==
    ASSUME BookInv, NEW id \in OtherIds, ReceiveMakeSwap(id)
    PROVE  NewStep
<1>1. id \in Ids /\ id \notin OwnIds
  BY IdFacts DEF Ids
<1>2. id \in Ids \ Known
  BY <1>1 DEF ReceiveMakeSwap, BookInv, BookAgrees, KnownIsOld, Old
<1>3. AppendShape(NewOrder(id))
  BY AppendIsShape DEF ReceiveMakeSwap
<1>4. swapSequence' = swapSequence /\ announced' = announced \cup {id}
  BY DEF ReceiveMakeSwap
<1>5. Old(id)'
  BY <1>1, <1>4 DEF Old
<1> QED BY <1>2, <1>3, <1>4, <1>5 DEF NewStep, BookInv, BookTypeOK

LEMMA ChangesAreSteps ==
    ASSUME BookInv, NEW id \in Ids, NEW taker \in Users
    PROVE  /\ LockOrder(id, taker) => ChangeStep
           /\ SellOrder(id, taker) => MoveStep
<1>1. ASSUME LockOrder(id, taker)  PROVE ChangeStep
  BY <1>1, SetIsShape DEF LockOrder, ChangeStep
<1>2. ASSUME SellOrder(id, taker)  PROVE MoveStep
  BY <1>2, MoveIsShape DEF SellOrder, MoveStep
<1> QED BY <1>1, <1>2

\* Every handler adds a new order, changes the taker of an active one, or
\* moves one to the inactive list, with its buyer as the taker.
LEMMA BookSteps ==
    ASSUME BookInv, BookNext
    PROVE  NewStep \/ ChangeStep \/ MoveStep
<1>1. CASE \E path \in OwnPaths : MakeSwap(path)
  BY <1>1, MakeIsNew
<1>2. CASE \E id \in OtherIds : ReceiveMakeSwap(id)
  BY <1>2, ReceiveIsNew
<1>3. CASE \E id \in Ids : UnlockOrder(id)
  <2>1. PICK id \in Ids : UnlockOrder(id)
    BY <1>3
  <2>2. ChangeShape(id, TakenBy(id, Nobody)) /\ Found(id)
    BY <2>1, SetIsShape DEF UnlockOrder
  <2> QED BY <2>2 DEF ChangeStep
<1>4. CASE \E id \in Ids, taker \in Users : LockOrder(id, taker) \/ SellOrder(id, taker)
  BY <1>4, ChangesAreSteps
<1> QED BY <1>1, <1>2, <1>3, <1>4 DEF BookNext

-----------------------------------------------------------------------------
\* They keep the lists, the index and the counters in agreement.

USE DEF inactiveVars

\* The places in use and the index are the inverse of each other.
LEMMA PlaceFacts ==
    ASSUME BookInv
    PROVE  /\ \A id \in DOMAIN orderToCount :
                 /\ id \in Ids /\ Found(id) /\ orderToCount[id] \in DOMAIN swapOrders
                 /\ swapOrders[orderToCount[id]].id = id /\ orderToCount[id] \in Nat
           /\ \A p \in DOMAIN swapOrders :
                 /\ p \in Nat /\ p < count /\ swapOrders[p] \in OrderType
                 /\ swapOrders[p].id \in DOMAIN orderToCount
                 /\ orderToCount[swapOrders[p].id] = p
           /\ \A p \in DOMAIN inactiveOrders :
                 /\ p \in Nat /\ p < inactiveCount /\ inactiveOrders[p] \in OrderType
                 /\ inactiveOrders[p].id \in Known \ DOMAIN orderToCount
           /\ count \in Nat /\ inactiveCount \in Nat /\ swapSequence \in Nat
           /\ count \notin DOMAIN swapOrders /\ inactiveCount \notin DOMAIN inactiveOrders
BY DEF BookInv, BookTypeOK, BookAgrees, IndexLeads, PlacesIndexed, InactiveOnce,
       Found, AtomicOrder, Known

LEMMA NewKeeps ==
    ASSUME BookInv, NewStep
    PROVE  BookInv'
<1>1. PICK id \in Ids \ Known :
        /\ AppendShape(NewOrder(id)) /\ Old(id)'
        /\ swapSequence' \in Nat /\ swapSequence <= swapSequence'
        /\ announced' \subseteq OtherIds /\ announced \subseteq announced'
  BY DEF NewStep
<1>2. NewOrder(id) \in OrderType /\ NewOrder(id).id = id
  BY NewOrderFacts
<1>3. /\ DOMAIN swapOrders' = DOMAIN swapOrders \cup {count}
      /\ swapOrders'[count] = NewOrder(id)
      /\ \A p \in DOMAIN swapOrders : swapOrders'[p] = swapOrders[p]
      /\ DOMAIN orderToCount' = DOMAIN orderToCount \cup {id}
      /\ orderToCount'[id] = count
      /\ \A other \in DOMAIN orderToCount : orderToCount'[other] = orderToCount[other]
      /\ count' = count + 1 /\ UNCHANGED inactiveVars
  BY <1>1, <1>2, PlaceFacts DEF AppendShape, Known
<1>4. BookTypeOK'
  BY <1>1, <1>2, <1>3, PlaceFacts DEF BookTypeOK, BookInv
<1>5. IndexLeads'
  BY <1>2, <1>3, PlaceFacts DEF IndexLeads, Found, AtomicOrder
<1>6. PlacesIndexed'
  <2>1. \A p \in DOMAIN swapOrders' : p < count'
    BY <1>3, PlaceFacts
  <2>2. \A p \in DOMAIN swapOrders' :
          swapOrders'[p].id \in DOMAIN orderToCount' /\ orderToCount'[swapOrders'[p].id] = p
    BY <1>2, <1>3, PlaceFacts
  <2> QED BY <2>1, <2>2 DEF PlacesIndexed
<1>7. InactiveOnce'
  BY <1>1, <1>3, PlaceFacts DEF InactiveOnce, Known, BookInv, BookAgrees
<1>8. KnownIsOld'
  <2>1. Known' = Known \cup {id}
    BY <1>3 DEF Known
  <2>2. ASSUME NEW other \in Known  PROVE Old(other)'
    <3>1. Old(other) /\ other \in Ids
      BY PlaceFacts DEF BookInv, BookAgrees, KnownIsOld, Known, OrderType
    <3>2. CASE other \in OwnIds
      BY <1>1, <3>1, <3>2, IdFacts, PlaceFacts DEF Old
    <3>3. CASE other \notin OwnIds
      BY <1>1, <3>1, <3>3 DEF Old
    <3> QED BY <3>2, <3>3
  <2> QED BY <1>1, <2>1, <2>2 DEF KnownIsOld
<1> QED BY <1>4, <1>5, <1>6, <1>7, <1>8 DEF BookInv, BookAgrees

LEMMA ChangeKeeps ==
    ASSUME BookInv, ChangeStep
    PROVE  BookInv'
<1>1. PICK id \in DOMAIN orderToCount, taker \in Users \cup {Nobody} :
        Found(id) /\ ChangeShape(id, TakenBy(id, taker))
  BY DEF ChangeStep, Found
<1>2. TakenBy(id, taker) \in OrderType /\ TakenBy(id, taker).id = id
  BY TakenByFacts
<1>3. /\ DOMAIN swapOrders' = DOMAIN swapOrders
      /\ \A p \in DOMAIN swapOrders :
            swapOrders'[p] \in OrderType /\ swapOrders'[p].id = swapOrders[p].id
  BY <1>1, <1>2, PlaceFacts DEF ChangeShape
<1>4. UNCHANGED <<orderToCount, count, inactiveOrders, inactiveCount, swapSequence, announced>>
  BY <1>1 DEF ChangeShape
<1>5. BookTypeOK'
  BY <1>3, <1>4 DEF BookTypeOK, BookInv
<1>6. IndexLeads' /\ PlacesIndexed'
  BY <1>3, <1>4, PlaceFacts DEF IndexLeads, PlacesIndexed, Found, AtomicOrder
<1>7. InactiveOnce' /\ KnownIsOld'
  BY <1>4 DEF InactiveOnce, KnownIsOld, Known, Old, BookInv, BookAgrees
<1> QED BY <1>5, <1>6, <1>7 DEF BookInv, BookAgrees

LEMMA MoveKeeps ==
    ASSUME BookInv, MoveStep
    PROVE  BookInv'
<1>1. PICK id \in DOMAIN orderToCount, taker \in Users \cup {Nobody} :
        Found(id) /\ MoveShape(id, TakenBy(id, taker))
  BY DEF MoveStep, Found
<1>2. TakenBy(id, taker) \in OrderType /\ TakenBy(id, taker).id = id
  BY TakenByFacts
<1>3. /\ DOMAIN swapOrders' = DOMAIN swapOrders \ {orderToCount[id]}
      /\ \A p \in DOMAIN swapOrders' : swapOrders'[p] = swapOrders[p]
      /\ DOMAIN orderToCount' = DOMAIN orderToCount \ {id}
      /\ \A other \in DOMAIN orderToCount' : orderToCount'[other] = orderToCount[other]
      /\ DOMAIN inactiveOrders' = DOMAIN inactiveOrders \cup {inactiveCount}
      /\ inactiveOrders'[inactiveCount] = TakenBy(id, taker)
      /\ \A p \in DOMAIN inactiveOrders : inactiveOrders'[p] = inactiveOrders[p]
      /\ inactiveCount' = inactiveCount + 1
      /\ UNCHANGED <<count, swapSequence, announced>>
  BY <1>1, PlaceFacts DEF MoveShape
<1>4. BookTypeOK'
  BY <1>2, <1>3, PlaceFacts DEF BookTypeOK, BookInv
<1>5. IndexLeads' /\ PlacesIndexed'
  <2>1. \A other \in DOMAIN orderToCount' : orderToCount[other] # orderToCount[id]
    BY <1>3, PlaceFacts
  <2>2. \A p \in DOMAIN swapOrders' : swapOrders[p].id # id
    BY <1>3, PlaceFacts
  <2> QED BY <1>3, <2>1, <2>2, PlaceFacts DEF IndexLeads, PlacesIndexed, Found, AtomicOrder
<1>6. InactiveOnce'
  <2>1. DOMAIN inactiveOrders' = 0 .. inactiveCount' - 1
    BY <1>3, PlaceFacts DEF BookInv, BookAgrees, InactiveOnce
  <2>2. \A p \in DOMAIN inactiveOrders' :
          inactiveOrders'[p].id \notin DOMAIN orderToCount'
    BY <1>2, <1>3, PlaceFacts
  <2>3. \A p, q \in DOMAIN inactiveOrders' :
          inactiveOrders'[p].id = inactiveOrders'[q].id => p = q
    BY <1>2, <1>3, PlaceFacts DEF BookInv, BookAgrees, InactiveOnce
  <2> QED BY <2>1, <2>2, <2>3 DEF InactiveOnce
<1>7. KnownIsOld'
  <2>1. Known' \subseteq Known
    BY <1>2, <1>3, PlaceFacts DEF Known
  <2> QED BY <1>3, <2>1 DEF KnownIsOld, Old, BookInv, BookAgrees
<1> QED BY <1>4, <1>5, <1>6, <1>7 DEF BookInv, BookAgrees

LEMMA InitBook == BookInit => BookInv
BY DEF BookInit, NoEntries, BookInv, BookTypeOK, BookAgrees, IndexLeads, PlacesIndexed,
       InactiveOnce, KnownIsOld, Known, Found, AtomicOrder

LEMMA BookUnchanged == BookInv /\ UNCHANGED bookVars => BookInv'
BY DEF bookVars, activeVars, inactiveVars, BookInv, BookTypeOK, BookAgrees, IndexLeads,
       PlacesIndexed, InactiveOnce, KnownIsOld, Known, Old, Found, AtomicOrder

LEMMA BookKept == BookInv /\ [Next]_vars => BookInv'
<1>1. ASSUME BookInv, BookNext  PROVE BookInv'
  BY <1>1, BookSteps, NewKeeps, ChangeKeeps, MoveKeeps
<1> QED BY <1>1, BookUnchanged DEF Next, StartScan, ReadPage, Trade, vars

\* The index, the two lists and the counters agree (append_atomic_order and
\* move_order_to_bottom never write over an entry).
THEOREM BookAgreesCorrect == Spec => []BookAgrees
<1>1. Init => BookInv
  BY InitBook DEF Init
<1>2. BookInv => BookAgrees
  BY DEF BookInv
<1> QED BY <1>1, <1>2, BookKept, PTL DEF Spec

-----------------------------------------------------------------------------
\* What a query answers.

LEMMA HighestFacts ==
    ASSUME NEW S \in SUBSET Nat, S # {}, IsFiniteSet(S)
    PROVE  Highest(S) \in S /\ \A q \in S : q <= Highest(S)
BY HighestExists DEF Highest

LEMMA LowestFacts ==
    ASSUME NEW S \in SUBSET Nat, S # {}, IsFiniteSet(S)
    PROVE  Lowest(S) \in S /\ \A q \in S : Lowest(S) <= q
BY LowestExists DEF Lowest

LEMMA FiniteLists ==
    ASSUME BookInv
    PROVE  /\ DOMAIN swapOrders \in SUBSET Nat /\ IsFiniteSet(DOMAIN swapOrders)
           /\ DOMAIN inactiveOrders \in SUBSET Nat /\ IsFiniteSet(DOMAIN inactiveOrders)
<1>1. DOMAIN swapOrders \subseteq 0 .. count - 1
  BY PlaceFacts
<1>2. DOMAIN inactiveOrders \subseteq 0 .. inactiveCount - 1
  BY PlaceFacts
<1>3. IsFiniteSet(0 .. count - 1) /\ IsFiniteSet(0 .. inactiveCount - 1)
  <2>1. count - 1 \in Int /\ inactiveCount - 1 \in Int /\ 0 \in Int
    BY PlaceFacts
  <2> QED BY <2>1, FS_Interval
<1> QED BY <1>1, <1>2, <1>3, FS_Subset, PlaceFacts

\* A list of active orders ends with the place of its last order.
LEMMA ActiveResponse ==
    ASSUME BookInv, NEW swaps \in SUBSET DOMAIN swapOrders, NEW last \in swaps
    PROVE  ListResponse(swapOrders, swaps, last) =
              [ok |-> TRUE, swaps |-> {swapOrders[p].id : p \in swaps}, last |-> last]
BY PlaceFacts DEF ListResponse

LEMMA PageWithin ==
    ASSUME NEW list, NEW cursor, NEW n, NEW filter
    PROVE  /\ FirstOf(After(list, cursor), n) \subseteq DOMAIN list
           /\ LastOf(After(list, cursor), n) \subseteq DOMAIN list
           /\ LastOf(Before(list, cursor), n) \subseteq DOMAIN list
           /\ Page(list, FirstOf(After(list, cursor), n), filter) \subseteq DOMAIN list
           /\ Page(list, LastOf(Before(list, cursor), n), filter) \subseteq DOMAIN list
BY DEF FirstOf, LastOf, After, Before, Page

\* The ends of a page, when it has any, are places of it.
LEMMA EndsOfPages ==
    ASSUME BookInv,
           NEW swaps, swaps \subseteq DOMAIN swapOrders \/ swaps \subseteq DOMAIN inactiveOrders,
           swaps # {}
    PROVE  /\ Highest(swaps) \in swaps /\ Lowest(swaps) \in swaps
           /\ \A p \in swaps : p \in Nat /\ p <= Highest(swaps) /\ p >= Lowest(swaps)
<1>1. CASE swaps \subseteq DOMAIN swapOrders
  BY <1>1, FiniteLists, FS_Subset, HighestFacts, LowestFacts
<1>2. CASE swaps \subseteq DOMAIN inactiveOrders
  BY <1>2, FiniteLists, FS_Subset, HighestFacts, LowestFacts
<1> QED BY <1>1, <1>2

\* What an answer about the active orders may be.
Answer(swaps, last) ==
    IF swaps = {} THEN Empty
    ELSE [ok |-> TRUE, swaps |-> {swapOrders[p].id : p \in swaps}, last |-> last]

LEMMA ListPage ==
    ASSUME BookInv, NEW cursor, NEW limit, NEW filter,
           NEW swaps,
           swaps = Page(swapOrders, FirstOf(After(swapOrders, cursor), Limit(limit)), filter)
    PROVE  Query("List", cursor, limit, filter) = Answer(swaps, Highest(swaps))
<1>1. swaps \in SUBSET DOMAIN swapOrders
  BY PageWithin
<1>2. Query("List", cursor, limit, filter) = ListResponse(swapOrders, swaps, Highest(swaps))
  BY DEF Query, QueryList
<1>3. CASE swaps = {}
  BY <1>2, <1>3 DEF Answer, ListResponse
<1>4. CASE swaps # {}
  <2>1. Highest(swaps) \in swaps
    BY <1>1, <1>4, EndsOfPages
  <2> QED BY <1>1, <1>2, <1>4, <2>1, ActiveResponse DEF Answer
<1> QED BY <1>3, <1>4

LEMMA ReversePage ==
    ASSUME BookInv, NEW cursor, NEW limit, NEW filter,
           NEW swaps,
           swaps = Page(swapOrders, LastOf(Before(swapOrders, cursor), Limit(limit)), filter)
    PROVE  Query("ListReverse", cursor, limit, filter) = Answer(swaps, Lowest(swaps))
<1>1. swaps \in SUBSET DOMAIN swapOrders
  BY PageWithin
<1>2. Query("ListReverse", cursor, limit, filter)
        = ListResponse(swapOrders, swaps, Lowest(swaps))
  BY DEF Query, QueryListReverse
<1>3. CASE swaps = {}
  BY <1>2, <1>3 DEF Answer, ListResponse
<1>4. CASE swaps # {}
  <2>1. Lowest(swaps) \in swaps
    BY <1>1, <1>4, EndsOfPages
  <2> QED BY <1>1, <1>2, <1>4, <2>1, ActiveResponse DEF Answer
<1> QED BY <1>3, <1>4

LEMMA DescendingPage ==
    ASSUME BookInv, NEW cursor, NEW limit, NEW filter,
           NEW swaps, swaps = LastOf(After(swapOrders, cursor), Limit(limit))
    PROVE  Query("ListDescending", cursor, limit, filter) = Answer(swaps, Lowest(swaps))
<1>1. swaps \in SUBSET DOMAIN swapOrders
  BY PageWithin
<1>2. Query("ListDescending", cursor, limit, filter)
        = ListResponse(swapOrders, swaps, Lowest(swaps))
  BY DEF Query, QueryListDescending
<1>3. CASE swaps = {}
  BY <1>2, <1>3 DEF Answer, ListResponse
<1>4. CASE swaps # {}
  <2>1. Lowest(swaps) \in swaps
    BY <1>1, <1>4, EndsOfPages
  <2> QED BY <1>1, <1>2, <1>4, <2>1, ActiveResponse DEF Answer
<1> QED BY <1>3, <1>4

LEMMA AnswerFacts ==
    ASSUME BookInv, NEW swaps \in SUBSET DOMAIN swapOrders, NEW last
    PROVE  /\ Answer(swaps, last).ok
           /\ \A id \in Answer(swaps, last).swaps : Found(id) /\ id \in DOMAIN orderToCount
BY PlaceFacts DEF Answer, Empty

LEMMA AnswersAreGood == BookInv => ListsAnswer
<1> SUFFICES ASSUME BookInv, NEW type \in ActiveTypes, NEW cursor, NEW limit, NEW filter
             PROVE  LET answer == Query(type, cursor, limit, filter)
                    IN  answer.ok /\ \A id \in answer.swaps : Found(id)
  BY DEF ListsAnswer
<1>1. CASE type = "List"
  <2>1. PICK swaps : swaps = Page(swapOrders, FirstOf(After(swapOrders, cursor), Limit(limit)), filter)
    OBVIOUS
  <2>2. swaps \in SUBSET DOMAIN swapOrders
    BY <2>1, PageWithin
  <2>3. \E last : Query(type, cursor, limit, filter) = Answer(swaps, last)
    BY <1>1, <2>1, ListPage
  <2> QED BY <1>1, <2>2, <2>3, AnswerFacts
<1>2. CASE type = "ListReverse"
  <2>1. PICK swaps : swaps = Page(swapOrders, LastOf(Before(swapOrders, cursor), Limit(limit)), filter)
    OBVIOUS
  <2>2. swaps \in SUBSET DOMAIN swapOrders
    BY <2>1, PageWithin
  <2>3. \E last : Query(type, cursor, limit, filter) = Answer(swaps, last)
    BY <1>2, <2>1, ReversePage
  <2> QED BY <1>2, <2>2, <2>3, AnswerFacts
<1>3. CASE type = "ListDescending"
  <2>1. PICK swaps : swaps = LastOf(After(swapOrders, cursor), Limit(limit))
    OBVIOUS
  <2>2. swaps \in SUBSET DOMAIN swapOrders
    BY <2>1, PageWithin
  <2>3. \E last : Query(type, cursor, limit, filter) = Answer(swaps, last)
    BY <1>3, <2>1, DescendingPage
  <2> QED BY <1>3, <2>2, <2>3, AnswerFacts
<1> QED BY <1>1, <1>2, <1>3 DEF ActiveTypes

\* query_list and its kin answer, with orders that are active.
THEOREM ListsAnswerCorrect == Spec => []ListsAnswer
<1>1. Init => BookInv
  BY InitBook DEF Init
<1> QED BY <1>1, BookKept, AnswersAreGood, PTL DEF Spec

-----------------------------------------------------------------------------
\* The first and the last places of a list.

LEMMA LimitIsNat == \A limit \in Limits : Limit(limit) \in Nat
BY LimitAssumption DEF Limit, None

LEMMA PartFacts ==
    ASSUME NEW S \in SUBSET Nat, IsFiniteSet(S), NEW T \in SUBSET S, NEW U \in SUBSET T
    PROVE  Cardinality(T) \in Nat /\ Cardinality(U) \in Nat /\ Cardinality(U) <= Cardinality(T)
<1>1. IsFiniteSet(T)
  BY FS_Subset
<1> QED BY <1>1, FS_Subset, FS_CardinalityType

\* What is before a place that is among the first is among them, too.
LEMMA FirstOfClosed ==
    ASSUME NEW S \in SUBSET Nat, IsFiniteSet(S), NEW n \in Nat,
           NEW p \in FirstOf(S, n), NEW q \in S, q <= p
    PROVE  q \in FirstOf(S, n)
<1> DEFINE Under(k) == {r \in S : r < k}
<1>1. p \in S /\ Cardinality(Under(p)) < n
  BY DEF FirstOf
<1>2. ASSUME NEW r \in Under(q)  PROVE r \in Under(p)
  <2>1. r \in S /\ r < q /\ r \in Nat /\ q \in Nat /\ p \in Nat
    BY <1>1
  <2> QED BY <2>1
<1>3. Under(p) \in SUBSET S /\ Under(q) \in SUBSET Under(p)
  BY <1>2
<1>4. /\ Cardinality(Under(p)) \in Nat /\ Cardinality(Under(q)) \in Nat
      /\ Cardinality(Under(q)) <= Cardinality(Under(p))
  <2> HIDE DEF Under
  <2> QED BY <1>3, PartFacts
<1>5. Cardinality(Under(q)) < n
  <2> HIDE DEF Under
  <2> QED BY <1>1, <1>4
<1> QED BY <1>5 DEF FirstOf

LEMMA LastOfClosed ==
    ASSUME NEW S \in SUBSET Nat, IsFiniteSet(S), NEW n \in Nat,
           NEW p \in LastOf(S, n), NEW q \in S, q >= p
    PROVE  q \in LastOf(S, n)
<1> DEFINE Over(k) == {r \in S : r > k}
<1>1. p \in S /\ Cardinality(Over(p)) < n
  BY DEF LastOf
<1>2. ASSUME NEW r \in Over(q)  PROVE r \in Over(p)
  <2>1. r \in S /\ r > q /\ r \in Nat /\ q \in Nat /\ p \in Nat
    BY <1>1
  <2> QED BY <2>1
<1>3. Over(p) \in SUBSET S /\ Over(q) \in SUBSET Over(p)
  BY <1>2
<1>4. /\ Cardinality(Over(p)) \in Nat /\ Cardinality(Over(q)) \in Nat
      /\ Cardinality(Over(q)) <= Cardinality(Over(p))
  <2> HIDE DEF Over
  <2> QED BY <1>3, PartFacts
<1>5. Cardinality(Over(q)) < n
  <2> HIDE DEF Over
  <2> QED BY <1>1, <1>4
<1> QED BY <1>5 DEF LastOf

\* There are first and last places, if any.
LEMMA SomeAreVisited ==
    ASSUME NEW S \in SUBSET Nat, IsFiniteSet(S), S # {}, NEW n \in Nat, n > 0
    PROVE  FirstOf(S, n) # {} /\ LastOf(S, n) # {}
<1>1. PICK low \in S : \A q \in S : low <= q
  BY LowestExists
<1>2. PICK high \in S : \A q \in S : q <= high
  BY HighestExists
<1>3. {q \in S : q < low} = {} /\ {q \in S : q > high} = {}
  <2>1. \A q \in S : q \in Nat /\ low \in Nat /\ high \in Nat
    OBVIOUS
  <2>2. \A q \in S : ~ (q < low) /\ ~ (q > high)
    BY <1>1, <1>2, <2>1
  <2> QED BY <2>2
<1>4. Cardinality({}) = 0
  BY FS_EmptySet
<1>5. low \in FirstOf(S, n) /\ high \in LastOf(S, n)
  BY <1>3, <1>4 DEF FirstOf, LastOf
<1> QED BY <1>5

\* All are, if there are not more than the limit.
LEMMA AllAreVisited ==
    ASSUME NEW S, NEW k \in Nat, S \subseteq 0 .. k - 1, NEW n \in Nat, n >= k
    PROVE  FirstOf(S, n) = S /\ LastOf(S, n) = S
<1>1. ASSUME NEW p \in S, NEW T \in SUBSET S, p \notin T  PROVE Cardinality(T) < n
  <2>1. k - 1 \in Int /\ 0 \in Int /\ k >= 1
    OBVIOUS
  <2>2. IsFiniteSet(0 .. k - 1) /\ Cardinality(0 .. k - 1) = k
    BY <2>1, FS_Interval
  <2>3. IsFiniteSet(S) /\ Cardinality(S) <= k /\ Cardinality(S) \in Nat
    BY <2>2, FS_Subset, FS_CardinalityType
  <2>4. T # S
    BY <1>1
  <2>5. /\ IsFiniteSet(T) /\ Cardinality(T) <= Cardinality(S)
        /\ Cardinality(S) # Cardinality(T)
    BY <2>3, <2>4, FS_Subset
  <2>6. Cardinality(T) \in Nat
    BY <2>5, FS_CardinalityType
  <2> QED BY <2>3, <2>5, <2>6
<1>2. \A p \in S : {q \in S : q < p} \in SUBSET S /\ p \notin {q \in S : q < p}
  OBVIOUS
<1>3. \A p \in S : {q \in S : q > p} \in SUBSET S /\ p \notin {q \in S : q > p}
  OBVIOUS
<1> QED BY <1>1, <1>2, <1>3 DEF FirstOf, LastOf

-----------------------------------------------------------------------------
\* A page, for the client that reads it.

\* What the client has not gone past.
Ahead(p) == scan.cursor = None \/ ~ Passed(scan.cursor, p)
Matching(p) == Matches(scan.filter, swapOrders[p])

\* The page holds orders that match and are ahead, all of them up to its last,
\* and is empty only at the end of the list, if all orders are visited.
PageShape(swaps, last) ==
    /\ swaps \subseteq DOMAIN swapOrders
    /\ \A p \in swaps : Matching(p) /\ Ahead(p) /\ Passed(last, p)
    /\ swaps # {} =>
          /\ last \in swaps
          /\ \A p \in DOMAIN swapOrders :
                Matching(p) /\ Ahead(p) /\ Passed(last, p) => p \in swaps
    /\ swaps = {} /\ AllVisited =>
          \A p \in DOMAIN swapOrders : ~ (Matching(p) /\ Ahead(p))

LEMMA CursorIsNat == scan \in ScanType /\ scan.cursor # None => scan.cursor \in Nat
BY DEF ScanType

LEMMA ListPageShape ==
    ASSUME BookInv, scan \in ScanType, scan.type = "List"
    PROVE  \E swaps, last :
              /\ PageShape(swaps, last)
              /\ Query(scan.type, scan.cursor, scan.limit, scan.filter) = Answer(swaps, last)
<1> DEFINE after == After(swapOrders, scan.cursor)
           n == Limit(scan.limit)
           visited == FirstOf(after, n)
           swaps == Page(swapOrders, visited, scan.filter)
           last == Highest(swaps)
<1>1. n \in Nat
  BY LimitIsNat DEF ScanType
<1>2. after = {p \in DOMAIN swapOrders : Ahead(p)}
  BY CursorIsNat, PlaceFacts DEF After, Ahead, Passed
<1>3. after \in SUBSET Nat /\ IsFiniteSet(after) /\ after \subseteq 0 .. count - 1
  <2>1. after \subseteq DOMAIN swapOrders
    BY DEF After
  <2> QED BY <2>1, FiniteLists, FS_Subset, PlaceFacts
<1> HIDE DEF after, n
<1>4. visited \subseteq after /\ swaps = {p \in visited : Matching(p)}
  BY DEF FirstOf, Page, Matching
<1>5. swaps \in SUBSET DOMAIN swapOrders
  BY <1>2, <1>4
<1>6. swaps # {} => last \in swaps
  <2> HIDE DEF swaps
  <2> QED BY <1>5, EndsOfPages
<1>7. \A p \in swaps : Matching(p) /\ Ahead(p) /\ Passed(last, p)
  <2>1. \A p \in swaps : Matching(p) /\ Ahead(p)
    BY <1>2, <1>4
  <2>2. \A p \in swaps : Passed(last, p)
    <3> HIDE DEF swaps
    <3> QED BY <1>5, EndsOfPages DEF Passed
  <2> QED BY <2>1, <2>2
<1>8. ASSUME swaps # {}, NEW p \in DOMAIN swapOrders,
             Matching(p), Ahead(p), Passed(last, p)
      PROVE  p \in swaps
  <2>1. last \in visited /\ p \in after /\ p <= last
    BY <1>2, <1>4, <1>6, <1>8 DEF Passed
  <2>2. p \in visited
    <3> HIDE DEF swaps, last
    <3> QED BY <1>1, <1>3, <2>1, FirstOfClosed
  <2> QED BY <1>4, <1>8, <2>2
<1>9. ASSUME swaps = {}, AllVisited, NEW p \in DOMAIN swapOrders,
             Matching(p), Ahead(p)
      PROVE  FALSE
  <2>1. p \in after
    BY <1>2, <1>9
  <2>2. CASE scan.filter.by = "any"
    <3>1. visited # {}
      BY <1>1, <1>3, <1>9, <2>1, SomeAreVisited DEF AllVisited, n
    <3>2. \A q \in visited : Matching(q)
      BY <2>2 DEF Matching, Matches
    <3> QED BY <1>4, <1>9, <3>1, <3>2
  <2>3. CASE n >= count
    <3>0. count \in Nat
      BY PlaceFacts
    <3>1. visited = after
      BY <1>1, <1>3, <2>3, <3>0, AllAreVisited
    <3> QED BY <1>4, <1>9, <2>1, <3>1
  <2> QED BY <1>9, <2>2, <2>3 DEF AllVisited, n
<1>10. Query(scan.type, scan.cursor, scan.limit, scan.filter) = Answer(swaps, last)
  BY ListPage DEF after, n
<1>11. PageShape(swaps, last)
  <2> HIDE DEF swaps, last
  <2> QED BY <1>5, <1>6, <1>7, <1>8, <1>9 DEF PageShape
<1> QED BY <1>10, <1>11

LEMMA ReversePageShape ==
    ASSUME BookInv, scan \in ScanType, scan.type = "ListReverse"
    PROVE  \E swaps, last :
              /\ PageShape(swaps, last)
              /\ Query(scan.type, scan.cursor, scan.limit, scan.filter) = Answer(swaps, last)
<1> DEFINE before == Before(swapOrders, scan.cursor)
           n == Limit(scan.limit)
           visited == LastOf(before, n)
           swaps == Page(swapOrders, visited, scan.filter)
           last == Lowest(swaps)
<1>1. n \in Nat
  BY LimitIsNat DEF ScanType
<1>2. before = {p \in DOMAIN swapOrders : Ahead(p)}
  BY CursorIsNat, PlaceFacts DEF Before, Ahead, Passed
<1>3. before \in SUBSET Nat /\ IsFiniteSet(before) /\ before \subseteq 0 .. count - 1
  <2>1. before \subseteq DOMAIN swapOrders
    BY DEF Before
  <2> QED BY <2>1, FiniteLists, FS_Subset, PlaceFacts
<1> HIDE DEF before, n
<1>4. visited \subseteq before /\ swaps = {p \in visited : Matching(p)}
  BY DEF LastOf, Page, Matching
<1>5. swaps \in SUBSET DOMAIN swapOrders
  BY <1>2, <1>4
<1>6. swaps # {} => last \in swaps
  <2> HIDE DEF swaps
  <2> QED BY <1>5, EndsOfPages
<1>7. \A p \in swaps : Matching(p) /\ Ahead(p) /\ Passed(last, p)
  <2>1. \A p \in swaps : Matching(p) /\ Ahead(p)
    BY <1>2, <1>4
  <2>2. \A p \in swaps : Passed(last, p)
    <3> HIDE DEF swaps
    <3> QED BY <1>5, EndsOfPages DEF Passed
  <2> QED BY <2>1, <2>2
<1>8. ASSUME swaps # {}, NEW p \in DOMAIN swapOrders,
             Matching(p), Ahead(p), Passed(last, p)
      PROVE  p \in swaps
  <2>1. last \in visited /\ p \in before /\ p >= last
    BY <1>2, <1>4, <1>6, <1>8 DEF Passed
  <2>2. p \in visited
    <3> HIDE DEF swaps, last
    <3> QED BY <1>1, <1>3, <2>1, LastOfClosed
  <2> QED BY <1>4, <1>8, <2>2
<1>9. ASSUME swaps = {}, AllVisited, NEW p \in DOMAIN swapOrders,
             Matching(p), Ahead(p)
      PROVE  FALSE
  <2>1. p \in before
    BY <1>2, <1>9
  <2>2. CASE scan.filter.by = "any"
    <3>1. visited # {}
      BY <1>1, <1>3, <1>9, <2>1, SomeAreVisited DEF AllVisited, n
    <3>2. \A q \in visited : Matching(q)
      BY <2>2 DEF Matching, Matches
    <3> QED BY <1>4, <1>9, <3>1, <3>2
  <2>3. CASE n >= count
    <3>0. count \in Nat
      BY PlaceFacts
    <3>1. visited = before
      BY <1>1, <1>3, <2>3, <3>0, AllAreVisited
    <3> QED BY <1>4, <1>9, <2>1, <3>1
  <2> QED BY <1>9, <2>2, <2>3 DEF AllVisited, n
<1>10. Query(scan.type, scan.cursor, scan.limit, scan.filter) = Answer(swaps, last)
  BY ReversePage DEF before, n
<1>11. PageShape(swaps, last)
  <2> HIDE DEF swaps, last
  <2> QED BY <1>5, <1>6, <1>7, <1>8, <1>9 DEF PageShape
<1> QED BY <1>10, <1>11

-----------------------------------------------------------------------------
\* The scan.

\* What the client has seen is known to the book, and is behind its cursor as
\* long as it is active.
SeenIsBehind ==
    /\ scan.listed \subseteq Known
    /\ scan.cursor = None => scan.listed = {}
    /\ scan.cursor # None =>
          \A id \in scan.listed \cap DOMAIN orderToCount :
             Passed(scan.cursor, orderToCount[id])

ScanInv ==
    /\ scan \in ScanType
    /\ scan.state = "idle" => scan.steady = {} /\ scan.listed = {} /\ scan.cursor = None
    /\ scan.steady \subseteq MatchingIds(scan.filter, swapOrders)
    /\ SeenIsBehind
    /\ ScanFaithful

LEMMA MatchingFacts ==
    ASSUME BookInv
    PROVE  \A id : id \in MatchingIds(scan.filter, swapOrders)
              <=> id \in DOMAIN orderToCount /\ Matching(orderToCount[id])
BY PlaceFacts DEF MatchingIds, Matching

LEMMA AfterStep ==
    ASSUME BookInv, BookInv'
    PROVE  \A filter : MatchingIds(filter, swapOrders') \subseteq DOMAIN orderToCount'
<1>1. BookInv' => \A p \in DOMAIN swapOrders' : swapOrders'[p].id \in DOMAIN orderToCount'
  BY DEF BookInv, BookAgrees, PlacesIndexed
<1> QED BY <1>1 DEF MatchingIds

\* A known order keeps its place while it is active.
LEMMA PlacesKept ==
    ASSUME BookInv, BookNext
    PROVE  /\ Known \subseteq Known'
           /\ \A id \in Known \cap DOMAIN orderToCount' :
                 id \in DOMAIN orderToCount /\ orderToCount'[id] = orderToCount[id]
           /\ count <= count' /\ count' \in Nat
<1>1. CASE NewStep
  <2>1. PICK id \in Ids \ Known : AppendShape(NewOrder(id))
    BY <1>1 DEF NewStep
  <2>2. NewOrder(id).id = id
    BY NewOrderFacts
  <2> QED BY <2>1, <2>2, PlaceFacts DEF AppendShape, Known
<1>2. CASE ChangeStep
  BY <1>2, PlaceFacts DEF ChangeStep, ChangeShape, Known
<1>3. CASE MoveStep
  <2>1. PICK id \in DOMAIN orderToCount, taker \in Users \cup {Nobody} :
          Found(id) /\ MoveShape(id, TakenBy(id, taker))
    BY <1>3 DEF MoveStep, Found
  <2>2. TakenBy(id, taker).id = id
    BY <2>1, TakenByFacts
  <2>3. /\ DOMAIN orderToCount' = DOMAIN orderToCount \ {id}
        /\ \A other \in DOMAIN orderToCount' : orderToCount'[other] = orderToCount[other]
        /\ DOMAIN inactiveOrders' = DOMAIN inactiveOrders \cup {inactiveCount}
        /\ inactiveOrders'[inactiveCount].id = id
        /\ \A p \in DOMAIN inactiveOrders : inactiveOrders'[p] = inactiveOrders[p]
        /\ count' = count
    BY <2>1, <2>2, PlaceFacts DEF MoveShape
  <2> QED BY <2>3, PlaceFacts DEF Known
<1> QED BY <1>1, <1>2, <1>3, BookSteps

LEMMA InitScan == Init => ScanInv
<1> SUFFICES ASSUME Init  PROVE ScanInv
  OBVIOUS
<1>1. PICK type \in {"List", "ListReverse"}, filter \in Filters, limit \in Limits :
        scan = [type |-> type, filter |-> filter, limit |-> limit, cursor |-> None,
                listed |-> {}, again |-> {}, steady |-> {}, state |-> "idle"]
  BY DEF Init
<1>2. scan \in ScanType
  BY <1>1, FilterAssumption DEF ScanType
<1> QED BY <1>1, <1>2 DEF ScanInv, SeenIsBehind, ScanFaithful

LEMMA StartKeeps ==
    ASSUME BookInv, ScanInv, StartScan
    PROVE  ScanInv'
<1>1. /\ scan.state = "idle" /\ scan \in ScanType
      /\ scan.listed = {} /\ scan.cursor = None /\ scan.again = {}
  BY DEF StartScan, ScanInv, ScanFaithful
<1>2. MatchingIds(scan.filter, swapOrders) \subseteq Ids
  BY PlaceFacts DEF MatchingIds, OrderType
<1>3. /\ scan'.state = "reading" /\ scan'.listed = {} /\ scan'.cursor = None
      /\ scan'.again = {} /\ scan'.filter = scan.filter
      /\ scan'.steady = MatchingIds(scan.filter, swapOrders)
      /\ scan' \in ScanType
  BY <1>1, <1>2 DEF StartScan, ScanType
<1>4. swapOrders' = swapOrders
  BY DEF StartScan, bookVars, activeVars
<1> QED BY <1>3, <1>4 DEF ScanInv, SeenIsBehind, ScanFaithful

LEMMA TradeKeeps ==
    ASSUME BookInv, ScanInv, Trade
    PROVE  ScanInv'
<1>1. BookNext /\ BookInv' /\ scan.state # "done" /\ scan \in ScanType
  BY BookSteps, NewKeeps, ChangeKeeps, MoveKeeps DEF Trade, ScanInv
<1>2. scan' = [scan EXCEPT !.steady = scan.steady \cap MatchingIds(scan.filter, swapOrders')]
  BY DEF Trade
<1>3. /\ scan'.type = scan.type /\ scan'.filter = scan.filter /\ scan'.limit = scan.limit
      /\ scan'.cursor = scan.cursor /\ scan'.listed = scan.listed
      /\ scan'.again = scan.again /\ scan'.state = scan.state
      /\ scan'.steady = scan.steady \cap MatchingIds(scan.filter, swapOrders')
      /\ scan' \in ScanType
  BY <1>1, <1>2 DEF ScanType
<1>4. \A id \in scan.listed \cup scan.steady : id \in Known
  BY MatchingFacts DEF ScanInv, SeenIsBehind, Known
<1>5. SeenIsBehind'
  BY <1>1, <1>3, <1>4, PlacesKept DEF ScanInv, SeenIsBehind, Passed
<1>6. ScanFaithful'
  <2>1. \A id \in scan'.steady :
          id \in scan.steady /\ orderToCount'[id] = orderToCount[id]
    BY <1>1, <1>3, <1>4, PlacesKept, AfterStep
  <2> QED BY <1>1, <1>3, <2>1 DEF ScanInv, ScanFaithful, Passed
<1> QED BY <1>1, <1>3, <1>5, <1>6 DEF ScanInv

\* Nothing that was seen comes again, and what matches is seen or ahead.
LEMMA ReadKeeps ==
    ASSUME BookInv, ScanInv, ReadPage
    PROVE  ScanInv'
<1>1. PICK swaps, last :
        /\ PageShape(swaps, last)
        /\ Query(scan.type, scan.cursor, scan.limit, scan.filter) = Answer(swaps, last)
  BY ListPageShape, ReversePageShape DEF ScanInv, ScanType
<1> DEFINE ids == {swapOrders[p].id : p \in swaps}
<1>2. /\ scan \in ScanType /\ scan.state = "reading" /\ UNCHANGED bookVars
      /\ scan.steady \subseteq MatchingIds(scan.filter, swapOrders)
      /\ SeenIsBehind /\ ScanFaithful
  BY DEF ScanInv, ReadPage
<1>3. UNCHANGED <<swapOrders, orderToCount, count, inactiveOrders>>
  BY <1>2 DEF bookVars, activeVars, inactiveVars
<1>4. Known' = Known
  BY <1>3 DEF Known
<1>5. CASE swaps = {}
  <2>1. scan' = [scan EXCEPT !.state = "done"]
    BY <1>1, <1>5 DEF ReadPage, Answer, Empty
  <2>2. /\ scan'.type = scan.type /\ scan'.filter = scan.filter /\ scan'.limit = scan.limit
        /\ scan'.cursor = scan.cursor /\ scan'.listed = scan.listed
        /\ scan'.again = scan.again /\ scan'.state = "done"
        /\ scan'.steady = scan.steady /\ scan' \in ScanType
    BY <1>2, <2>1 DEF ScanType
  <2>3. SeenIsBehind'
    BY <1>2, <1>3, <1>4, <2>2 DEF SeenIsBehind, Passed
  <2>4. ASSUME AllVisited, NEW id \in scan.steady  PROVE id \in scan.listed
    <3>1. id \in DOMAIN orderToCount /\ Matching(orderToCount[id])
      BY <1>2, MatchingFacts
    <3>2. ~ Ahead(orderToCount[id])
      BY <1>1, <1>5, <2>4, <3>1, PlaceFacts DEF PageShape
    <3> QED BY <1>2, <3>2 DEF Ahead, ScanFaithful
  <2>5. AllVisited' => AllVisited
    BY <1>3, <2>2 DEF AllVisited
  <2>6. ScanFaithful'
    BY <1>2, <1>3, <2>2, <2>4, <2>5 DEF ScanFaithful, Passed
  <2> QED BY <1>2, <1>3, <2>2, <2>3, <2>6 DEF ScanInv
<1>6. CASE swaps # {}
  <2>1. /\ Answer(swaps, last).swaps = ids /\ ids # {}
        /\ Answer(swaps, last).last = last
    BY <1>6 DEF Answer
  <2>2. scan' = [scan EXCEPT !.cursor = last, !.listed = scan.listed \cup ids,
                             !.again = scan.again \cup (scan.listed \cap ids)]
    BY <1>1, <2>1 DEF ReadPage
  <2>3. /\ last \in swaps /\ last \in Nat /\ last # None
        /\ \A p \in swaps : /\ p \in DOMAIN swapOrders
                             /\ Matching(p) /\ Ahead(p) /\ Passed(last, p)
        /\ \A p \in DOMAIN swapOrders :
              Matching(p) /\ Ahead(p) /\ Passed(last, p) => p \in swaps
    BY <1>1, <1>6, PlaceFacts DEF PageShape, None
  <2>4. \A id \in ids : id \in DOMAIN orderToCount /\ orderToCount[id] \in swaps /\ id \in Ids
    BY <2>3, PlaceFacts
  <2>5. scan.listed \cap ids = {}
    BY <1>2, <2>3, <2>4 DEF SeenIsBehind, Ahead
  <2> HIDE DEF ids
  <2>6. /\ scan'.type = scan.type /\ scan'.filter = scan.filter /\ scan'.limit = scan.limit
        /\ scan'.cursor = last /\ scan'.listed = scan.listed \cup ids
        /\ scan'.again = scan.again \cup (scan.listed \cap ids)
        /\ scan'.state = "reading" /\ scan'.steady = scan.steady
    BY <1>2, <2>2 DEF ScanType
  <2>7. scan' \in ScanType
    BY <1>2, <2>2, <2>3, <2>4 DEF ScanType
  <2>8. \A id \in DOMAIN orderToCount :
          scan.cursor # None /\ Passed(scan.cursor, orderToCount[id])
             => Passed(last, orderToCount[id])
    <3>1. scan.cursor # None => scan.cursor \in Nat /\ ~ Passed(scan.cursor, last)
      BY <1>2, <2>3, CursorIsNat DEF Ahead
    <3> QED BY <2>3, <3>1, PlaceFacts DEF Passed
  <2>9. SeenIsBehind'
    <3>1. scan'.listed \subseteq Known
      BY <1>2, <2>4, <2>6 DEF SeenIsBehind, Known
    <3>2. \A id \in scan'.listed \cap DOMAIN orderToCount : Passed(last, orderToCount[id])
      BY <1>2, <2>3, <2>4, <2>6, <2>8 DEF SeenIsBehind
    <3> QED BY <1>3, <1>4, <2>3, <2>6, <3>1, <3>2 DEF SeenIsBehind, Passed
  <2>10. ASSUME NEW id \in scan.steady, Passed(last, orderToCount[id])
         PROVE  id \in scan'.listed
    <3>1. id \in DOMAIN orderToCount /\ Matching(orderToCount[id])
      BY <1>2, MatchingFacts
    <3>2. CASE Ahead(orderToCount[id])
      <4>1. orderToCount[id] \in swaps
        BY <2>3, <2>10, <3>1, <3>2, PlaceFacts
      <4>2. id \in ids
        BY <3>1, <4>1, PlaceFacts DEF ids
      <4> QED BY <2>6, <4>2
    <3>3. CASE ~ Ahead(orderToCount[id])
      BY <1>2, <2>6, <3>3 DEF Ahead, ScanFaithful
    <3> QED BY <3>2, <3>3
  <2>11. ScanFaithful'
    BY <1>2, <1>3, <2>3, <2>5, <2>6, <2>10 DEF ScanFaithful, Passed
  <2> QED BY <1>2, <1>3, <2>6, <2>7, <2>9, <2>11 DEF ScanInv
<1> QED BY <1>5, <1>6

LEMMA ScanUnchanged == ScanInv /\ UNCHANGED vars => ScanInv'
BY DEF vars, bookVars, activeVars, inactiveVars, ScanInv, SeenIsBehind, ScanFaithful,
       MatchingIds, Matches, Known, Passed, AllVisited

LEMMA ScanKept == BookInv /\ ScanInv /\ [Next]_vars => ScanInv'
BY StartKeeps, TradeKeeps, ReadKeeps, ScanUnchanged DEF Next

\* Every variable has its type, in every reachable state.
THEOREM TypeCorrect == Spec => []TypeOK
<1>1. Init => BookInv /\ ScanInv
  BY InitBook, InitScan DEF Init
<1>2. BookInv /\ ScanInv => TypeOK
  BY DEF BookInv, ScanInv, TypeOK
<1> QED BY <1>1, <1>2, BookKept, ScanKept, PTL DEF Spec

\* A client that reads a list page by page sees no order twice and misses
\* none that was there throughout, whatever the handlers do in between.
THEOREM ScanFaithfulCorrect == Spec => []ScanFaithful
<1>1. Init => BookInv /\ ScanInv
  BY InitBook, InitScan DEF Init
<1>2. ScanInv => ScanFaithful
  BY DEF ScanInv
<1> QED BY <1>1, <1>2, BookKept, ScanKept, PTL DEF Spec

-----------------------------------------------------------------------------
\* The book implements the store.

SameRecord(id) ==
    PlaceOf(id)' = PlaceOf(id) /\ TermsOf(id)' = TermsOf(id) /\ TakerOf(id)' = TakerOf(id)

\* One record changes, as the store has it.
StoreMoves ==
    \E id \in Ids :
        /\ \A other \in Ids \ {id} : SameRecord(other)
        /\ \/ /\ PlaceOf(id) = "none" /\ PlaceOf(id)' = "active"
              /\ \E maker \in Users, desired \in Users \cup {Nobody} :
                    TermsOf(id)' = [maker |-> maker, desired |-> desired]
              /\ TakerOf(id)' = TakerOf(id)
           \/ /\ PlaceOf(id) = "active" /\ PlaceOf(id)' \in {"active", "inactive"}
              /\ TermsOf(id)' = TermsOf(id)
              /\ TakerOf(id)' \in Users \cup {Nobody}
              /\ PlaceOf(id)' = "inactive" => TakerOf(id)' \in Users

LEMMA MovesAreStoreSteps ==
    ASSUME StoreMoves
    PROVE  Store!Next
<1> DEFINE pl == [id \in Ids |-> PlaceOf(id)]
           te == [id \in Ids |-> TermsOf(id)]
           ta == [id \in Ids |-> TakerOf(id)]
<1>1. PICK id \in Ids :
        /\ \A other \in Ids \ {id} : SameRecord(other)
        /\ \/ /\ PlaceOf(id) = "none" /\ PlaceOf(id)' = "active"
              /\ \E maker \in Users, desired \in Users \cup {Nobody} :
                    TermsOf(id)' = [maker |-> maker, desired |-> desired]
              /\ TakerOf(id)' = TakerOf(id)
           \/ /\ PlaceOf(id) = "active" /\ PlaceOf(id)' \in {"active", "inactive"}
              /\ TermsOf(id)' = TermsOf(id)
              /\ TakerOf(id)' \in Users \cup {Nobody}
              /\ PlaceOf(id)' = "inactive" => TakerOf(id)' \in Users
  BY DEF StoreMoves
<1>2. /\ pl[id] = PlaceOf(id)
      /\ pl' = [pl EXCEPT ![id] = PlaceOf(id)']
      /\ te' = [te EXCEPT ![id] = TermsOf(id)']
      /\ ta' = [ta EXCEPT ![id] = TakerOf(id)']
  BY <1>1 DEF SameRecord
<1>3. /\ TermsOf(id)' = TermsOf(id) => te' = te
      /\ TakerOf(id)' = TakerOf(id) => ta' = ta
      /\ PlaceOf(id)' = PlaceOf(id) => pl' = pl
  BY <1>1 DEF SameRecord
<1> HIDE DEF pl, te, ta
<1>4. CASE PlaceOf(id) = "none"
  <2>1. PICK maker \in Users, desired \in Users \cup {Nobody} :
          TermsOf(id)' = [maker |-> maker, desired |-> desired]
    BY <1>1, <1>4
  <2>2. Store!Create(id, maker, desired)
    BY <1>1, <1>2, <1>3, <1>4, <2>1 DEF Store!Create, Store!Goes, pl, te, ta
  <2> QED BY <2>2 DEF Store!Next
<1>5. CASE PlaceOf(id) = "active" /\ PlaceOf(id)' = "active"
  <2>1. Store!Change(id, TakerOf(id)') /\ TakerOf(id)' \in Users \cup {Nobody}
    BY <1>1, <1>2, <1>3, <1>5 DEF Store!Change, Store!Taken, pl, te, ta
  <2> QED BY <2>1 DEF Store!Next
<1>6. CASE PlaceOf(id) = "active" /\ PlaceOf(id)' = "inactive"
  <2>1. Store!Close(id, TakerOf(id)') /\ TakerOf(id)' \in Users
    BY <1>1, <1>2, <1>3, <1>6 DEF Store!Close, Store!Goes, Store!Taken, pl, te, ta
  <2> QED BY <2>1, NobodyAssumption DEF Store!Next
<1> QED BY <1>1, <1>4, <1>5, <1>6

\* Where an order is, and its record.
Where ==
    \A id \in Ids :
        /\ id \in DOMAIN orderToCount =>
              PlaceOf(id) = "active" /\ RecordOf(id) = swapOrders[orderToCount[id]]
        /\ \A p \in DOMAIN inactiveOrders :
              inactiveOrders[p].id = id =>
                 PlaceOf(id) = "inactive" /\ RecordOf(id) = inactiveOrders[p]
        /\ id \notin Known => PlaceOf(id) = "none"

LEMMA WhereFacts == BookInv => Where
<1> SUFFICES ASSUME BookInv, NEW id \in Ids
             PROVE  /\ id \in DOMAIN orderToCount =>
                          /\ PlaceOf(id) = "active"
                          /\ RecordOf(id) = swapOrders[orderToCount[id]]
                    /\ \A p \in DOMAIN inactiveOrders :
                          inactiveOrders[p].id = id =>
                             PlaceOf(id) = "inactive" /\ RecordOf(id) = inactiveOrders[p]
                    /\ id \notin Known => PlaceOf(id) = "none"
  BY DEF Where
<1>1. Found(id) <=> id \in DOMAIN orderToCount
  BY PlaceFacts DEF Found
<1>2. id \in DOMAIN orderToCount =>
        PlaceOf(id) = "active" /\ RecordOf(id) = swapOrders[orderToCount[id]]
  BY <1>1 DEF PlaceOf, RecordOf, AtomicOrder
<1>3. ASSUME NEW p \in DOMAIN inactiveOrders, inactiveOrders[p].id = id
      PROVE  PlaceOf(id) = "inactive" /\ RecordOf(id) = inactiveOrders[p]
  <2>1. Inactive(id) = {p} /\ ~ Found(id)
    BY <1>1, <1>3, PlaceFacts DEF Inactive, BookInv, BookAgrees, InactiveOnce
  <2>2. (CHOOSE q \in Inactive(id) : TRUE) = p
    BY <2>1
  <2> QED BY <2>1, <2>2 DEF PlaceOf, RecordOf
<1>4. id \notin Known => PlaceOf(id) = "none"
  BY <1>1 DEF PlaceOf, Inactive, Known
<1> QED BY <1>2, <1>3, <1>4

\* An order whose record is where it was, or is in another place, unchanged,
\* is the same to the store.
LEMMA RecordKept ==
    ASSUME BookInv, BookInv', NEW id \in Ids,
           id \in DOMAIN orderToCount =>
              /\ id \in DOMAIN orderToCount'
              /\ swapOrders'[orderToCount'[id]] = swapOrders[orderToCount[id]],
           \A p \in DOMAIN inactiveOrders : inactiveOrders[p].id = id =>
              p \in DOMAIN inactiveOrders' /\ inactiveOrders'[p] = inactiveOrders[p],
           id \notin Known => id \notin Known'
    PROVE  SameRecord(id)
<1>1. Where /\ Where'
  BY WhereFacts, PTL
<1>2. CASE id \in DOMAIN orderToCount
  BY <1>1, <1>2 DEF Where, SameRecord, TermsOf, TakerOf
<1>3. CASE \E p \in DOMAIN inactiveOrders : inactiveOrders[p].id = id
  BY <1>1, <1>3 DEF Where, SameRecord, TermsOf, TakerOf
<1>4. CASE id \notin Known
  BY <1>1, <1>4 DEF Where, SameRecord, TermsOf, TakerOf
<1> QED BY <1>2, <1>3, <1>4 DEF Known

LEMMA NewIsStoreStep ==
    ASSUME BookInv, BookInv', NewStep
    PROVE  StoreMoves
<1>1. PICK id \in Ids \ Known : AppendShape(NewOrder(id))
  BY DEF NewStep
<1>2. NewOrder(id).id = id /\ NewOrder(id) \in OrderType
  BY NewOrderFacts
<1>3. /\ \A p \in DOMAIN swapOrders :
            p \in DOMAIN swapOrders' /\ swapOrders'[p] = swapOrders[p]
      /\ DOMAIN orderToCount' = DOMAIN orderToCount \cup {id}
      /\ orderToCount'[id] = count /\ swapOrders'[count] = NewOrder(id)
      /\ \A other \in DOMAIN orderToCount : orderToCount'[other] = orderToCount[other]
      /\ inactiveOrders' = inactiveOrders
  BY <1>1, <1>2, PlaceFacts DEF AppendShape, Known
<1>4. Where /\ Where'
  BY WhereFacts, PTL
<1>5. ASSUME NEW other \in Ids \ {id}  PROVE SameRecord(other)
  <2>1. other \in DOMAIN orderToCount =>
          /\ other \in DOMAIN orderToCount'
          /\ swapOrders'[orderToCount'[other]] = swapOrders[orderToCount[other]]
    BY <1>3, PlaceFacts
  <2>2. other \notin Known => other \notin Known'
    BY <1>3 DEF Known
  <2> QED BY <1>3, <2>1, <2>2, RecordKept
<1>6. PlaceOf(id) = "none" /\ PlaceOf(id)' = "active"
  BY <1>3, <1>4 DEF Where
<1>7. RecordOf(id)' = NewOrder(id)
  BY <1>3, <1>4 DEF Where
<1>8. NewOrder(id).taker = Nobody
  BY DEF NewOrder
<1>9. TakerOf(id)' = TakerOf(id)
  BY <1>6, <1>7, <1>8 DEF TakerOf
<1>10. /\ TermsOf(id)' = [maker |-> NewOrder(id).maker, desired |-> NewOrder(id).desired]
       /\ NewOrder(id).maker \in Users /\ NewOrder(id).desired \in Users \cup {Nobody}
  BY <1>2, <1>6, <1>7 DEF TermsOf, OrderType
<1> QED BY <1>5, <1>6, <1>9, <1>10 DEF StoreMoves

LEMMA ChangeIsStoreStep ==
    ASSUME BookInv, BookInv', ChangeStep
    PROVE  StoreMoves
<1>1. PICK id \in DOMAIN orderToCount, taker \in Users \cup {Nobody} :
        Found(id) /\ ChangeShape(id, TakenBy(id, taker))
  BY DEF ChangeStep, Found
<1>2. Where /\ Where'
  BY WhereFacts, PTL
<1>3. /\ id \in Ids /\ AtomicOrder(id) = swapOrders[orderToCount[id]]
      /\ swapOrders'[orderToCount[id]] = TakenBy(id, taker)
      /\ \A p \in DOMAIN swapOrders \ {orderToCount[id]} : swapOrders'[p] = swapOrders[p]
      /\ UNCHANGED <<orderToCount, inactiveOrders>>
  BY <1>1, PlaceFacts DEF ChangeShape, AtomicOrder
<1>4. ASSUME NEW other \in Ids \ {id}  PROVE SameRecord(other)
  <2>1. other \in DOMAIN orderToCount =>
          /\ other \in DOMAIN orderToCount'
          /\ swapOrders'[orderToCount'[other]] = swapOrders[orderToCount[other]]
    BY <1>3, PlaceFacts
  <2>2. other \notin Known => other \notin Known'
    BY <1>3 DEF Known
  <2> QED BY <1>3, <2>1, <2>2, RecordKept
<1>5. PlaceOf(id) = "active" /\ PlaceOf(id)' = "active"
  BY <1>2, <1>3 DEF Where
<1>6. RecordOf(id) = AtomicOrder(id) /\ RecordOf(id)' = TakenBy(id, taker)
  BY <1>2, <1>3 DEF Where
<1>7. TermsOf(id)' = TermsOf(id) /\ TakerOf(id)' = taker
  BY <1>5, <1>6, TakenByFacts DEF TermsOf, TakerOf
<1> QED BY <1>3, <1>4, <1>5, <1>7 DEF StoreMoves

LEMMA MoveIsStoreStep ==
    ASSUME BookInv, BookInv', MoveStep
    PROVE  StoreMoves
<1>1. PICK id \in DOMAIN orderToCount, taker \in Users :
        Found(id) /\ MoveShape(id, TakenBy(id, taker))
  BY DEF MoveStep, Found
<1>2. Where /\ Where'
  BY WhereFacts, PTL
<1>3. /\ id \in Ids /\ AtomicOrder(id) = swapOrders[orderToCount[id]]
      /\ DOMAIN swapOrders' = DOMAIN swapOrders \ {orderToCount[id]}
      /\ \A p \in DOMAIN swapOrders' : swapOrders'[p] = swapOrders[p]
      /\ DOMAIN orderToCount' = DOMAIN orderToCount \ {id}
      /\ \A other \in DOMAIN orderToCount' : orderToCount'[other] = orderToCount[other]
      /\ DOMAIN inactiveOrders' = DOMAIN inactiveOrders \cup {inactiveCount}
      /\ inactiveOrders'[inactiveCount] = TakenBy(id, taker)
      /\ \A p \in DOMAIN inactiveOrders : inactiveOrders'[p] = inactiveOrders[p]
  BY <1>1, PlaceFacts DEF MoveShape, AtomicOrder
<1>4. TakenBy(id, taker).id = id
  BY TakenByFacts
<1>5. ASSUME NEW other \in Ids \ {id}  PROVE SameRecord(other)
  <2>1. other \in DOMAIN orderToCount =>
          /\ other \in DOMAIN orderToCount'
          /\ swapOrders'[orderToCount'[other]] = swapOrders[orderToCount[other]]
    BY <1>3, PlaceFacts
  <2>2. other \notin Known => other \notin Known'
    BY <1>3, <1>4 DEF Known
  <2> QED BY <1>3, <2>1, <2>2, RecordKept
<1>6. PlaceOf(id) = "active" /\ RecordOf(id) = AtomicOrder(id)
  BY <1>2, <1>3 DEF Where
<1>7. PlaceOf(id)' = "inactive" /\ RecordOf(id)' = TakenBy(id, taker)
  BY <1>2, <1>3, <1>4 DEF Where
<1>8. TermsOf(id)' = TermsOf(id) /\ TakerOf(id)' = taker
  BY <1>6, <1>7, TakenByFacts DEF TermsOf, TakerOf
<1> QED BY <1>3, <1>5, <1>6, <1>7, <1>8 DEF StoreMoves

LEMMA InitIsStoreInit == Init => Store!Init
<1> SUFFICES ASSUME Init  PROVE Store!Init
  OBVIOUS
<1>1. \A id \in Ids : ~ Found(id) /\ Inactive(id) = {}
  BY DEF Init, BookInit, NoEntries, Found, Inactive
<1>2. \A id \in Ids : PlaceOf(id) = "none"
  BY <1>1 DEF PlaceOf
<1> QED BY <1>2 DEF TermsOf, TakerOf, Store!Init, Store!NoTerms

LEMMA StoreUnchanged ==
    ASSUME UNCHANGED bookVars
    PROVE  UNCHANGED <<[id \in Ids |-> PlaceOf(id)], [id \in Ids |-> TermsOf(id)],
                       [id \in Ids |-> TakerOf(id)]>>
BY DEF bookVars, activeVars, inactiveVars, PlaceOf, TermsOf, TakerOf, RecordOf, Found,
       AtomicOrder, Inactive

LEMMA StoreSteps ==
    ASSUME BookInv, BookInv', [Next]_vars
    PROVE  [Store!Next]_<<[id \in Ids |-> PlaceOf(id)], [id \in Ids |-> TermsOf(id)],
                          [id \in Ids |-> TakerOf(id)]>>
<1>1. CASE BookNext
  <2>1. StoreMoves
    BY <1>1, BookSteps, NewIsStoreStep, ChangeIsStoreStep, MoveIsStoreStep
  <2> QED BY <2>1, MovesAreStoreSteps
<1>2. CASE UNCHANGED bookVars
  BY <1>2, StoreUnchanged
<1> QED BY <1>1, <1>2 DEF Next, StartScan, ReadPage, Trade, vars

\* The lists, the index and the counters implement OrderStore: an order is
\* found until it is moved, keeps its terms, and never changes afterwards.
THEOREM StoreKeptCorrect == Spec => StoreKept
<1>1. Init => BookInv
  BY InitBook DEF Init
<1> QED BY <1>1, BookKept, StoreSteps, InitIsStoreInit, PTL DEF Spec, StoreKept, Store!Spec
=============================================================================
