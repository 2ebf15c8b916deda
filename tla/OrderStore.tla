----------------------------- MODULE OrderStore -----------------------------
(***************************************************************************)
(* What the handlers take the order store to be, and the models of the     *)
(* swaps build on: one record per order, created once, found while it is   *)
(* active, and never changed again once it is inactive, with its buyer.    *)
(* Who made it for whom never changes, only the taker does.                *)
(***************************************************************************)
CONSTANTS Ids, Users, Nobody

VARIABLES
    place,   \* place[id]: "none", "active" or "inactive"
    terms,   \* terms[id]: maker and desired taker, as the order was made
    taker    \* taker[id]: the taker in the order's record

Places == {"none", "active", "inactive"}
NoTerms == [maker |-> Nobody, desired |-> Nobody]

Init ==
    /\ place = [id \in Ids |-> "none"]
    /\ terms = [id \in Ids |-> NoTerms]
    /\ taker = [id \in Ids |-> Nobody]

Goes(id, from, to) == place[id] = from /\ place' = [place EXCEPT ![id] = to]
Taken(id, u) == taker' = [taker EXCEPT ![id] = u]

Create(id, maker, desired) ==
    /\ Goes(id, "none", "active")
    /\ terms' = [terms EXCEPT ![id] = [maker |-> maker, desired |-> desired]]
    /\ UNCHANGED taker

Change(id, u) ==
    /\ place[id] = "active"
    /\ Taken(id, u)
    /\ UNCHANGED <<place, terms>>

Close(id, u) ==
    /\ Goes(id, "active", "inactive")
    /\ Taken(id, u)
    /\ UNCHANGED terms

Next ==
    \E id \in Ids, u \in Users \cup {Nobody} :
        \/ \E maker \in Users : Create(id, maker, u)
        \/ Change(id, u)
        \/ u # Nobody /\ Close(id, u)

Spec == Init /\ [][Next]_<<place, terms, taker>>
=============================================================================
