--------------------------- MODULE AtomicAuction ----------------------------
(***************************************************************************)
(* What makers, takers and bidders are promised of an order, with no       *)
(* chain, packet or record in sight.  Users put tokens in and get them     *)
(* back; the sell tokens change hands once, for a price that the buyer has *)
(* put in; from then on nothing moves until the maker has that price from  *)
(* that buyer, and nobody else pays for it.                                *)
(***************************************************************************)
EXTENDS Integers

CONSTANTS
    Orders, Users, NoUser,
    MayBuy,    \* MayBuy[o]: the users the maker of o sells to
    Amounts    \* amounts a user may put in at once

VARIABLES
    phase,   \* phase[o]: how far the order has come
    stake,   \* stake[o][u]: what u has in escrow for o
    buyer,   \* buyer[o]: who bought o
    due      \* due[o]: what the maker has yet to get from the buyer

Phases == {"none", "offered", "sold", "paid", "returned"}

Init ==
    /\ phase = [o \in Orders |-> "none"]
    /\ stake = [o \in Orders |-> [u \in Users |-> 0]]
    /\ buyer = [o \in Orders |-> NoUser]
    /\ due = [o \in Orders |-> 0]

Goes(o, from, to) == phase[o] = from /\ phase' = [phase EXCEPT ![o] = to]

\* The maker escrows the sell tokens.
Escrow(o) ==
    /\ Goes(o, "none", "offered")
    /\ UNCHANGED <<stake, buyer, due>>

\* A user puts tokens in: to take the order, to bid, or to raise a bid.
PutIn(o, u) ==
    /\ phase[o] \in {"offered", "returned"}
    /\ \E n \in Amounts : stake' = [stake EXCEPT ![o][u] = @ + n]
    /\ UNCHANGED <<phase, buyer, due>>

\* A user gets tokens back, and never more than it has put in.
TakeOut(o, u) ==
    /\ phase[o] \notin {"none", "sold"}
    /\ \E n \in 1 .. stake[o][u] : stake' = [stake EXCEPT ![o][u] = @ - n]
    /\ UNCHANGED <<phase, buyer, due>>

\* A user gets the sell tokens, for a price that is in escrow.
Sell(o, u) ==
    /\ u \in MayBuy[o]
    /\ Goes(o, "offered", "sold")
    /\ buyer' = [buyer EXCEPT ![o] = u]
    /\ \E price \in 1 .. stake[o][u] : due' = [due EXCEPT ![o] = price]
    /\ UNCHANGED stake

\* The maker gets the price of the sale from the buyer's escrow.
Pay(o) ==
    /\ Goes(o, "sold", "paid")
    /\ stake' = [stake EXCEPT ![o][buyer[o]] = @ - due[o]]
    /\ due' = [due EXCEPT ![o] = 0]
    /\ UNCHANGED buyer

\* The maker gets the sell tokens back.
Return(o) ==
    /\ Goes(o, "offered", "returned")
    /\ UNCHANGED <<stake, buyer, due>>

Next ==
    \E o \in Orders :
        \/ Escrow(o) \/ Pay(o) \/ Return(o)
        \/ \E u \in Users : PutIn(o, u) \/ TakeOut(o, u) \/ Sell(o, u)

Spec == Init /\ [][Next]_<<phase, stake, buyer, due>>
=============================================================================
