----------------------------- MODULE AtomicSwap -----------------------------
(***************************************************************************)
(* What makers and buyers are promised of an order without bids, with no   *)
(* chain, packet or record in sight: its sell tokens are escrowed, one     *)
(* buyer at a time has buy tokens in escrow for it, and either both change *)
(* hands, the sell tokens first, or everybody gets back what is his.       *)
(***************************************************************************)
CONSTANTS Orders, Users, NoUser

VARIABLES
    phase,   \* phase[o]: how far the order has come
    buyer    \* buyer[o]: whose buy tokens are in escrow, and after the sale
             \* who bought

Phases == {"none", "offered", "sold", "paid", "returned"}

TypeOK ==
    /\ phase \in [Orders -> Phases]
    /\ buyer \in [Orders -> Users \cup {NoUser}]

Init ==
    /\ phase = [o \in Orders |-> "none"]
    /\ buyer = [o \in Orders |-> NoUser]

Goes(o, from, to) == phase[o] = from /\ phase' = [phase EXCEPT ![o] = to]

\* The maker escrows the sell tokens.
Escrow(o) ==
    /\ Goes(o, "none", "offered")
    /\ UNCHANGED buyer

\* A buyer escrows the buy tokens, if nobody else has.
Enter(o, u) ==
    /\ phase[o] = "offered" /\ buyer[o] = NoUser
    /\ buyer' = [buyer EXCEPT ![o] = u]
    /\ UNCHANGED phase

\* The buyer gets the buy tokens back.
Leave(o) ==
    /\ phase[o] = "offered" /\ buyer[o] # NoUser
    /\ buyer' = [buyer EXCEPT ![o] = NoUser]
    /\ UNCHANGED phase

\* The buyer gets the sell tokens.
Sell(o) ==
    /\ buyer[o] # NoUser
    /\ Goes(o, "offered", "sold")
    /\ UNCHANGED buyer

\* The maker gets the buy tokens of the one who bought.
Pay(o) ==
    /\ Goes(o, "sold", "paid")
    /\ UNCHANGED buyer

\* The maker gets the sell tokens back, while no buyer is waiting.
Return(o) ==
    /\ buyer[o] = NoUser
    /\ Goes(o, "offered", "returned")
    /\ UNCHANGED buyer

Next ==
    \E o \in Orders :
        \/ Escrow(o) \/ Leave(o) \/ Sell(o) \/ Pay(o) \/ Return(o)
        \/ \E u \in Users : Enter(o, u)

Spec == Init /\ [][Next]_<<phase, buyer>>
=============================================================================
