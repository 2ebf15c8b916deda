--------------------------- MODULE MCOrderQueries ---------------------------
(***************************************************************************)
(* An instance of OrderQueries for TLC: one channel, two orders made here  *)
(* and one mirrored, which is open to anyone; the others are for u1.       *)
(***************************************************************************)
EXTENDS OrderQueries

CONSTANTS u1, u2, home, away

MCOffer ==
    [id \in Ids |->
        IF id[1] = away THEN [maker |-> u2, desired |-> Nobody]
        ELSE [maker |-> IF id[2] = 0 THEN u1 ELSE u2, desired |-> u1]]

MCFilters == {[by |-> by, user |-> u1] : by \in {"any", "desired", "maker", "taker"}}
MCLimits == {None, 3}
=============================================================================
