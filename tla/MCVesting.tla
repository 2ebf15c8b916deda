----------------------------- MODULE MCVesting -----------------------------
(***************************************************************************)
(* An instance of Vesting for TLC: two swap contracts that use the same    *)
(* order ids.  Seven units do not divide by three, and two of the thirds   *)
(* are due together; "wrong" does not add up; "endless" overflows u64.     *)
(***************************************************************************)
EXTENDS Vesting

After(interval, share) == [interval |-> interval, share |-> share]

thirds == <<After(1, 3333), After(1, 3333), After(0, 3334)>>
wrong == <<After(1, 5000)>>
endless == <<After(0, 5000), After(9, 5000)>>

MCSchedules == {thirds, wrong, endless}
=============================================================================
