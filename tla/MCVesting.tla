------------------------------ MODULE MCVesting ------------------------------
(* Small instances of Vesting.  No definition of it orders accounts.       *)
EXTENDS Vesting, TLC

CONSTANTS a1, a2, w1, none

AskedFor == {-1, 0, 2, 5}

AccountSymmetry == Permutations(Accounts)
=============================================================================
