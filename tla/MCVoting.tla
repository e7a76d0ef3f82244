------------------------------ MODULE MCVoting ------------------------------
(* Small instances of Voting.  No definition of Voting orders accounts.    *)
EXTENDS Voting, TLC

CONSTANTS a1, a2, a3, a4, w1, p1, none

AccountSymmetry == Permutations(Accounts)
=============================================================================
