\* Five shares in two intervals leave as 2, 2 and 1; half of an odd part
\* is rounded.
CONSTANTS
  a1 = a1  a2 = a2  w1 = w1  none = none
  Accounts = {a1, a2}
  Witnesses = {w1}
  Platforms = {}
  Self = none
  MaxDepth = 1
  MaxVotes = 1
  MaxShares = 5
  Intervals = 2
  Whole = 2
  MaxRoutes = 2
  MinVests = 0
  Amounts <- AskedFor
SPECIFICATION VestingSpec
SYMMETRY AccountSymmetry
INVARIANTS WitnessVotesExact WithdrawalExact
