\* A chain of four accounts is longer than MaxDepth = 3, loops of two and three
\* are not; three shares in all make sums that tell accounts apart.
CONSTANTS
  a1 = a1  a2 = a2  a3 = a3  a4 = a4  w1 = w1  p1 = p1  none = none
  Accounts = {a1, a2, a3, a4}
  Witnesses = {w1}
  Platforms = {p1}
  Self = none
  MaxDepth = 3
  MaxVotes = 1
  MaxShares = 3
SPECIFICATION Spec
SYMMETRY AccountSymmetry
INVARIANTS ProxiedExact WitnessVotesExact EveryShareCountedOnce NoProxyLoop
