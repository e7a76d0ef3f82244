CONSTANTS
  alice = alice
  bob = bob
  carol = carol
  ka = ka
  kc = kc
  song = song
  ByName <- MCByName
  Keys = {ka, kc}
  Contents = {song}
  MaxRecursion = 1
  Proposable <- MCProposable
  Direct <- MCDirect
  InitialWorld <- MCWorld
  MaxProposals = 1
  MaxFunds = 1
  MaxTime = 4
  Lifetimes = {1, 3}
  ReviewPeriods <- MCReviews
SPECIFICATION Spec
CHECK_DEADLOCK FALSE
  
PROPERTIES ReviewRespected EndsForAReason
