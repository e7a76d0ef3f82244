CONSTANTS
  honest = honest
  flaky = flaky
  Peers = {honest, flaky}
  Reliable = {honest}
  Asking = {flaky}
  Chain <- MCChain
  InitialHave <- MCHave
  MaxIds = 2
  MinPrefetch = 1
  MaxPerPeer = 2
  MaxHandled = 2
  MaxPrefetch = 1
  MaxConnects = 1
SPECIFICATION Spec
CHECK_DEADLOCK FALSE
INVARIANTS RequestsOwed 
PROPERTIES Synchronises
