SPECIFICATION LiveSpec
CONSTANTS
  T1 = T1
  T2 = T2
  T3 = T3
  T4 = T4
  T5 = T5
  A1 = A1
  A2 = A2
  A3 = A3
  A4 = A4
  B3 = B3
  B4 = B4
  B5 = B5
  C2 = C2
  C3 = C3
  C4 = C4
  X3 = X3
  Y4 = Y4
  Z3 = Z3
  t1 = t1
  t2 = t2
  t3 = t3
  Genesis = Genesis
  NoBlock = NoBlock
  NoSlot = NoSlot
  Block <- GoodBlocks
  Valid <- GoodBlocks
  previous <- MCprevious
  num <- MCnum
  lib <- MClib
  transactions <- MCtransactions
  Tx <- MCTx
  expiration <- MCexpiration
  ref_block <- MCref_block
  depth <- MCdepth
  MaxUndoHistory = 10
  MaxNum = 5
  MaxPending = 3
PROPERTIES
  Converges
