CONSTANTS
  NumWitnesses = 3
  InitMiners = 3
  MaxVoted = 1
  MaxMiners = 2
  WordBits = 3
  MaxVotes = 1
  MaxDelta = 1
  GenesisTime = 0
  Interval = 2
  Window = 3
  StartVoting = 4
  BlocksPerDay = 1
  NumHardforks = 1
  KeyHardfork = 1
  HardforkTime <- MCHardforkTime
  Required = 2
  MaxBlocks = 7
  MaxGap = 1
  MaxOps = 1
  Mine = {2}
  StaleProduction = FALSE
  RequiredBits = 1
SPECIFICATION ProductionSpec
CHECK_DEADLOCK FALSE
INVARIANTS SlotsAccounted ParticipationExact
PROPERTIES IrreversibleBacked HardforkMandated ProducesOnTime
