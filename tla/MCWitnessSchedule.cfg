CONSTANTS
  NumWitnesses = 3
  MaxVoted = 1
  MaxMiners = 2
  WordBits = 3
  MaxVotes = 2
  MaxDelta = 1
SPECIFICATION RoundsSpec
INVARIANTS VirtualTimeSound
PROPERTIES EveryoneTakesTurns
