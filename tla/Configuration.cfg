SPECIFICATION ConfigSpec
CONSTANTS
  None = None
  Setups <- MCSetups
  MaxCommands = 3
INVARIANTS ValuesFollow CachedWins FoundAgain
