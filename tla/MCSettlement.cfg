SPECIFICATION LoopSpec
CONSTANTS
  SETTLEMENT_DEBOUNCE = 1
  ASSUMED_FEED_DELAY = 0
  Claim <- AnyGoal
  Scripts <- ShortMatches
  Positions = {"back", "doubt"}
  Backers = {"back"}
  Stake <- Stakes
  MULT_SCALE = 2
  RatioMilli = 3
  MaxTime = 0
  MaxFaults = 1
  MaxBusy = 2
  Ticks = {tick1, tick2}
  Voiders = {voider1}
  Sweepers = {sweeper1}
SYMMETRY SameTick
INVARIANTS
  LoopTypeOK
  OneOutcome
  EscrowCoversCredits
  AppliedPaysEveryone
PROPERTIES
  TerminalStatusIsFinal
CHECK_DEADLOCK FALSE
