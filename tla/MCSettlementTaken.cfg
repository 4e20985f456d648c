SPECIFICATION FairLoopSpec
CONSTANTS
  SETTLEMENT_DEBOUNCE = 1
  ASSUMED_FEED_DELAY = 0
  Claim <- AnyGoal
  Scripts <- CheckedMatch
  Positions = {"back", "doubt"}
  Backers = {"back"}
  Stake <- Stakes
  MULT_SCALE = 2
  RatioMilli = 3
  MaxTime = 0
  MaxFaults = 0
  MaxBusy = 1
  Ticks = {tick1}
  Voiders = {voider1}
  Sweepers = {sweeper1}
PROPERTIES
  FinishedIsSettled
CHECK_DEADLOCK FALSE
