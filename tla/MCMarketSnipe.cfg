SPECIFICATION Spec
CONSTANTS
  SETTLEMENT_DEBOUNCE = 1
  ASSUMED_FEED_DELAY = 1
  Kinds = {"goal", "phase_change", "stat_update", "red_card", "odds_suspension"}
  Gaps = {}
  Players = {"ann"}
  SideOf <- OneTeam
  MaxEvents = 5
  MaxBacklog = 3
  MaxReversals = 1
  Positions = {p1}
  ClaimSpecs <- TotalsClaim
  MaxTime = 4
PROPERTIES
  SnipedNeverCounts
CHECK_DEADLOCK FALSE
