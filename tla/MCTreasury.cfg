SPECIFICATION FairTreasurySpec
CONSTANTS
  Sigs = 2
  Transfers <- DepositAndDust
  MinDeposit = 2
  Amount = 2
  Window = 1
  FinalityLag = 1
  MaxTxs = 2
  MaxFaults = 2
INVARIANTS
  TreasuryTypeOK
  TreasuryCoversLedger
  CursorLeavesNothingBehind
PROPERTIES
  PaidOrRefunded
  WithdrawalEnds
  DepositIsCredited
CHECK_DEADLOCK FALSE
