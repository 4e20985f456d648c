SPECIFICATION FairSpec
CONSTANTS
    NumOwners = 2
    Amounts = {1}
    Configs <- OneConfig
    TermSheets <- ShortTerms
    ActivationDelay = 1
    IntentLifetimes = {1}
    MaxLots = 1
    MaxEventEpoch = 2
    MaxOracleEpoch = 0
    MaxTime = 2
    U64Max = 3
INVARIANTS SettlementCanProceed PaidInFull
PROPERTIES EveryPositionPaid MarketCloses
