SPECIFICATION Spec
CONSTANTS
    NumOwners = 1
    Amounts = {2}
    Configs <- OneConfig
    TermSheets <- InPlayTerms
    ActivationDelay = 1
    IntentLifetimes = {1}
    MaxLots = 2
    MaxEventEpoch = 3
    MaxOracleEpoch = 0
    MaxTime = 4
    U64Max = 100
INVARIANTS TypeOK NoStakeActiveThroughEvent NoDuplicatePlacement TotalsMatchLots
