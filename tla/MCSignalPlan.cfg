SPECIFICATION Spec
CONSTANTS
    Payloads <- MCPayloads
    Alerts <- MCAlerts
    Overrides <- MCOverrides
    Texts <- MCTexts
    Configs <- MCConfigs
    Accounts <- MCAccounts
    Venues <- MCVenues
    Nothing = Nothing
    LeastOrder = 450
INVARIANTS
    LossWithinCap
    LiveEntriesAreProtected
    SidesMirror
    ParkedSignalIsTheSame
    ShapesAgree
    PreviewMatchesVerdict
