\* Signed alerts that may need approval and a halting Edge action, on a
\* repository, over one crash.
SPECIFICATION WebhooksFairSpec
CONSTANTS
    Signals <- EntriesAndClose
    Rules <- NoRules
    NoSignal = NoSignal
    NoJob = NoJob
    HasRepository = TRUE
    RequireApproval = FALSE
    MaxRestarts = 1
    Stamps = {1}
    EdgeEvents <- HaltingAction
    NoEdge = NoEdge
INVARIANTS
    WebhooksTypeOK
    DecidedOnce
    ClaimedIsAccountedFor
    EdgeIsAccountedFor
PROPERTIES
    HaltFreezesIntake
    ClaimedIsSettled
    EdgeHaltTakesEffect
