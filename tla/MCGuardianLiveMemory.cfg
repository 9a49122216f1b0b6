\* The life cycle without a repository, where a crash loses the tickets, and what
\* a halt and a submission are guaranteed.
SPECIFICATION FairSpec
CONSTANTS
    Signals <- EntryAndClose
    Rules <- NoRules
    Tickets = {t1, t2}
    NoSignal = NoSignal
    NoJob = NoJob
    HasRepository = FALSE
    MaxRestarts = 1
    MaxAttempts = 2
PROPERTIES
    HaltTakesEffect
    SubmitReturns
