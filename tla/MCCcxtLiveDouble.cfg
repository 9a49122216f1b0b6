\* Two submissions of one ticket whose calls are in flight together.
SPECIFICATION Spec
CONSTANTS
    Signals <- OneEntry
    Rules <- NoRules
    Tickets = {t1}
    NoSignal = NoSignal
    NoJob = NoJob
    HasRepository = TRUE
    MaxRestarts = 0
    MaxAttempts = 2
    MaxInFlight = 2
INVARIANTS
    AnsweredOncePerTicket
