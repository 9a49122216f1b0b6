\* Safety of the ticket's life cycle on a repository, over one crash.
SPECIFICATION Spec
CONSTANTS
    Signals <- EntryAndClose
    Rules <- OneRule
    Tickets = {t1, t2}
    NoSignal = NoSignal
    NoJob = NoJob
    HasRepository = TRUE
    MaxRestarts = 1
    MaxAttempts = 2
INVARIANTS
    IInv
    AnsweredOncePerTicket
    LeverageAsRequested
PROPERTIES
    GatesHoldAtPlacement
    KeepsContract
SYMMETRY TicketSymmetry
