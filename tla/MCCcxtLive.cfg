\* Operators who await each submission, on a repository, over one crash.
SPECIFICATION Spec
CONSTANTS
    Signals <- EntryAndClose
    Rules <- OneRule
    Tickets = {t1, t2}
    NoSignal = NoSignal
    NoJob = NoJob
    HasRepository = TRUE
    MaxRestarts = 1
    MaxAttempts = 2
    MaxInFlight = 1
INVARIANTS
    TypeOK
    AnsweredOncePerTicket
    OrdersTracked
PROPERTIES
    HaltAdmitsNoCall
    KeepsContract
SYMMETRY TicketSymmetry
