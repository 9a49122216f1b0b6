\* The wiring document says that blocked runtime controls refuse a live order; a
\* stressed market snapshot lifts a hard block.
SPECIFICATION Spec
CONSTANTS
    Signals <- EntryAndStressed
    Rules <- BothRules
    Tickets = {t1}
    NoSignal = NoSignal
    NoJob = NoJob
    HasRepository = TRUE
    MaxRestarts = 0
    MaxAttempts = 1
PROPERTIES
    NoOrderAgainstRuntimeControls
