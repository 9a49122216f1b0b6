SPECIFICATION Spec
CONSTANTS
    Candles <- MCCandles
    Readings <- MCReadings
    Rules <- MCRules
    Context <- MCContext
    Grain = 100000
    Window = 6
    Reach = 1
INVARIANTS
    BreaksClearEveryLevel
    TicketsAreOrdered
    BonusMakesNoSetup
