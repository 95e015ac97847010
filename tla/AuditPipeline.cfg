\* A job with up to two winners and one trouble.
CONSTANTS
    MaxWinners = 2
    MaxTroubles = 1
SPECIFICATION Audits
INVARIANT CountedAndShown
PROPERTY CyclesEnd HeardIsReported
CHECK_DEADLOCK FALSE
