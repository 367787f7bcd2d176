\* Two workers: add-snapshot with the web tracker, verify and restore with the terminal.
SPECIFICATION FairSpec
CONSTANTS
    w1 = w1
    w2 = w2
    Workers = {w1, w2}
    Commands <- PassingCommands
    UInt64Size = 16
INVARIANTS
    TypeOK
    FinishedIsComplete
    ProgressAtMostOne
PROPERTIES
    EveryCommandEnds
