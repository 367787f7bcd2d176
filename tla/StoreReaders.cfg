\* One program adds while another one verifies, and a file rots.
SPECIFICATION Spec
CONSTANTS
    p1 = p1
    p2 = p2
    g1 = g1
    g2 = g2
    Paths = {p1, p2}
    Programs = {g1, g2}
    CommandsOf <- AddingWhileVerifying
    NoName = 0
    MaxClock = 3
    MaxEdits = 1
    MaxKills = 0
    MaxCorruptions = 1
INVARIANTS
    ReadersSeeALog
PROPERTIES
    VerifiedRestores
