\* Two processes have judged the same lock stale: can both come out as its owner?
SPECIFICATION RaceSpec
CONSTANTS
    Daemons = {d1, d2}
    NoFile = NoFile
    Unwritten = Unwritten
    Former = Former
    Leftovers = {Former}
    HeartbeatInterval = 1
    MaxLate = 0
    MaxMissed = 0
    FaultyReads = FALSE
    StaleAfter = 3
INVARIANTS OnlyOneWins
