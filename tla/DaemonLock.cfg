\* Two daemons; a heartbeat every tick that may be one tick late, and one in a
\* row that may come to nothing.
SPECIFICATION FairSpec
CONSTANTS
    Daemons = {d1, d2}
    NoFile = NoFile
    Unwritten = Unwritten
    Former = Former
    Leftovers = {NoFile, Unwritten, Former}
    HeartbeatInterval = 1
    MaxLate = 1
    MaxMissed = 1
    FaultyReads = TRUE
    StaleAfter = 7
INVARIANTS NeverJudgedDead OverlapBounded StoppedLeavesNoLock
PROPERTIES LateWriteNeverSteals Convergence
