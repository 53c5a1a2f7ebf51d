\* The goroutines of the keys and one that may panic; pairs of keys, in pieces
\* of any length.
SPECIFICATION FairSpec
CONSTANTS
    Workers = {"reader", "keyer", "gather"}
    Faulty = {"gather"}
    Nobody = Nobody
    Presses = {"esc", "up", "alt", "wide"}
    MaxPresses = 2
    KeyRoom = 1
    MaxResizes = 1
INVARIANTS HeardAsPressed RestoredAtEnd
PROPERTIES PressesHeard SignalEnds
CHECK_DEADLOCK FALSE
