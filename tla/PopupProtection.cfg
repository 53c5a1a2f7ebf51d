\* Two creations of one name by careful users and by others, two deliveries of
\* its events.
SPECIFICATION Spec
CONSTANTS
    Popups = {p1, p2}
    Hooks = {h1, h2}
    NoTree = NoTree
    Free = Free
    Orphan = Orphan
    Manners = {TRUE, FALSE}
SYMMETRY Symmetry
INVARIANTS ProtectedWhileRunning SelectedBaseKept
PROPERTIES PendingNeverErased UpstreamKept
CHECK_DEADLOCK FALSE
