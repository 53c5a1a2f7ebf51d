\* Two popups of one name and one delivery, whatever the users do.
SPECIFICATION Spec
CONSTANTS
    Popups = {p1, p2}
    Hooks = {h1}
    NoTree = NoTree
    Free = Free
    Orphan = Orphan
    Manners = {FALSE}
INVARIANTS SelectedBaseNeverMoved
CHECK_DEADLOCK FALSE
