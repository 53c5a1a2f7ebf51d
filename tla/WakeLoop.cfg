\* Two daemons that overlap, that end now and then; two workspaces and All, so
\* that a note has a predecessor and a successor.
SPECIFICATION FairSpec
CONSTANTS
    Daemons = {d1, d2}
    Workspaces = {w1, w2}
    All = All
    NoScope = NoScope
    MaxExits = 2
INVARIANTS FocusHeld
PROPERTIES PromiseKept ForcedPassComes FocusPassComes
