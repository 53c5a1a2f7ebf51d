\* One workspace that moves between two checkouts or closes, while the refs and
\* the HEAD files change.
SPECIFICATION FairSpec
CONSTANTS
    Workspaces = {w1}
    Checkouts = {c1, c2}
    NoPlace = NoPlace
    NotWatched = NotWatched
    Blank = Blank
    Unread = Unread
    Nobody = Nobody
    MaxRefs = 2
    MaxHead = 1
    MaxPlaces = 2
INVARIANTS NoMissedChange
PROPERTIES NeverOlder LeftPlaceSilent DisabledSilent ChangesAppear
