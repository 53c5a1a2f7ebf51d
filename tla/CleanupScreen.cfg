\* Two worktrees, one of them open in herdr, and two deeds of people.
SPECIFICATION FairSpec
CONSTANTS
    Number = 2
    Flaky = {}
    Start <- TwoTrees
    MaxDeeds = 2
INVARIANTS TypeOK OnlyShownRemoved TableCatchesUp CheckedAtTheEnd
PROPERTIES SelectionKept QuitCloses
CHECK_DEADLOCK FALSE
