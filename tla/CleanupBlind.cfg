\* herdr is out of reach when the table is made and again at the last look.
SPECIFICATION Spec
CONSTANTS
    Number = 1
    Flaky = {}
    Start <- OneTree
    MaxDeeds = 2
INVARIANTS UnknownAgentProtected
CHECK_DEADLOCK FALSE
