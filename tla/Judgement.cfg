SPECIFICATION Spec
CONSTANTS
    Areas = {a1, a2}
    RemoteRefs <- SomeRefs
    LocalBranches = {"main", "feat"}
    Detached = Detached
    TrackingNames <- SomeNames
    Repos <- SomeRepos
    Config <- Settings
    Daemon = "daemon"
    Limits <- SomeLimits
SYMMETRY Symmetry
INVARIANTS NothingOnlyHere IntegrationCheckoutSilent CatchupTruth
CHECK_DEADLOCK FALSE
