SPECIFICATION Spec
CONSTANTS
    Start <- MCStart
    Changes <- MCChanges
    Prereleases <- MCPrereleases
    World = {"revert", "update"}
    MaxCommits = 5
    MaxFailures = 1
PROPERTY
    FloatingNeverGoesBack
CHECK_DEADLOCK FALSE
