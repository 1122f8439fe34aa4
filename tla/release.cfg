SPECIFICATION Spec
CONSTANTS
    Start <- MCStart
    Changes <- MCChanges
    Prereleases <- MCPrereleases
    World = {"revert", "update"}
    MaxCommits = 5
    MaxFailures = 2
INVARIANTS
    TypeOK
    TaggedManifestAgrees
    VersionsGrowAlongHistory
    ReleasesCarryChanges
    NothingIsForgotten
PROPERTY
    FloatingNeverRegresses
CHECK_DEADLOCK FALSE
