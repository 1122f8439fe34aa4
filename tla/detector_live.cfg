SPECIFICATION FairSpec
CONSTANTS
    branch = branch
    security = security
    on = on
    off = off
    half = half
    alice = alice
    bot = bot
    Surfaces <- MCSurfaces
    Values = {on, off, half}
    Declared <- MCDeclared
    IssueNumbers = {1, 2}
    Humans = {alice}
    Bots = {bot}
    MaxGrants = 2
    Runs = {}
    Detectors = {d1}
    Branch = branch
    Security = security
    ReadOrder <- MCOrder
    WriteOrder <- MCOrder
    World = {"label", "unlabel", "setting", "close", "fail"}
INVARIANT
    OneTrackingIssue
PROPERTIES
    StaleConsentIsVoided
    DriftIsReported
