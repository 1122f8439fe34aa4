SPECIFICATION VoidSpec
CONSTANTS
    branch = branch
    security = security
    on = on
    off = off
    half = half
    alice = alice
    bot = bot
    Surfaces <- MCSurfaces
    Values = {on, off, half}
    Declared <- MCDeclared
    IssueNumbers = {1}
    Humans = {alice}
    Bots = {bot}
    MaxGrants = 1
    Runs = {r1}
    Detectors = {d1}
    Branch = branch
    Security = security
    ReadOrder <- MCOrder
    WriteOrder <- MCOrder
    World = {"label", "unlabel", "setting", "close", "reopen", "fail"}
INVARIANT
    ReappearanceNeedsFreshConsent
