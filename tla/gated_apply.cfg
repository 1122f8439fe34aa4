SPECIFICATION AuditSpec
CONSTANTS
    branch = branch
    security = security
    on = on
    off = off
    alice = alice
    bot = bot
    Surfaces <- MCSurfaces
    Values = {on, off}
    Declared <- MCDeclared
    IssueNumbers = {1, 2}
    Humans = {alice}
    Bots = {bot}
    MaxGrants = 1
    Runs = {r1}
    Detectors = {}
    Branch = branch
    Security = security
    ReadOrder <- MCOrder
    WriteOrder <- MCOrder
    World = {"label", "unlabel", "botedit", "close", "reopen", "open", "fail", "role"}
INVARIANT
    WritesRestOnFreshConsent
PROPERTY
    ImplementsGatedApply
