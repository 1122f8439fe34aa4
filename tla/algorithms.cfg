SPECIFICATION MCSpec
CONSTANTS
    branch = branch
    on = on
    off = off
    half = half
    alice = alice
    bot = bot
    Surfaces <- MCSurfaces
    Values = {on, off, half}
    Declared <- MCDeclared
    IssueNumbers = {1}
    TheIssue = 1
    Humans = {alice}
    Bots = {bot}
    MaxGrants = 2
    MaxEntries = 4
    None <- MCNone
    Unset <- MCUnset
    Texts = {"True", "False", "yes", "word"}
    TrueTexts = {"True", "yes"}
    FalseTexts = {"False"}
    Domain = {"word", "True"}
    Library <- MCLibrary
    Profiles <- MCProfiles
    Overrides <- MCOverrides
    Manifest <- MCManifest
    Floor <- MCFloor
    Reconcilable <- MCReconcilable
    Tools <- MCTools
    Pins <- MCPins
INVARIANTS
    ReductionReflectsHistory
    MembershipFollowsLastMention
    RequiredChecksAreProduced
    OverridesAreNeverDropped
    BaselineHolds
    ValuesRoundTrip
    OlderToolsStayOut
CHECK_DEADLOCK FALSE
