SPECIFICATION Spec
CONSTANTS
    lint = lint
    ci = ci
    Checks = {lint, ci}
    MaxReviews = 2
    Approvals = 1
    Template = {lint}
    Produced = {lint, ci}
    World = {"classic", "ruleset", "foreign", "toggle", "merge"}
    MaxMoves = 2
INVARIANTS
    TypeOK
    FirstPushIsNotBlocked
    ReportIsTrue
    CleanReadingHidesNoBypass
PROPERTIES
    OnlyLateProtectionIsDropped
    OthersRulesetsAreSpared
    SettledStaysSettled
