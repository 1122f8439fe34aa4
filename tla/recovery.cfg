SPECIFICATION AdviceSpec
CONSTANTS
    lint = lint
    ci = ci
    Checks = {lint, ci}
    MaxReviews = 2
    Approvals = 1
    Template = {lint}
    Produced = {lint, ci}
    World = {}
    MaxMoves = 0
INVARIANT
    RecoveryAdviceHelps
