SPECIFICATION Spec
CONSTANTS
    conf = conf
    ci = ci
    pages = pages
    license = license
    index = index
    py = py
    node = node
    t1 = t1
    t2 = t2
    None = None
    Mine = Mine
    Passive = {conf}
    Automation = {ci}
    Seeds = {license}
    Order <- MCOrder
    Profiles = {py, node}
    Versions = {1, 2}
    Tokens = {t1, t2}
    Template <- MCTemplate
    DocsChoices = {FALSE}
    World = {"crash", "edit", "own", "tamper", "delete", "lose", "sidecar", "tool", "proposal"}
    MaxMoves = 2
INVARIANTS
    TypeOK
    CompletionIsSettled
    InterruptedRunsResume
PROPERTY
    OperatorWorkSurvives
