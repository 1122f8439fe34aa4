SPECIFICATION Spec
CONSTANTS
    conf = conf
    ci = ci
    pages = pages
    license = license
    index = index
    py = py
    node = node
    t1 = t1
    t2 = t2
    None = None
    Mine = Mine
    Passive = {conf}
    Automation = {ci, pages}
    Seeds = {license}
    Order <- MCOrder
    Profiles = {py}
    Versions = {1, 2}
    Tokens = {t1, t2}
    Template <- MCTemplate
    DocsChoices = {TRUE, FALSE}
    World = {"docs"}
    MaxMoves = 1
INVARIANT
    OffboardLeavesNothing
