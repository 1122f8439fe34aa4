SPECIFICATION Spec
CONSTANTS
    conf = conf
    ci = ci
    pages = pages
    license = license
    index = index
    py = py
    node = node
    t1 = t1
    t2 = t2
    None = None
    Mine = Mine
    Passive = {conf}
    Automation = {ci}
    Seeds = {license, index}
    Order <- MCOrder
    Profiles = {py}
    Versions = {1, 2}
    Tokens = {t1, t2}
    Template <- MCTemplate
    DocsChoices = {TRUE, FALSE}
    World = {}
    MaxMoves = 0
INVARIANT
    RebaselineHelps
