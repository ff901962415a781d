SPECIFICATION Spec
VIEW MCView
SYMMETRY Requests
CONSTANTS
    child = child
    parent = parent
    keys = keys
    Via = {related}
    Scopes = {child, parent}
    Keys = {related, plain, keys}
    ScopeOf <- MCScopeOf
    DependsOn <- MCDependsOn
    Inner <- MCInner
    NoKey = NoKey
    Laned = {related, plain}
    Exempt = {keys}
    Asked = {related, plain}
    Callers = {c1, c2}
    LaneLimit = 1
    MaxQueued = 1
    TileCap = 1
    MaxEntries = 2
    MaxWrites = 1
    Clients = {1, 2, 3}
    NoClient = NoClient
INVARIANTS
    Fresh
    IndexMatches
    SlotsBalance
CHECK_DEADLOCK FALSE
