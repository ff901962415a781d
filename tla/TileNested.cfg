SPECIFICATION Spec
VIEW MCView
SYMMETRY Requests
CONSTANTS
    child = child
    parent = parent
    keys = keys
    Via = {related, other}
    Scopes = {child, parent}
    Keys = {related, other, keys}
    ScopeOf <- MCScopeOf
    DependsOn <- MCDependsOn
    Inner <- MCInner
    NoKey = NoKey
    Laned = {related, other}
    Exempt = {keys}
    Asked = {related, other}
    Callers = {c1, c2}
    LaneLimit = 2
    MaxQueued = 0
    TileCap = 1
    MaxEntries = 2
    MaxWrites = 1
    Clients = {1}
    NoClient = NoClient
INVARIANT Fresh
CHECK_DEADLOCK FALSE
