SPECIFICATION FairSpec
CONSTANTS
    child = child
    parent = parent
    keys = keys
    Via = {related}
    Scopes = {child, parent}
    Keys = {related, plain, tile, keys}
    ScopeOf <- MCScopeOf
    DependsOn <- MCDependsOn
    Inner <- MCInner
    NoKey = NoKey
    Laned = {related, plain}
    Exempt = {keys}
    Asked = {related, plain, tile}
    Callers = {c1, c2}
    LaneLimit = 1
    MaxQueued = 1
    TileCap = 1
    MaxEntries = 1
    MaxWrites = 0
    Clients = {1}
    NoClient = NoClient
INVARIANTS
    TypeOK
    SlotsBalance
PROPERTY Answered
CHECK_DEADLOCK FALSE
