CONSTANTS
    c1 = c1
    c2 = c2
    Clients = {c1, c2}
    Asks <- MCAsks
    None = None
    Quitters = {c1}

SPECIFICATION WebLive

INVARIANTS WebTypeOK TablesAgree
PROPERTIES EndsForCause RequestsServed
