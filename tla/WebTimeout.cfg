CONSTANTS
    c1 = c1
    c2 = c2
    Clients = {c1, c2}
    Asks <- MCAsks
    None = None
    Quitters = {}

SPECIFICATION WebTimed

PROPERTIES Reaped
