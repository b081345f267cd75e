SPECIFICATION Spec
INVARIANTS TypeOK CodeTellsHeld DownIsOff ThreadsHaveDevice ParamsAgree
CONSTANTS
  c1 = c1
  c2 = c2
  Callers <- MCCallers
  Builds <- MCBuilds
  Values = {1, 2, 7, 8, 16}
  Rates = {8, 16}
  Modes = {1, 2}
  Asks <- MCAsks
  Initial <- MCInitial
  None = None
