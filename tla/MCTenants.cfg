\* Two handlers race over four keys, and one of them may stop half-way.
SPECIFICATION MCSpec
CONSTANTS
  None = None
  h1 = h1
  h2 = h2
  k1 = k1
  k2 = k2
  k3 = k3
  k4 = k4
  Handlers = {h1, h2}
  Keys <- MCKeys
  MaxStops = 1
SYMMETRY Symmetry
INVARIANTS
  AdministrableAlone
  PurgeCompleteAlone
PROPERTY RevocationLasts
CHECK_DEADLOCK FALSE
