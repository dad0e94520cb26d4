SPECIFICATION FairSpec
CONSTANTS
  None = None
  MaxInt64 = 2
  gold = gold
  Gold = Gold
  iron = iron
  FactSpecs <- MCFactSpecs
  NormStr <- MCNormStr
  Bundles <- MCBundles
  Names <- MCNames
  Values <- MCValues
INVARIANTS
  DecidesByPrecedence
  ExplanationComplete
  EdgeAgrees
PROPERTIES
  DefeatsAreProven
  AskingEnds
CHECK_DEADLOCK FALSE
