CONSTANTS
  ConfirmSamples = 2
  MinDwell = 0
  CountMod = 3
  Enabled = TRUE
  Zones = {0, 1}
  EnterMargin = 1
  ExitMargin = 2
  Windows <- MCAlways
  Dwells = {0}
  Policy = "NearestFirstCapped"
  MaxCandidates = 1
  Fixes <- MCPairFixes
  Times = {0}
  Severity <- MCSeverity
  ZoneEnterMargin <- MCZeroMargins
  ZoneExitMargin <- MCZeroMargins
  MinQueryRadius = 3
  MaxQueryRadius = 12
  Horizon = 2
  UnusableAccuracy = 9
  Tiers <- MCTiers
  AlertInterval = 1
  FastSpeed = 1
  MinInterval = 1
SPECIFICATION Spec
INVARIANTS StaysEndWhenLeft
