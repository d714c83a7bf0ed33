CONSTANTS
  ConfirmSamples = 2
  MinDwell = 1
  CountMod = 4
  Enabled = TRUE
  Zones = {0}
  EnterMargin = 1
  ExitMargin = 2
  Windows <- MCAlwaysOrLate
  Dwells = {0, 1}
  Policy = "ExactAlways"
  MaxCandidates = 64
  Fixes <- MCFixes
  Times = {0, 1, 2, 3}
  Severity <- MCSeverity
  ZoneEnterMargin <- MCZeroMargins
  ZoneExitMargin <- MCZeroMargins
  MinQueryRadius = 3
  MaxQueryRadius = 12
  Horizon = 2
  UnusableAccuracy = 9
  Tiers <- MCTiers
  AlertInterval = 1
  FastSpeed = 1
  MinInterval = 1
SPECIFICATION Spec
INVARIANTS ChangesAreConfirmed EntryIsPrompt
PROPERTIES OneDwellPerStay
