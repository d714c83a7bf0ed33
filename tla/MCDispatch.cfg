CONSTANTS
  MaxAlerts = 2
  MaxNow = 2
  Units = {1, 2}
  Places = {0, 1, 3}
  Sites = {0, 1}
  Posts = {0, 3}
  Island = {3}
  Radius = 0
  Window = 0
  AutoDispatch = {TRUE, FALSE}
SPECIFICATION Spec
INVARIANTS UnitsAreWhereTheyAreSent RecommendedIsFree OneIncidentEach ResolvedIsHandled
PROPERTIES SignedOff
