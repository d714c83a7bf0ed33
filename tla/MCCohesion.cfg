CONSTANTS
  u1 = u1
  u2 = u2
  u3 = u3
  TheGroup = TheGroup
  Users <- Party3
  Places = {0, 2, 3}
  Thresholds <- Both
  Interval = 1
  Gap = 1
  MaxNow = 3
  MaxChanges = 1
SYMMETRY Alike
SPECIFICATION Spec
INVARIANTS StragglerIsAlertedInTime SettledWhenWhole
PROPERTIES SeparationIsConfirmed OneAlertPerSeparation
