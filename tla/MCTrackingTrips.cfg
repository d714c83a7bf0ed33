CONSTANTS
  Users = {1}
  MaxFutureSkew = 0
  Skews <- MCBehind
  Seqs = {0}
  SignalGap = 1
  QuietGap = 2
  BatterySettings = {FALSE}
  TrailRetention = 1
  TrailMax = 2
  MaxTime = 3
  MaxTrips = 2
  MaxQueue = 2
  MaxTrail = 2
SPECIFICATION Spec
INVARIANT ToldIsAdopted
