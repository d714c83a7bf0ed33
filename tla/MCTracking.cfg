CONSTANTS
  Users = {1}
  MaxFutureSkew = 1
  Skews <- MCBehind
  Seqs = {0, 1}
  SignalGap = 1
  QuietGap = 2
  BatterySettings = {FALSE}
  TrailRetention = 1
  TrailMax = 2
  MaxTime = 3
  MaxTrips = 1
  MaxQueue = 2
  MaxTrail = 2
SPECIFICATION Spec
INVARIANTS ConsentGates ToldIsAdopted SignalAnswered
PROPERTIES PastIsStable
