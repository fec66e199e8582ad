CONSTANTS
  a = a
  b = b
  Services = {a, b}
  Pids = {p1, p2, p3}
  NoService = NoService
  NoPid = NoPid
  TypeOf <- MCTypeOf
  Policy <- MCPolicy
  Level <- MCLevel
  Devices = {}
  Targets <- MCTargets
  RestartBurstMax = 1
  BootTries = 1
  MaxBacklog = 0
  MaxOrphans = 0
SPECIFICATION Spec
INVARIANTS IndexNamesOwnProcess SignalsReachOwnProcess NoLostChild NoStrandedRestart StatusHasProcess
PROPERTIES ShutdownLeavesNobody TrackLostByOverlapOnly ImplementsLifecycle
SYMMETRY PidSymmetry
