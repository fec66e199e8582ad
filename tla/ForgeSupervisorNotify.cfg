CONSTANTS
  a = a
  b = b
  Services = {a, b}
  Pids = {p1, p2}
  NoService = NoService
  NoPid = NoPid
  TypeOf <- NotifyTypeOf
  Policy <- NotifyPolicy
  Level <- MCLevel
  Devices = {a}
  Targets <- MCTargets
  RestartBurstMax = 1
  BootTries = 2
  MaxBacklog = 0
  MaxOrphans = 0
SPECIFICATION Spec
INVARIANTS SignalsReachOwnProcess
SYMMETRY PidSymmetry
