CONSTANTS
  a = a
  b = b
  Services = {a}
  Pids = {p1, p2}
  NoService = NoService
  NoPid = NoPid
  TypeOf <- OneSimple
  Policy <- OnePolicy
  Level <- OneLevel
  Devices = {}
  Targets <- OneTarget
  RestartBurstMax = 1
  BootTries = 1
  MaxBacklog = 0
  MaxOrphans = 0
SPECIFICATION FairSpec
PROPERTIES ShutdownReboots EveryRestartServed
