CONSTANTS
  a = a
  b = b
  Services = {a}
  Pids = {p1, p2}
  NoService = NoService
  NoPid = NoPid
  TypeOf <- OneType
  Policy <- OnePolicy
  Level <- OneLevel
  Devices = {a}
  Targets <- TwoTargets
  RestartBurstMax = 1
  BootTries = 1
  MaxBacklog = 0
  MaxOrphans = 1
SPECIFICATION PatientSpec
PROPERTIES EveryZombieReaped
