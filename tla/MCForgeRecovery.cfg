CONSTANTS
  Hosts <- MCHosts
  MaxBootAttempts = 2
  CounterMax = 4
  Ids = {"i1", "i2"}
SPECIFICATION FairSpec
INVARIANTS ServicesFindTheirLayout MachineIdsAgree
PROPERTIES LimitIsExact BootSettles
