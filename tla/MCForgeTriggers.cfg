CONSTANTS
  Names = {"modem", "missing"}
  Registered = {"modem"}
  NumTimers = 2
  TimerUnit <- MCTimerUnit
  NumDevices = 2
  DeviceService <- MCDeviceService
  MaxHistory = 1
  MaxJobs = 2
SPECIFICATION FairSpec
INVARIANTS QueueInv DevicesStartOnce TimersFireOnce
PROPERTIES ScheduledTimersFire PresentDevicesStart
