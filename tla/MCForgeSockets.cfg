CONSTANTS
  SocketUnits = {"udev", "dbus", "stray"}
  Loaded = {"udev", "dbus"}
  Listen <- MCListen
  Netlink = {"kernel"}
  Services = {"broker", "udevd", "lost"}
  SocketsOf <- MCSocketsOf
  Procs = {p1}
  Clients = {"client"}
  ConnectsTo <- MCConnectsTo
  Sockets = {1, 2, 3, 4, 5, 6, 7, 8, 9}
  MaxFd = 9
  MaxOps = 3
  MaxOther = 1
  NoSocket = NoSocket
  Other = Other
  Reset = Reset
  NoService = NoService
SPECIFICATION Spec
INVARIANTS ListeningIsReachable NoDescriptorLeak
PROPERTIES HandedInOrder ConnectionsSurvive
