CONSTANTS
  Services = {"sshd"}
  Levels = {"boot", "sysinit", "single", "rescue"}
  Threads = {reactor, bridge}
  UnitRunlevels <- MCUnitRunlevels
SYMMETRY ThreadSymmetry
SPECIFICATION Spec
INVARIANTS IInv
PROPERTIES ImplementsDatabase VerdictsAreJustified
