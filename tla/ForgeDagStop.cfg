CONSTANTS
  goal = goal
  rescue = rescue
  x = x
  y = y
  z = z
  virtual = virtual
  gone = gone
  Units = {goal, rescue, x, y, z}
  Names = {goal, rescue, x, y, z, virtual, gone}
  NoUnit = NoUnit
  Provider <- MCProvider
  Manifests <- FewManifests
  Exclusions <- MCExclusions
SPECIFICATION Spec
INVARIANTS StopsInReverseOrder
