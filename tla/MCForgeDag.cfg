CONSTANTS
  goal = goal
  rescue = rescue
  x = x
  y = y
  z = z
  virtual = virtual
  gone = gone
  Units = {goal, rescue, x, y, z}
  Names = {goal, rescue, x, y, z, virtual, gone}
  NoUnit = NoUnit
  Provider <- MCProvider
  Manifests <- MCManifests
  Exclusions <- MCExclusions
SPECIFICATION Spec
INVARIANTS GraphMirrors WavesRespectOrder
PROPERTIES RefusalIsACycle DependenciesFirst ReachedIsComplete ImplementsBootOrder
