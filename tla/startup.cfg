SPECIFICATION LifecycleSpec
CONSTANTS
  None = None  ratio = ratio  spec = spec
  Setting = {ratio, spec}
  Process = {p1, p2}
  ConfigMaps <- MCConfigMaps
  LifecycleBound <- RolloutOnRollout
INVARIANTS
  LifecycleTypeOK
PROPERTIES
  ServingHandedOver
  SettlesOnOne
CHECK_DEADLOCK FALSE
