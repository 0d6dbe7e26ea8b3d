SPECIFICATION Spec
CONSTANTS
  AcceptUnits = {a1, a2}
  ConnectUnits = {}
  NoUnit = NoUnit
  Ovs = {o1, o2, o3, o4}
  NoOv = NoOv
  Workers = {w1}
  Connector = connector
  NoThread = NoThread
  Faults = {"rst"}
  MaxSessions = 3
SYMMETRY AllSymmetry
INVARIANTS OneRecieve RegistryAgrees NoLeak
CHECK_DEADLOCK FALSE
