SPECIFICATION Spec
CONSTANTS
  AcceptUnits = {a1}
  ConnectUnits = {}
  NoUnit = NoUnit
  Ovs = {o1, o2, o3, o4}
  NoOv = NoOv
  Workers = {w1}
  Connector = connector
  NoThread = NoThread
  Faults = {"fin"}
  MaxSessions = 2
SYMMETRY AllSymmetry
INVARIANTS DisconnectEnds
CHECK_DEADLOCK FALSE
