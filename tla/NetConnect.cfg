SPECIFICATION Spec
CONSTANTS
  AcceptUnits = {}
  ConnectUnits = {c1}
  NoUnit = NoUnit
  Ovs = {o1, o2, o3, o4}
  NoOv = NoOv
  Workers = {w1, w2}
  Connector = connector
  NoThread = NoThread
  Faults = {"rst", "refused"}
  MaxSessions = 2
SYMMETRY AllSymmetry
INVARIANTS NeverTwoStages
CHECK_DEADLOCK FALSE
