SPECIFICATION Spec
CONSTANTS
  AcceptUnits = {a1}
  ConnectUnits = {}
  NoUnit = NoUnit
  Ovs = {o1, o2, o3, o4, o5}
  NoOv = NoOv
  Workers = {w1, w2}
  Connector = connector
  NoThread = NoThread
  Faults = {"rst", "fin", "acceptfail", "context"}
  MaxSessions = 2
SYMMETRY AllSymmetry
INVARIANTS OneHome RightHandler
CHECK_DEADLOCK FALSE
