SPECIFICATION FairSpec
CONSTANTS
  AcceptUnits = {}
  ConnectUnits = {c1}
  NoUnit = NoUnit
  Ovs = {o1, o2, o3}
  NoOv = NoOv
  Workers = {w1}
  Connector = connector
  NoThread = NoThread
  Faults = {"rst", "fin", "context", "refused"}
  MaxSessions = 2
PROPERTIES Notices
CHECK_DEADLOCK FALSE
