SPECIFICATION FairSpec
CONSTANTS
  AcceptUnits = {a1}
  ConnectUnits = {}
  NoUnit = NoUnit
  Ovs = {o1, o2, o3, o4}
  NoOv = NoOv
  Workers = {w1, w2}
  Connector = connector
  NoThread = NoThread
  Faults = {"rst"}
  MaxSessions = 2
INVARIANTS TypeOK OneStage ActiveIsWatched
PROPERTIES Recycles
CHECK_DEADLOCK FALSE
