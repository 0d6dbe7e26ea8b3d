SPECIFICATION BaseSpec
CONSTANTS
  Sizes <- MCSizes
  MaxIndex = 6
  Bytes <- MCBytes
  Zero <- MCZero
  Capacities <- MCCapacities
  MaxWrite = 3
  Buffers = {x, y}
  Arrays = {1, 2, 3}
  NoArray = 0
  MaxSize = 2
  ArrayCapacities <- MCSizes
  ArrayBytes <- MCArrayBytes
  Groups = {1, 2}
  Elements = {1, 2}
  SocketObjects = {x, y}
  Handles = {1, 2, 3}
  Invalid = 0
  SecondsPerMinute = 2
  MinutesPerHour = 2
  HoursPerDay = 2
  Second = 2
  CHECK_INTERVAL = 1
  RECALC_INTERVAL = 2
  FlatCalls <- MCFlatCalls
  NormalCalls <- MCNormalCalls
  InstantCalls <- MCInstantCalls
  MaxTimers = 2
  MaxLate = 1
  TimeTick = 2
  TimeMicro = 4
  TimeMilli = 8
  TimeSecond = 16
  TimeAmounts = {1, 3}
  TimeCalls = 2
  BUFFER_SIZE = 6
  Ints = {0, 5}
  Strings <- MCStrings
  Protocols = {1, 2}
  Numbers <- MCNumbers
  Ports <- MCPorts
  Names = {"a", "b"}
  Hosts <- MCHosts
  Files <- MCFiles
  MaxBuffer = 5
INVARIANT DifferenceIsElapsed
CHECK_DEADLOCK FALSE
