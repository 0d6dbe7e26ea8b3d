SPECIFICATION ThreadsSpec
CONSTANTS
  N = 1
  MaxWork = 3
  Clients = {c1, c2}
  Users = {c1, c2, x}
  MaxCalls = 4
  Objects = {x, y}
  MaxRuns = 2
  Cycles = {"DAILY", "HOURLY", "MAX"}
  HoursPerDay = 2
  MinutesPerHour = 1
  MaxMinutes = 4
  MaxLines = 3
  Null = Null
  Nobody = Nobody
INVARIANTS WaitIsComplete NobodyForgotten OneObject LinesInOrder
PROPERTIES WaitersReturn SignalsArrive WaitsForSignal OwnersAreCounted ImplementsRegister
CHECK_DEADLOCK FALSE
