SPECIFICATION DataSpec
CONSTANTS
  Zero <- MCZero
  Capacity = 4
  HeaderSize = 2
  DataSizes <- MCDataSizes
  MaxPackets = 3
INVARIANTS RecieveIsInStep InputsAreTakenWhole LexedByGrammar ParsedByGrammar
           ReadsWhatWasWritten DumpedIsRead DiffIsApplied 
PROPERTIES EveryPacketArrives ImplementsPacketChannel
CHECK_DEADLOCK FALSE
