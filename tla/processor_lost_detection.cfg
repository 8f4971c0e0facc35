SPECIFICATION TelemetrySpec
CONSTANTS
  NRecords = 3
  EventOf <- GoodEvents
  Kind <- GoodKinds
  Matching = {1, 2}
  Workers = {w1, w2}
  MaxSoft = 0
  MaxHard = 1
INVARIANT DetectionComplete
