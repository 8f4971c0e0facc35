SPECIFICATION DeskSpec
CONSTANTS
  NAlerts = 2
  NIncidents = 2
  Clients = {c1, c2}
  Events = {1, 2}
  SeenAt <- EventTimes
  Window = 1
  PatchTexts = {"given"}
  MaxChanges = 2
  MaxUnaudited = 0
INVARIANTS AlertSetIsIdempotent
SYMMETRY ClientSymmetry
CHECK_DEADLOCK FALSE
