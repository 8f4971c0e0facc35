SPECIFICATION DeskSpec
CONSTANTS
  NAlerts = 2
  NIncidents = 1
  Clients = {c1, c2}
  Events = {1, 2}
  SeenAt <- EventTimes
  Window = 1
  PatchTexts = {"given"}
  MaxChanges = 1
  MaxUnaudited = 1
INVARIANTS MutationHasAudit
SYMMETRY ClientSymmetry
CHECK_DEADLOCK FALSE
