CONSTANTS
  p1 = p1
  p2 = p2
  Ports = {p1, p2}
  Hotplug = {p1}
  ResetTime = 2
  ResumeTime = 1
  SetFeatures = {"RESET", "SUSPEND"}
  ClearFeatures = {"SUSPEND", "POWER", "ENABLE", "C_RESET"}
SPECIFICATION FairHubSpec
INVARIANTS
  HubInv
  NotEnabledInReset
PROPERTIES
  ResetSignalled
  ChangeIsSeen
CHECK_DEADLOCK FALSE
