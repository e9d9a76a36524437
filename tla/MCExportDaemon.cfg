CONSTANTS
  b1 = b1
  b2 = b2
  BusIds = {b1, b2}
  Names = {"disk", "mouse", "other"}
  Listed = {"disk", "mouse"}
  Kept = {"mouse"}
  ListFlag = "WHITELIST"
  Longer = {}
  Hub <- BehindHub
  MaxMatch = 16
  UsbipFirst = FALSE
  SignalRaces = FALSE
  MaxPlugs = 1
SPECIFICATION Spec
INVARIANTS
  MapIsTrue
  DriverGivenBack
  TakenIsListed
  CrashIsGone
PROPERTIES
  PluggedIsExported
CHECK_DEADLOCK FALSE
