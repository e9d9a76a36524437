CONSTANTS
  Urbs <- MCUrbs
  PduBuffer = 1000000
  GapFirst = FALSE
  MaxSize = 6
  Values = {1, 61, 128, 170, 255}
  MaxText = 6
SPECIFICATION MCSpec
INVARIANTS
  DataArrives
  StaysConnected
  RoundTrip
  EncodesStandard
CHECK_DEADLOCK FALSE
