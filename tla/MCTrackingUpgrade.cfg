CONSTANTS
  Columns <- MCColumns
  Filled = {"seq", "success"}
  Drivers <- MCDrivers
  Earlier <- MCEarlier
SPECIFICATION Spec
INVARIANTS UpgradeBringsColumns
CHECK_DEADLOCK FALSE
