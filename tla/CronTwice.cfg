SPECIFICATION Spec
CONSTANTS
  Processes = {"web"}
  Slots = {1}
  Jobs = {"j", "k"}
  Schedule <- MCSchedule
  MinutesPerHour = 2
  MaxNow = 1
  Bounds <- MCBounds
INVARIANT
  DueTimeRunsOnce
CHECK_DEADLOCK FALSE
