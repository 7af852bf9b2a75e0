CONSTANTS
  MAX_TASKS = 4
  KernelSleeps = {5, 16}
  BackgroundSleeps = {10, 20}
  Returning = {3}
  Halting = {0}
SPECIFICATION FairSpec
INVARIANTS TypeOK OwnStack EoiWillCome HaltCanEnd
PROPERTIES NoStarvation ClockGoesOn OneRotation
