CONSTANTS
  MAX_TASKS = 4
  KernelSleeps = {20}
  BackgroundSleeps = {10, 20}
  Returning = {}
  Halting = {0}
SPECIFICATION FairSpec
PROPERTY NoStarvation
