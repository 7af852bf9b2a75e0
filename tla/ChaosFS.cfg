CONSTANTS
  Paths = {a, b}
  NoName = noname
  Blank = blank
  Absent = absent
  Directory = directory
  NoRequest = norequest
  x = x
  y = y
  Data <- SmallData
  MAX_FILES = 2
  ENTRIES_PER_SECTOR = 1
  TotalBlocks = 2
  MAX_BLOCKS = 3
  Faults = {"error", "crash"}
SYMMETRY Renamings
SPECIFICATION Spec
INVARIANTS TypeOK ExtentsDisjoint NextIsFree 
 
CHECK_DEADLOCK FALSE
