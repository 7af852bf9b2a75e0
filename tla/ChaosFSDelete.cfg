CONSTANTS
  Paths = {a, b}
  NoName = noname
  Blank = blank
  Absent = absent
  Directory = directory
  NoRequest = norequest
  x = x
  y = y
  Data <- SmallData
  MAX_FILES = 2
  ENTRIES_PER_SECTOR = 1
  TotalBlocks = 3
  MAX_BLOCKS = 3
  Faults = {"crash"}
SYMMETRY Renamings
SPECIFICATION Spec
PROPERTY DeletedIsGone
CHECK_DEADLOCK FALSE
