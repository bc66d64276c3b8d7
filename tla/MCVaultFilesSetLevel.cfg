SPECIFICATION Spec
CONSTANTS
  Files = {f1, f2}
  Levels = {1, 2}
  MasterLevels = {1}
  Dirs = {d}
  Names = {a, b}
  Operations = {"import", "set_level"}
  Absent = absent
  Torn = torn
SYMMETRY FileSymmetry
INVARIANTS EntryDecryptsMetadata
CHECK_DEADLOCK FALSE
