SPECIFICATION Spec
CONSTANTS
  Files = {f1, f2}
  Levels = {1, 2}
  MasterLevels = {1}
  Dirs = {d}
  Names = {a, b}
  Operations = {"import", "delete", "relocate", "set_level", "assign"}
  Absent = absent
  Torn = torn
SYMMETRY FileSymmetry
INVARIANTS DamageIsLocal SessionSeesPromised NothingUnaccounted ImportAllOrNothing
PROPERTIES DeletedStaysDeleted ImplementsCatalog
CHECK_DEADLOCK FALSE
