SPECIFICATION Spec
CONSTANTS
  Files = {f1, f2}
  Paths = {a, b}
  Blocks = {1}
  MaxLength = 2
  Sizes = {0}
  Handles = {h1, h2}
  Absent = absent
  Unreadable = unreadable
  None = none
SYMMETRY Symmetry
INVARIANTS PathNamesItsFile SavedIsKept NoLostUpdate
CHECK_DEADLOCK FALSE
