SPECIFICATION Spec
CONSTANTS
  Files = {f1, f2}
  Paths = {a, b}
  Handles = {h1}
  Threads = {t1, t2}
  Writes = {cut, w}
  Cuts = {cut}
  Absent = absent
  None = none
INVARIANTS CleanIsSaved UnmountKeepsWrites
PROPERTIES CallsEnd
CHECK_DEADLOCK FALSE
