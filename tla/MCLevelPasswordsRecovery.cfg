SPECIFICATION Spec
CONSTANTS
  Levels = {l1, l2, l3}
  Original = {l1, l2}
  Passwords = {master, other}
  Master = master
  MinLevels = 1
  MaxKek = 3
  Places = {home, away}
  Home = home
  Absent = absent
  Torn = torn
INVARIANTS RecoveryRegainsAccess
CHECK_DEADLOCK FALSE
