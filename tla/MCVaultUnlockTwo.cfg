SPECIFICATION Spec
CONSTANTS
  Openers = {o1, o2}
  Passwords = {master, other}
  Master = master
  Levels = {l1, l2}
  Torn = torn
  Threshold = 3
  LockoutDuration = 4
  BackoffBase = 2
  BackoffMax = 3
  CounterMax = 4
  MaxClock = 8
SYMMETRY OpenerSymmetry
INVARIANTS NoFailureInvented OneLateGuess
CHECK_DEADLOCK FALSE
