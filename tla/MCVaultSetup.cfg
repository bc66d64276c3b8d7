SPECIFICATION MCSpec
CONSTANTS
  Levels = {l1, l2, l3}
  Original = {l1, l2}
  Passwords = {master, other}
  Master = master
  MinLevels = 1
  MaxKek = 3
  Places = {home, away}
  Home = home
  Absent = absent
  Torn = torn
  Creators = {c1, c2}
  LevelFiles <- MCLevelFiles
  MaxAttempts = 3
SYMMETRY Symmetry
VIEW View
INVARIANTS KekAgreement SessionFilesOnDisk CompletedStays OwnPiecesStay OneVault
CHECK_DEADLOCK FALSE
