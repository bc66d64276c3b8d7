SPECIFICATION Spec
CONSTANTS
  Passwords = {weak, strong}
  Acceptable = {strong}
  MaxCount = 3
  Vaults = {v1, v2}
  MinLevels = 1
  MaxLevels = 2
  Letters = {t, u}
  Preferred = t
  None = none
  Files = {f1, f2}
  Folder = a
  Depth = 1
  Gone = gone
  Lost = lost
  Disks = {d1, d2}
  Nowhere = nowhere
SYMMETRY Symmetry
INVARIANTS ShowsWhatIsStored CompletePageOpensVault LevelsWithFilesStay
CHECK_DEADLOCK FALSE
