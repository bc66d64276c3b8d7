SPECIFICATION Spec
CONSTANTS
  v1 = v1
  v2 = v2
  d1 = d1
  d2 = d2
  Vaults = {v1, v2}
  Copies = {v1}
  Drives = {d1, d2}
  None = none
  DriveOf <- OneOnDisk
INVARIANTS CopiesOfOpenVault UnlocksTheVaultShown
PROPERTIES IdleIsLocked RemovalLocks
CHECK_DEADLOCK FALSE
