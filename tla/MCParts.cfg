SPECIFICATION Spec
CONSTANTS
  Streams <- MCStreams
  ChunkSize = 2
  MinChunkSize = 2
  SizesRead = {1, 2, 3}
  Tag = 1
  Lengths = {0, 2, 5}
  MaxDamage = 2
  CachedFiles = {f, g}
  Readers = {r1, r2}
  Content <- MCContent
  MaxCacheSize = 7
  MaxCachedChunksPerFile = 2
  Levels = {1, 2, 3}
  LevelPasswordsOf = {p, q}
  NoKeystore = none
  Callers = {c1, c2}
  Passwords = {p, q}
  Loops = {l1, l2, l3}
  MaxSalt = 2
  Platforms = {"linux", "macos", "windows"}
  OpalCallers = {c1, c2}
  OpalPasswords = {p, q}
  OpalPlatforms = {"linux", "macos", "windows"}
  Media <- MCMedia
  SourceSets <- MCSourceSets
  ArtifactSize <- MCArtifactSize
  MaxSize = 2
  BeginsWith <- MCBeginsWith
  Below <- MCBelow
  Unknown = unknown
  Disks = {"nvme0n1", "sdb", "sdc"}
  DiskFacts <- MCDiskFacts
  Parts = {0, 1}
  MountFolders = {"/", "/media"}
  Above <- MCAbove
  Systems = {"linux", "macos", "windows"}
  Buffers = {b1, b2, b3}
  HeapPlaces = {"h1", "h2", "h3"}
  StackPlaces = {"s1", "s2"}
  PageOf <- MCPageOf
  Threads = {t1, t2}
  Nonces = {n1, n2, n3}
VIEW View
INVARIANTS
  DecryptsWhatWasEncrypted BytesAndStreamsAgree CacheAccounts TopLevelWasUnlocked
  DecryptedOnlyWhileMounted OkMeansOwned LockedIsInMemory VersionMeansWritten
PROPERTIES RemovedOnLinuxIsGone
CHECK_DEADLOCK FALSE
