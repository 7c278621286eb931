SPECIFICATION Spec
CONSTANTS
  Replica = {1, 2, 3}
  Block = {1, 2}
  UserSnap = {"s1", "s2"}
  CloneSnap = "clone"
  UuidSnap <- MCUuidSnap
  SizeSnap <- MCSizeSnap
  Backup = {"b1", "b2"}
  Inode = {1, 2, 3, 4, 5, 6, 7, 8}
  Call = {1, 2, 3}
  Workload <- MCWorkload
  None = None
  BackupData <- MCBackupData
  LastBackup <- MCLastBackup
  CloneData <- MCCloneData
  SyncRetryCount = 2
  MaxHashJobs = 1
  SyncLimit = 2
  Chain <- MCChain
INVARIANT TypeOK
INVARIANT SnapshotIntact
INVARIANT ChecksumTrue
INVARIANT RestoredIsBackup
INVARIANT CloneStatusTrue
INVARIANT RebuildExact
INVARIANT BackupExact
INVARIANT RevertExact
INVARIANT ExpandExact
 
INVARIANT OneAtATime
PROPERTY AllEnd
