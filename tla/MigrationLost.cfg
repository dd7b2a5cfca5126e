SPECIFICATION MigrationSpec
CONSTANTS
 MaxMigFaults = 0
 MaxLoadFailures = 1
INVARIANT VolumeKept
CHECK_DEADLOCK FALSE
