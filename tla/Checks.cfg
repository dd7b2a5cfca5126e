SPECIFICATION ChecksSpec
CONSTANTS
 WatchComps = {fluentd, authproxy}
 MaxChanges = 2
 MaxWatchCrashes = 1
 HComps = {a, b}
 MaxWorldChanges = 2
 HealthChannel = 2
 RepairTimeout = 0
 MaxMigFaults = 2
 MaxLoadFailures = 0
 MaxKcFaults = 1
 MaxLosses = 2
 MaxUnread = 0
INVARIANTS RestartIsDue VolumeKept EnabledIsComplete
PROPERTIES ChangeIsApplied NoEventUndone HealthConverges TroubleIsAnswered DataMigrated RealmKept
CHECK_DEADLOCK FALSE
