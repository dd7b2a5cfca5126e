SPECIFICATION Spec
CONSTANTS
 a = a
 b = b
 Comp <- Both
 Registry <- AnyVersion
 Deps <- BNeedsA
 BeforeUpgrade = {}
 MinVersion <- AnyTime
 Overridden = {}
 Preinstalled = {}
 Specs <- BOptional
 NoDelayedRead = TRUE
 SettledUpdate = TRUE
 Rollback = FALSE
 Watches = FALSE
 MaxGen = 2
 MaxVersion = 1
 MaxRestarts = 1
 MaxDrops = 0
 ChannelSize = 3
INVARIANTS TypeOK SettledIsCurrent DependenciesInstalled
CHECK_DEADLOCK FALSE
