SPECIFICATION Spec
CONSTANTS
 a = a
 b = b
 Comp <- Both
 Registry <- AnyVersion
 Deps <- BNeedsA
 BeforeUpgrade = {}
 MinVersion <- AnyTime
 Overridden = {}
 Preinstalled = {}
 Specs <- BOptional
 NoDelayedRead = TRUE
 SettledUpdate = TRUE
 Rollback = FALSE
 Watches = FALSE
 MaxGen = 3
 MaxVersion = 2
 MaxRestarts = 0
 MaxDrops = 0
 ChannelSize = 3
INVARIANTS SettledVersion
PROPERTIES UpgradeInOrder VersionFollowsUpgrade
CHECK_DEADLOCK FALSE
