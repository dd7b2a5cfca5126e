SPECIFICATION Spec
CONSTANTS
 a = a
 b = b
 Comp <- Both
 Registry <- BSinceThree
 Deps <- BNeedsA
 BeforeUpgrade = {}
 MinVersion <- BAtThree
 Overridden = {}
 Preinstalled = {a}
 Specs <- BOptional
 NoDelayedRead = TRUE
 SettledUpdate = FALSE
 Rollback = FALSE
 Watches = TRUE
 MaxGen = 2
 MaxVersion = 3
 MaxRestarts = 0
 MaxDrops = 0
 ChannelSize = 3
INVARIANTS UpgradesToRequest
PROPERTIES VersionNeverDecreases FollowsLifecycle
CHECK_DEADLOCK FALSE
