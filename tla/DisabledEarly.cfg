SPECIFICATION Spec
CONSTANTS
 a = a
 b = b
 Comp <- Both
 Registry <- AnyVersion
 Deps <- BNeedsA
 BeforeUpgrade = {}
 MinVersion <- AnyTime
 Overridden = {}
 Preinstalled = {}
 Specs <- BOptional
 NoDelayedRead = TRUE
 SettledUpdate = TRUE
 Rollback = FALSE
 Watches = FALSE
 MaxGen = 2
 MaxVersion = 1
 MaxRestarts = 0
 MaxDrops = 0
 ChannelSize = 3
PROPERTIES DisabledNotInstalled
CHECK_DEADLOCK FALSE
