SPECIFICATION FairSpec
CONSTANTS
 a = a
 b = b
 Comp <- Both
 Registry <- AnyVersion
 Deps <- BNeedsA
 BeforeUpgrade = {b}
 MinVersion <- AnyTime
 Overridden = {}
 Preinstalled = {}
 Specs <- BOptional
 NoDelayedRead = TRUE
 SettledUpdate = TRUE
 Rollback = FALSE
 Watches = FALSE
 MaxGen = 2
 MaxVersion = 2
 MaxRestarts = 0
 MaxDrops = 0
 ChannelSize = 3
PROPERTIES EditTakesEffect ComesToRest
CHECK_DEADLOCK FALSE
