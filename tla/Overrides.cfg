SPECIFICATION FairSpec
CONSTANTS
 a = a
 b = b
 Comp = {a}
 Registry <- OnlyA
 Deps <- OneNeeds
 BeforeUpgrade = {}
 MinVersion <- OneTime
 Overridden = {a}
 Preinstalled = {}
 Specs <- OneFixed
 NoDelayedRead = TRUE
 SettledUpdate = TRUE
 Rollback = FALSE
 Watches = FALSE
 MaxGen = 3
 MaxVersion = 1
 MaxRestarts = 0
 MaxDrops = 0
 ChannelSize = 3
PROPERTIES OverrideTakesEffect
CHECK_DEADLOCK FALSE
