SPECIFICATION Spec
CONSTANTS
 a = a
 b = b
 Comp = {a}
 Registry <- OnlyA
 Deps <- OneNeeds
 BeforeUpgrade = {}
 MinVersion <- OneTime
 Overridden = {}
 Preinstalled = {}
 Specs <- OneFixed
 NoDelayedRead = FALSE
 SettledUpdate = TRUE
 Rollback = FALSE
 Watches = FALSE
 MaxGen = 2
 MaxVersion = 2
 MaxRestarts = 1
 MaxDrops = 1
 ChannelSize = 2
INVARIANTS SettledIsInstalled LastReconciledIsTrue
PROPERTIES InstallCompleteIsSticky
CHECK_DEADLOCK FALSE
