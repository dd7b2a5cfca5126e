SPECIFICATION PlatformSpec
CONSTANTS
 g1 = g1
 g2 = g2
 Goroutines = {g1, g2}
 MaxSpecEdits = 1
 MaxRestarts = 1
 MaxAppEdits = 1
 MaxAppFaults = 1
INVARIANTS MonitorKept McOrderKept RancherKept NothingLeft
PROPERTIES DeletionEnds AppsUpgraded
CHECK_DEADLOCK FALSE
