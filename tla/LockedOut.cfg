SPECIFICATION KeycloakSpec
CONSTANTS
 MaxKcFaults = 0
 MaxLosses = 0
 MaxUnread = 1
INVARIANT AdminMayLogIn
CHECK_DEADLOCK FALSE
