SPECIFICATION MCFleetSpec
CONSTANTS
 a1 = a1
 a2 = a2
 v1 = v1
 v2 = v2
 McObjects = {o1}
 ChannelSize = 1
 BatchSize = 1
 MaxAdminEdits = 2
 MaxAgentFaults = 1
 Apps = {a1, a2}
 Items = {i1}
 MaxShareEdits = 3
 MaxShareFaults = 1
 MaxIds = 3
 MaxVmcs = 3
 MaxFleetEdits = 3
 MaxFleetFaults = 1
 Vmcs = {v1, v2}
 t1 = t1
 t2 = t2
 Traits = {t1, t2}
 LegacyTraits = {}
 Kinds = {"guarded", "own"}
 MaxRules = 1
 Addresses = {1}
 MaxDisturbances = 1
INVARIANTS CopyProtected ConfigHasVmc
PROPERTIES PlacementApplied StatusReported SharedSecretKept SharedItemsFollow RegistrationsAgree SecretsFollow LiveScraped IngressServed
CHECK_DEADLOCK FALSE
