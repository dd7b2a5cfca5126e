------------------------------ MODULE MCChecks ---------------------------------
(***************************************************************************)
(* One instance for TLC of parts that share no state: the loops beside the *)
(* reconciler (the watched objects, the health checker, the MySQL check)   *)
(* and two components' own work (the migration of the database, the realm  *)
(* of Keycloak).  Each behaviour is one of its subject; the other parts    *)
(* keep their initial state.                                               *)
(***************************************************************************)
EXTENDS VzWatch, VzHealth, VzMySQLCheck, VzMigration, VzKeycloak

VARIABLE subject

checksVars == <<subject, watchVars, healthVars, mysqlVars, migrationVars,
                keycloakVars>>

Rest(s) ==
    /\ UNCHANGED subject
    /\ s # "watch"     => UNCHANGED watchVars
    /\ s # "health"    => UNCHANGED healthVars
    /\ s # "mysql"     => UNCHANGED mysqlVars
    /\ s # "migration" => UNCHANGED migrationVars
    /\ s # "keycloak"  => UNCHANGED keycloakVars

ChecksInit ==
    /\ subject \in {"watch", "health", "mysql", "migration", "keycloak"}
    /\ WatchInit /\ HealthInit /\ MySQLInit /\ MigrationInit /\ KeycloakInit
    /\ subject # "migration" => persistent
    /\ subject # "keycloak" => thanosSecret

InWatch(A)     == subject = "watch"     /\ A /\ Rest("watch")
InHealth(A)    == subject = "health"    /\ A /\ Rest("health")
InMySQL(A)     == subject = "mysql"     /\ A /\ Rest("mysql")
InMigration(A) == subject = "migration" /\ A /\ Rest("migration")
InKeycloak(A)  == subject = "keycloak"  /\ A /\ Rest("keycloak")

ChecksNext ==
    \/ InWatch(WatchNext)
    \/ InHealth(HealthNext)
    \/ InMySQL(MySQLNext)
    \/ InMigration(MigrationNext)
    \/ InKeycloak(KeycloakNext)

(* The fairness of the parts.  As the subject never changes, one condition  *)
(* about actions of several parts is the condition of each of them.         *)
ChecksFairness ==
    /\ SF_checksVars(InWatch(BeginPass) \/ InHealth(HealthTick))
    /\ \A c \in WatchComps : SF_checksVars(InWatch(VisitComponent(c)))
    /\ SF_checksVars(InWatch(ReconcileWatched))
    /\ WF_checksVars(\/ InWatch(DeliverEvent)
                     \/ InHealth(ReceiveEvent)
                     \/ InMySQL(TimePasses)
                     \/ InMigration(MigrationStep)
                     \/ InKeycloak(ConfigStep))
    /\ WF_checksVars(\/ InWatch(ClearWatch)
                     \/ InHealth(WriteStatus)
                     \/ InMySQL(CheckerStep)
                     \/ InMigration(ClusterStep)
                     \/ InKeycloak(VmcLogin))
    /\ WF_checksVars(\/ InWatch(upgrading /\ UpgradeToggles)
                     \/ InHealth(CacheCatchesUp)
                     \/ InMySQL(OperatorPodStarts)
                     \/ InMigration(LoadFails)
                     \/ InKeycloak(createManagedClusterKeycloakClient))
    /\ WF_checksVars(\/ InMySQL(RepairICStuckDeleting)
                     \/ InMigration(JobCached)
                     \/ InKeycloak(KcPodStarts))

ChecksSpec == ChecksInit /\ [][ChecksNext]_checksVars /\ ChecksFairness

(* Where the health checker runs, what it publishes converges               *)
(* (availability.go:110).                                                   *)
HealthConverges == subject = "health" => AvailabilityConverges

(* Where MySQL is migrated, the upgrade ends with the data                  *)
(* (legacydb.go:214).                                                       *)
DataMigrated == subject = "migration" => MigrationEnds

(* Where Keycloak is configured, the realm is restored after every loss     *)
(* (keycloak_component.go:107).                                             *)
RealmKept == subject = "keycloak" => RealmRestored
===============================================================================
