SPECIFICATION Spec
CONSTANTS
    Releases <- MCReleases
    NoVersion = NoVersion
    SchemaOf <- MCSchemaOf
    PreviousSchema <- MCPreviousSchema
    UpgradeFrom <- MCUpgradeFrom
    Managed = TRUE
    Lagging = {"tamoss", "job"}
    Gates = {"route", "dependencyUnknown", "storageDegraded", "authentikRetrying", "routing"}
    MaxEdits = 1
    MaxFaults = 1
    MaxJobs = 4
INVARIANTS StampTrue OneMigration ServingNeedsSchema FixturesOnlyOnInstall ReadyMeansReleased
PROPERTIES CurrentAdvancesLast StampKept ImplementsRelease
CHECK_DEADLOCK FALSE
