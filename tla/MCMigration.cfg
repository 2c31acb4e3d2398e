SPECIFICATION Spec
CONSTANTS
    Connectors = {c1, c2}
    NoOne = NoOne
    Releases <- MCReleases
    Timescale <- MCTimescale
    Preinstall <- MCPreinstall
    IdempotentToc <- MCIdempotentToc
    VersionFiles <- MCVersionFiles
    Rerunnables <- MCRerunnables
    MixedReleases = FALSE
    MaxStarts = 4
    MaxFaults = 2
INVARIANTS
    SchemaMatchesVersion
    ServesItsOwnSchema
PROPERTIES
    OnlyStaleIsRefused
    MigrationEnds
CHECK_DEADLOCK FALSE
