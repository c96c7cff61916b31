\* Instances of one version at a time migrate a table and a view of it, up and
\* down, while rows arrive, an index is made by hand and anything fails.
SPECIFICATION FairSpec
CONSTANTS
    NoDefault = NoDefault
    NoQuery = NoQuery
    NoProc = NoProc
    NoConf = NoConf
    Procs = {p1, p2}
    Rels = {"tbl", "vw"}
    Versions = {"v1", "v2", "v3", "v4", "v5", "v6"}
    Models <- Releases
    Rolling = FALSE
    ManualIndexes = {"m"}
    Faults = {"statement", "commit", "hook"}
INVARIANTS
    TypeOK
    ConfigTrue
PROPERTIES
    StructureIsCurrent
    NothingIsLost
    EveryMigrationEnds
