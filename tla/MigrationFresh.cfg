\* One instance migrates an empty database.
SPECIFICATION Spec
CONSTANTS
    NoDefault = NoDefault
    NoQuery = NoQuery
    NoProc = NoProc
    NoConf = NoConf
    Procs = {p1}
    Rels = {"tbl", "vw"}
    Versions = {"v1"}
    Models <- WithView
    Rolling = FALSE
    ManualIndexes = {}
    Faults = {}
INVARIANT
    NeverRefused
