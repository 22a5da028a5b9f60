SPECIFICATION Spec
CONSTANTS
    a = a
    b = b
    v1 = v1
    v2 = v2
    Dataset = {a, b}
    Version = {v1, v2}
    DEFAULT = DEFAULT
    Absent = Absent
    NoUrls = NoUrls
    Published = {a, b}
    SubPaths <- MCSubPaths
    Links <- MCLinks
    Rows <- MCRows
    StaticRoute = {"health"}
    InitializeDynamicViewsets = TRUE
    Debug = TRUE
    MaxBuilds = 2
    MaxFailures = 1
INVARIANTS
    TypeOK
    RoutesLive
    NoLeftovers
    CatalogueComplete
PROPERTIES
    OneReading
    ComesUp
\* A process may be left alone.
CHECK_DEADLOCK FALSE
