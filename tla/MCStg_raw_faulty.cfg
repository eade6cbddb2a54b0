CONSTANTS
    Targets <- MCRawTarget
    Disks <- MCFaultyDisks
    Geometries <- MCGeometries
    OpCountArg = 5
    OpKinds <- MCRawOpKinds
    Star = Star
    AddressArgs = {0, 2, Star}
    CountArgs = {0, 5, Star}
    SeedArgs <- MCSeeds
    InitialContents <- MCContents
    ServerFaults <- MCDiskFaults
    ResourceFailures = TRUE
    RspQueueBound = 2

SPECIFICATION StgSpec

PROPERTY VerifiedReadsReflectStore

\* run() returns, or dies on the division by zero: those states are final.
CHECK_DEADLOCK FALSE
