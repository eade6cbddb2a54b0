CONSTANTS
    Targets <- MCRawTarget
    Disks <- MCEvenDisk
    Geometries <- MCGeometries
    OpCountArg = 3
    OpKinds <- MCRawOpKinds
    Star = Star
    AddressArgs = {0, 2}
    CountArgs = {0, 5}
    SeedArgs <- MCSeeds
    InitialContents <- MCContents
    ServerFaults <- MCShortTransferFaults
    ResourceFailures = FALSE
    RspQueueBound = 2

SPECIFICATION StgSpec

PROPERTY VerifiedReadsReflectStore

\* run() returns, or dies on the division by zero: those states are final.
CHECK_DEADLOCK FALSE
