CONSTANTS
    Geometries <- MCGeometries
    OpCountArg = 7
    OpKinds <- MCOpKinds
    Star = Star
    AddressArgs = {0, 2, Star}
    CountArgs = {0, 5, Star}
    SeedArgs <- MCSeeds
    InitialContents <- MCContents
    ServerFaults <- MCShortReadFaults
    ResourceFailures = TRUE
    RspQueueBound = 2

SPECIFICATION Spec


PROPERTY VerifiedReadsReflectStore

\* run() returns: every state with pc = "done" is final.
CHECK_DEADLOCK FALSE
