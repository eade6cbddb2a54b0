CONSTANTS
    Geometries <- MCGeometries
    OpCountArg = 7
    OpKinds <- MCOpKinds
    Star = Star
    AddressArgs = {0, 2, Star}
    CountArgs = {0, 5, Star}
    SeedArgs <- MCSeeds
    InitialContents <- MCContents
    ServerFaults <- MCNoFaults
    ResourceFailures = TRUE
    RspQueueBound = 2

SPECIFICATION FairSpec

INVARIANT TypeOK
INVARIANT RequestWithinUnit
INVARIANT NoFalseAlarm

PROPERTY Termination
PROPERTY ImplementsWorkload

\* run() returns: every state with pc = "done" is final.
CHECK_DEADLOCK FALSE
