CONSTANTS
    Targets <- MCBothTargets
    Disks <- MCDispatchDisks
    Geometries <- MCGeometriesWithInvalid
    OpCountArg = 7
    OpKinds <- MCOpKinds
    Star = Star
    AddressArgs = {0, 2, Star}
    CountArgs = {0, 5, Star}
    SeedArgs <- MCSeeds
    InitialContents <- MCContents
    ServerFaults <- MCStatusFaults
    ResourceFailures = TRUE
    RspQueueBound = 2

SPECIFICATION StgFairSpec

INVARIANT StgTypeOK
INVARIANT RequestWithinUnit
INVARIANT NoFalseAlarm

PROPERTY SuccessOnlyAfterAllOps

PROPERTY Termination

\* run() returns: every state with pc = "done" is final.
CHECK_DEADLOCK FALSE
