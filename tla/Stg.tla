-------------------------------- MODULE Stg ---------------------------------
(***************************************************************************)
(* run() over either kind of storage unit, as the dispatcher of stgpipe.c *)
(* routes it: StgOpen (lines 421-436) sends a name that starts with        *)
(* \\.\pipe\ to StgOpenPipe and any other to StgOpenRaw; StgOpenPipe tags  *)
(* its handle by setting the low bit (SetPipeHandle, line 137), and        *)
(* StgTransact (lines 438-448) sends each transact to the pipe or the raw  *)
(* path by that bit (IsPipeHandle, lines 56-59).  The unit at the other   *)
(* end is the pipe server or the disk.                                     *)
(***************************************************************************)
EXTENDS StgRaw

CONSTANT
    Targets     \* the kinds of name run() may be given: "pipe" or "raw"

ASSUME TargetsAssumption == Targets \subseteq {"pipe", "raw"} /\ Targets # {}

VARIABLE
    target      \* the kind of name PipeName is

stgVars == <<rawVars, target>>

\* No disk: a pipe name.
NoDisk == [blocks |-> 0, blockLength |-> 0, maxTransferBlocks |-> 0]

\* StorageUnitParams before StgOpenRaw fills it (the memset at line 265).
ZeroGeometry == [BlockCount |-> 0, BlockLength |-> 0, MaxTransferLength |-> 0]

\* The blocks the unit really has.
UnitBlocks == IF target = "pipe" THEN geo.BlockCount ELSE disk.blocks

StgInit ==
    /\ target \in Targets
    /\ disk \in IF target = "raw" THEN Disks ELSE {NoDisk}
    /\ geo \in IF target = "pipe" THEN Geometries ELSE {ZeroGeometry}
    /\ store \in [0..UnitBlocks - 1 -> InitialContents]
    /\ handle = "none"
    /\ RunInit

\* The low bit of the handle.
IsPipeHandle(h) == h = "pipe"

\* StgOpen: the name's prefix chooses the open.
StgOpen ==
    \/ /\ target = "pipe"
       /\ Open
       /\ handle' = IF err' \in {"SUCCESS", "NO_RESOURCES"} THEN "pipe" ELSE "none"
       /\ UNCHANGED disk
    \/ /\ target = "raw"
       /\ RawOpen

\* The loop's steps when StgTransact goes to StgTransactPipe.
PipeStep ==
    /\ IsPipeHandle(handle)
    /\ Issue \/ Accept \/ Reject
    /\ UNCHANGED <<disk, handle>>

\* The loop's steps when StgTransact goes to StgTransactRaw.
RawStep ==
    /\ ~IsPipeHandle(handle)
    /\ RawIssue \/ RawAccept \/ RawReject \/ DivideByZero

StgClient == (StgOpen \/ PipeStep \/ RawStep) /\ UNCHANGED target

\* The unit behind the handle.
Unit ==
    \/ IsPipeHandle(handle) /\ Serve /\ UNCHANGED <<disk, handle, target>>
    \/ handle = "raw" /\ Disk /\ UNCHANGED target

StgNext == StgClient \/ Unit

StgSpec == StgInit /\ [][StgNext]_stgVars

(***************************************************************************)
(* Fairness as in StgPipe: run() is one thread that only ever waits on the *)
(* unit, and the unit completes every I/O it is given.                     *)
(***************************************************************************)
StgFairSpec == StgSpec /\ WF_stgVars(StgClient) /\ WF_stgVars(Unit)
-----------------------------------------------------------------------------
StgErrors == Errors \cup {"INVALID_PARAMETER"}

\* The type invariant of the composition.
StgTypeOK ==
    /\ target \in Targets
    /\ disk \in Disks \cup {NoDisk}
    /\ handle \in {"none", "pipe", "raw"}
    /\ pc \in {"open", "issue", "wait", "done", "crashed"}
    /\ err \in StgErrors
    /\ geo \in Geometry
    /\ store \in [0..UnitBlocks - 1 -> Int]
    /\ randomAddress \in BOOLEAN
    /\ randomCount \in BOOLEAN
    /\ i \in 0..OpCount
    /\ j \in 0..Len(OpKinds) - 1
    /\ addr \in Nat \cup {Star}
    /\ cnt \in Nat \cup {Star}
    /\ opcnt \in Nat
    /\ testKind \in OpKindSet \cup {ReservedKind}
    /\ seed \in Seed
    /\ DOMAIN buf \subseteq Nat /\ buf \in [DOMAIN buf -> Int]
    /\ req \in RequestType
    /\ reqQ \in Seq(RequestType)
    /\ rspQ \in Seq(ResponseType)
    /\ faulted \in BOOLEAN

(***************************************************************************)
(* Once the loop runs, run() and the unit agree on how many blocks there   *)
(* are: StorageUnitParams.BlockCount, which sets the address range of the  *)
(* test, is the number of blocks the unit has.  StgOpenRaw must decode    *)
(* READ CAPACITY (16) into exactly that, whatever the last LBA is.        *)
(***************************************************************************)
UnitSizeAgreed == pc \in {"issue", "wait"} => geo.BlockCount = UnitBlocks

(***************************************************************************)
(* run() returns ERROR_SUCCESS only from the loop's last check: the step   *)
(* in which it stops with Error = ERROR_SUCCESS is the acceptance of the  *)
(* response to operation OpCount - 1, so that all OpCount operations were *)
(* done.  Every other way out of run(), StgOpen and StgTransact included, *)
(* must set an error before its goto exit.                                 *)
(***************************************************************************)
SuccessOnlyAfterAllOps ==
    [][pc # "done" /\ pc' = "done" /\ err' = "SUCCESS" => pc = "wait" /\ i' = OpCount]_stgVars
=============================================================================
