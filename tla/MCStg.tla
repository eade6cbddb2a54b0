------------------------------- MODULE MCStg --------------------------------
(***************************************************************************)
(* Small instances of Stg for TLC: the pipe units of MCStgPipe and disks  *)
(* of 16-byte blocks chosen so that every branch of StgOpenRaw's decoding *)
(* is taken.                                                               *)
(***************************************************************************)
EXTENDS Stg, TLC

\* The pipe units of MCStgPipe: three blocks, three per transfer; two blocks, two.
MCGeometries ==
    {[BlockCount |-> 3, BlockLength |-> 16, MaxTransferLength |-> 48],
     [BlockCount |-> 2, BlockLength |-> 16, MaxTransferLength |-> 32]}

\* ... and one the handshake must refuse (blocks of 8 bytes).
MCGeometriesWithInvalid ==
    MCGeometries \cup {[BlockCount |-> 3, BlockLength |-> 8, MaxTransferLength |-> 24]}

\* Read Write Read Unmap Read Flush, as in MCStgPipe.
MCOpKinds == ParseOpSet(<<"r", "W", "x", "R", "u", "R", "F">>)

MCSeeds == {0, 7}

MCContents == {Garbage, 0}

\* Three blocks (last LBA 2, even); a limit of 32 blocks, read as 32 bytes: two blocks.
DiskEven == [blocks |-> 3, blockLength |-> 16, maxTransferBlocks |-> 32]

\* Four blocks: the last LBA, 3, is odd, and 3 | 1 = 3 blocks are announced.
DiskOdd == [blocks |-> 4, blockLength |-> 16, maxTransferBlocks |-> 32]

\* No limit: 64 KiB, four blocks of 16 KiB.
DiskNoLimit == [blocks |-> 3, blockLength |-> 16384, maxTransferBlocks |-> 0]

\* A limit of 8 blocks, read as 8 bytes: less than one block.
DiskSmallLimit == [blocks |-> 3, blockLength |-> 16, maxTransferBlocks |-> 8]

\* A disk that reports a zero block length; StgOpenRaw refuses it.
DiskZeroLength == [blocks |-> 3, blockLength |-> 0, maxTransferBlocks |-> 8]

MCDispatchDisks == {DiskEven, DiskOdd, DiskNoLimit, DiskZeroLength}

MCFaultyDisks == {DiskEven, DiskOdd, DiskSmallLimit}

\* One disk a run is about.
MCSmallLimitDisk == {DiskSmallLimit}

MCOddDisk == {DiskOdd}

MCEvenDisk == {DiskEven}

MCBothTargets == {"pipe", "raw"}

MCRawTarget == {"raw"}

MCNoFaults == {}

\* A bad status from either unit.
MCStatusFaults == {"BadStatus"}

\* What a disk can get wrong: a lost or corrupted write, a failing command.
MCDiskFaults == {"LoseWrite", "CorruptWrite", "BadStatus"}

\* A lost write and a short read.
MCShortTransferFaults == {"LoseWrite", "ShortRead"}

\* Write Read Read: both Reads check the Write.
MCRawOpKinds == ParseOpSet(<<"W", "r", "R">>)
=============================================================================
