----------------------------- MODULE MCStgPipe -----------------------------
(***************************************************************************)
(* Small instances of StgPipe for TLC.  Two units, both valid for the     *)
(* handshake: three blocks with room for three in a transfer (so a drawn  *)
(* or carried-over count of two or three runs past the end and is cut),   *)
(* and two blocks with room for two.  The kind cycle, parsed from         *)
(* "rWxRuRF", is Read Write Read Unmap Read Flush: the first Read of each *)
(* batch is unchecked, the second checks the Write, the third the Unmap.  *)
(* Seven operations make a second batch start.                            *)
(***************************************************************************)
EXTENDS StgPipe, TLC

MCGeometries ==
    {[BlockCount |-> 3, BlockLength |-> 16, MaxTransferLength |-> 48],
     [BlockCount |-> 2, BlockLength |-> 16, MaxTransferLength |-> 32]}

\* The same units, and one the handshake must refuse (blocks of 8 bytes).
MCGeometriesWithInvalid ==
    MCGeometries \cup {[BlockCount |-> 3, BlockLength |-> 8, MaxTransferLength |-> 24]}

MCOpKinds == ParseOpSet(<<"r", "W", "x", "R", "u", "R", "F">>)

MCSeeds == {0, 7}

\* Blocks hold zeros or data no stamp of this run matches.
MCContents == {Garbage, 0}

\* ... and block 1 may already hold its stamp from an earlier run.
MCContentsWithStamp == {Garbage, 0, Stamp(1)}

MCNoFaults == {}

\* Every deviation the oracle is meant to catch.
MCDetectableFaults == {"ShortHandshake", "LoseWrite", "CorruptWrite", "LoseUnmap",
                       "BadStatus", "DupResponse"}

\* A lost unmap with a read payload cut short.
MCShortReadFaults == {"LoseUnmap", "ShortRead"}
=============================================================================
