------------------------------- MODULE StgRaw -------------------------------
(***************************************************************************)
(* The RAW path of stgpipe.c: StgOpenRaw (lines 246-351), which learns the *)
(* geometry of a disk from READ CAPACITY (16) and the Block Limits VPD     *)
(* page, and StgTransactRaw (lines 353-419), which turns a Read or a Write *)
(* into ReadFile or WriteFile at offset BlockAddress * BlockLength and     *)
(* synthesises the response.  run()'s loop is the one StgPipe models; the  *)
(* actions here are its steps when the handle is a raw one.                *)
(*                                                                         *)
(* The disk is the environment.  It answers the two SCSI commands with its *)
(* true geometry encoded big-endian (SBC-3), and a transfer is served by   *)
(* StgPipe's Serve, restricted to exactly one completion per I/O.          *)
(***************************************************************************)
EXTENDS StgPipe

CONSTANT
    Disks       \* the disks a raw name may open: their geometry

VARIABLES
    disk,       \* the disk behind the name
    handle      \* run()'s Handle: "none" (INVALID_HANDLE_VALUE), "pipe", "raw"

\* blocks, bytes per block, and the MAXIMUM TRANSFER LENGTH in blocks (0: no limit).
DiskGeometry == [blocks : Nat, blockLength : Nat, maxTransferBlocks : Nat]

ASSUME DisksAssumption == Disks \subseteq DiskGeometry /\ Disks # {}

rawVars == <<vars, disk, handle>>
-----------------------------------------------------------------------------
(***************************************************************************)
(* What the disk returns: x as n <= 8 big-endian bytes.  q[e + 1] is x     *)
(* shifted right by e bytes, so byte k is the lane n - k from the bottom. *)
(***************************************************************************)
BigEndianBytes(x, n) ==
    LET q1 == x \div 256   q2 == q1 \div 256   q3 == q2 \div 256   q4 == q3 \div 256
        q5 == q4 \div 256  q6 == q5 \div 256   q7 == q6 \div 256
        q  == <<x, q1, q2, q3, q4, q5, q6, q7>>
    IN  [k \in 1..n |-> q[n - k + 1] % 256]

\* READ CAPACITY (16) data: the address of the last block, and the block length.
LogicalBlockAddress(d) == BigEndianBytes(d.blocks - 1, 8)

BytesPerBlock(d) == BigEndianBytes(d.blockLength, 4)

\* Block Limits VPD page: MAXIMUM TRANSFER LENGTH, in blocks.
MaximumTransferLength(d) == BigEndianBytes(d.maxTransferBlocks, 4)

(***************************************************************************)
(* StgOpenRaw's decoding of those bytes: (b0 << 24) | (b1 << 16) |        *)
(* (b2 << 8) | b3, and the same over eight lanes.  The lanes of bytes do  *)
(* not overlap, so the or is a sum; the eight lanes are summed in Horner  *)
(* order, which never exceeds the value.                                  *)
(***************************************************************************)
BigEndian32(b) == b[1] * 16777216 + b[2] * 65536 + b[3] * 256 + b[4]

BigEndian64(b) ==
    (((BigEndian32(<<b[1], b[2], b[3], b[4]>>) * 256 + b[5]) * 256 + b[6]) * 256 + b[7])
      * 256 + b[8]

(***************************************************************************)
(* 1 + (b0 << 56) | (b1 << 48) | ... | b7.  "+" binds tighter than "|", so *)
(* the 1 is added to the top lane alone and then or-ed into bit 0: the     *)
(* result is LBA | 1, which is LBA + 1 only when the last LBA is even.     *)
(***************************************************************************)
RawBlockCount(lba) == BigEndian64(lba) + 1 - (lba[8] % 2)

\* The 64 KiB default dropped.
RawMaxTransferLengthBug(bl, m) == BigEndian32([m EXCEPT ![1] = (bl * m[1]) % 256])

(***************************************************************************)
(* BlockLength * (m0 << 24) | (m1 << 16) | (m2 << 8) | m3 in 32 bits: "*"  *)
(* binds tighter than "|", so only the top lane is scaled, and only its   *)
(* low byte survives the 32-bit product.  A limit below 2^24 blocks is    *)
(* therefore taken as a byte count.  Zero becomes 64 KiB.                 *)
(***************************************************************************)
RawMaxTransferLength(bl, m) ==
    LET v == BigEndian32([m EXCEPT ![1] = (bl * m[1]) % 256])
    IN  IF v = 0 THEN 65536 ELSE v

\* StorageUnitParams as StgOpenRaw fills it from disk d.
Discovered(d) ==
    LET bl == BigEndian32(BytesPerBlock(d))
    IN  [BlockCount |-> RawBlockCount(LogicalBlockAddress(d)),
         BlockLength |-> bl,
         MaxTransferLength |-> RawMaxTransferLength(bl, MaximumTransferLength(d))]

(***************************************************************************)
(* StgOpenRaw and, once it succeeds, run()'s MemAlloc and set-up.          *)
(*   - CreateFileW or a SpdIoctlScsiExecute fails: an OS error (CONNECT    *)
(*     stands for any of them), no handle;                                 *)
(*   - a command ends with a status other than GOOD, or the block count or *)
(*     length decodes to 0: ERROR_IO_DEVICE, the handle closed;            *)
(*   - opened, but MemAlloc fails: ERROR_NO_SYSTEM_RESOURCES;              *)
(*   - opened: the loop starts.  Nothing else of the geometry is checked.  *)
(* A disk that reports a zero block length, or a bad status, deviates.    *)
(***************************************************************************)
RawOpen ==
    /\ pc = "open"
    /\ \E opened \in BOOLEAN,
          good \in IF "BadStatus" \in ServerFaults THEN BOOLEAN ELSE {TRUE} :
         LET g  == Discovered(disk)
             ok == opened /\ good /\ g.BlockCount # 0 /\ g.BlockLength # 0
         IN  \/ /\ ~opened
                /\ err' = "CONNECT"
                /\ pc' = "done"
                /\ UNCHANGED <<geo, buf, randomAddress, randomCount, faulted, handle>>
             \/ /\ opened /\ ~ok
                /\ err' = "IO_DEVICE"
                /\ pc' = "done"
                /\ faulted' = TRUE
                /\ UNCHANGED <<geo, buf, randomAddress, randomCount, handle>>
             \/ /\ ok /\ ResourceFailures
                /\ geo' = g
                /\ handle' = "raw"
                /\ err' = "NO_RESOURCES"
                /\ pc' = "done"
                /\ UNCHANGED <<buf, randomAddress, randomCount, faulted>>
             \/ /\ ok
                /\ geo' = g
                /\ handle' = "raw"
                /\ SetUp(g)
                /\ pc' = "issue"
                /\ UNCHANGED <<err, faulted>>
    /\ UNCHANGED <<store, i, j, addr, cnt, opcnt, testKind, seed, req, reqQ, rspQ, disk>>
-----------------------------------------------------------------------------
(***************************************************************************)
(* DataBuffer as far as a transfer of c blocks reaches: MemAlloc gave      *)
(* MaxTransferLength bytes, which may hold fewer than c blocks; the heap   *)
(* past it holds whatever it holds.                                        *)
(***************************************************************************)
Overrun(b, c) == [k \in DOMAIN b \cup 0..c - 1 |-> IF k \in DOMAIN b THEN b[k] ELSE Garbage]

\* The kinds StgTransactRaw translates; any other is ERROR_INVALID_PARAMETER.
RawKinds == {ReadKind, WriteKind}

\* BlockCount %= MaxBlockCount with a random count and a zero MaxBlockCount.
DividesByZero == j = 0 /\ randomCount /\ MaxBlockCount = 0

\* The integer division faults: the process dies.
DivideByZero ==
    /\ pc = "issue"
    /\ DividesByZero
    /\ pc' = "crashed"
    /\ UNCHANGED <<err, geo, store, randomAddress, randomCount, i, j, addr, cnt, opcnt,
                   testKind, seed, buf, req, reqQ, rspQ, faulted, disk, handle>>

\* goto exit with Error not set: it still holds run()'s ERROR_SUCCESS.
UnsupportedKindErrorBug == err

\* What StgTransactRaw returns for a Kind it cannot send as a ReadFile or WriteFile.
UnsupportedKindError == "INVALID_PARAMETER"

(***************************************************************************)
(* One iteration of the loop up to the I/O, on a raw handle: the batch     *)
(* update, the request, FillOrTest or the Unmap descriptor on DataBuffer   *)
(* (past its end when it holds fewer than OpBlockCount blocks), then       *)
(* StgTransactRaw: the kind check, CreateEventW, and the WriteFile or      *)
(* ReadFile of OpBlockCount blocks at BlockAddress.                        *)
(***************************************************************************)
RawIssue ==
    /\ pc = "issue"
    /\ ~DividesByZero
    /\ LET b  == IF j = 0 THEN NextBatch
                 ELSE [addr |-> addr, cnt |-> cnt, opcnt |-> opcnt, seed |-> seed]
           k  == OpKinds[(i % Len(OpKinds)) + 1]
           nb == IssueBuffer(Overrun(buf, b.opcnt), k, b.addr, b.opcnt)
           r  == Request(i, k, b, nb)
       IN  /\ addr' = b.addr
           /\ cnt' = b.cnt
           /\ opcnt' = b.opcnt
           /\ seed' = b.seed
           /\ testKind' = IF k \in {WriteKind, UnmapKind} THEN k
                          ELSE BatchTestKind(j, testKind)
           /\ buf' = nb
           /\ req' = r
           /\ \/ /\ k \notin RawKinds
                 /\ err' = UnsupportedKindError
                 /\ pc' = "done"
                 /\ UNCHANGED reqQ
              \/ /\ k \in RawKinds
                 /\ ResourceFailures
                 /\ err' = "NO_RESOURCES"
                 /\ pc' = "done"
                 /\ UNCHANGED reqQ
              \/ /\ k \in RawKinds
                 /\ reqQ' = Post(reqQ, r)
                 /\ pc' = "wait"
                 /\ UNCHANGED err
    /\ UNCHANGED <<geo, store, randomAddress, randomCount, i, j, rspQ, faulted, disk, handle>>

\* DataBuffer left as it was: the bytes the Read brought are dropped.
RawReceivedBug(m) == buf

(***************************************************************************)
(* The completed ReadFile: the bytes the disk returned are in DataBuffer.  *)
(* BytesTransferred is never looked at, so past a short transfer          *)
(* DataBuffer keeps what it held.                                          *)
(***************************************************************************)
RawReceived(m) ==
    IF m.kind = ReadKind /\ m.status = Good
    THEN [k \in DOMAIN buf |-> IF k < Len(m.data) THEN m.data[k + 1] ELSE buf[k]]
    ELSE buf

\* Every Read checked, whatever TestOpKind says.
RawAcceptedBug(m) ==
    /\ m.status = Good
    /\ m.kind = ReadKind => BufferMatches(RawReceived(m), testKind, addr, opcnt)

(***************************************************************************)
(* The I/O succeeded.  The response is made up from the request (Hint,     *)
(* Kind, GOOD), so run()'s CheckConditions pass; what is left is the       *)
(* FillOrTest of a Read that follows a Write or an Unmap of the batch.     *)
(***************************************************************************)
RawAccepted(m) ==
    /\ m.status = Good
    /\ m.kind = ReadKind /\ testKind \in {WriteKind, UnmapKind}
         => BufferMatches(RawReceived(m), testKind, addr, opcnt)

RawAccept ==
    /\ pc = "wait"
    /\ rspQ # <<>>
    /\ RawAccepted(Head(rspQ))
    /\ buf' = RawReceived(Head(rspQ))
    /\ rspQ' = Tail(rspQ)
    /\ i' = i + 1
    /\ j' = NextCursor(j)
    /\ pc' = IF i + 1 < OpCount THEN "issue" ELSE "done"
    /\ UNCHANGED <<err, geo, store, randomAddress, randomCount, addr, cnt, opcnt,
                   testKind, seed, req, reqQ, faulted, disk, handle>>

\* The I/O failed (an OS error, IO_DEVICE for all of them), or the test failed.
RawReject ==
    /\ pc = "wait"
    /\ rspQ # <<>>
    /\ ~RawAccepted(Head(rspQ))
    /\ buf' = RawReceived(Head(rspQ))
    /\ rspQ' = Tail(rspQ)
    /\ err' = "IO_DEVICE"
    /\ pc' = "done"
    /\ UNCHANGED <<geo, store, randomAddress, randomCount, i, j, addr, cnt, opcnt,
                   testKind, seed, req, reqQ, faulted, disk, handle>>

\* The disk completes each I/O exactly once: Serve without a second copy.
Disk ==
    /\ Serve
    /\ Len(rspQ') = Len(rspQ) + 1
    /\ UNCHANGED <<disk, handle>>
=============================================================================
