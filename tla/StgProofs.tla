------------------------------ MODULE StgProofs ------------------------------
(***************************************************************************)
(* Proofs about Stg, run() dispatching on the kind of name it is given:  *)
(* the type correctness of every state it reaches, on either path.       *)
(*                                                                         *)
(* The pipe path is the loop of StgPipe, so its half of the invariant is *)
(* StgPipeProofs' IInv.  The raw path sets its geometry from the bytes   *)
(* of the READ CAPACITY(16) and Block Limits VPD answers, issues through *)
(* the SCSI pass-through and may die on the division by zero of its     *)
(* batch update; its half of the invariant says what that path needs.   *)
(***************************************************************************)
EXTENDS Stg, StgPipeProofs, TLAPS
-----------------------------------------------------------------------------
(***************************************************************************)
(* The bytes of a big-endian field are bytes, whatever the value put in  *)
(* it: the low n bytes of x, most significant first.                     *)
(***************************************************************************)
LEMMA BigEndianBytesType ==
    ASSUME NEW x \in Int, NEW n \in 1..8
    PROVE  BigEndianBytes(x, n) \in [1..n -> 0..255]
<1> DEFINE q1 == x \div 256   q2 == q1 \div 256   q3 == q2 \div 256   q4 == q3 \div 256
           q5 == q4 \div 256  q6 == q5 \div 256   q7 == q6 \div 256
           q  == <<x, q1, q2, q3, q4, q5, q6, q7>>
<1>1. q \in [1..8 -> Int]
  OBVIOUS
<1>2. BigEndianBytes(x, n) = [k \in 1..n |-> q[n - k + 1] % 256]
  BY DEF BigEndianBytes
<1> HIDE DEF q
<1>3. \A k \in 1..n : n - k + 1 \in 1..8
  OBVIOUS
<1>4. \A k \in 1..n : q[n - k + 1] \in Int
  BY <1>1, <1>3
<1>5. \A v \in Int : v % 256 \in 0..255
  OBVIOUS
<1>6. \A k \in 1..n : q[n - k + 1] % 256 \in 0..255
  BY <1>4, <1>5
<1>7. [k \in 1..n |-> q[n - k + 1] % 256] \in [1..n -> 0..255]
  BY <1>6, Zenon
<1>. QED  BY <1>2, <1>7, Zenon

\* The value of four bytes read most significant first is a number.
LEMMA BigEndian32Type ==
    ASSUME NEW b, b[1] \in 0..255, b[2] \in 0..255, b[3] \in 0..255, b[4] \in 0..255
    PROVE  BigEndian32(b) \in Nat
<1> DEFINE b1 == b[1]  b2 == b[2]  b3 == b[3]  b4 == b[4]
<1>1. b1 \in 0..255 /\ b2 \in 0..255 /\ b3 \in 0..255 /\ b4 \in 0..255
  OBVIOUS
<1> HIDE DEF b1, b2, b3, b4
<1>2. b1 * 16777216 + b2 * 65536 + b3 * 256 + b4 \in Nat
  BY <1>1, SMT
<1>. QED  BY <1>2, SMT DEF BigEndian32, b1, b2, b3, b4

(***************************************************************************)
(* The value of eight bytes read most significant first is a number, no  *)
(* smaller than its last byte.                                           *)
(***************************************************************************)
LEMMA BigEndian64Type ==
    ASSUME NEW b \in [1..8 -> 0..255]
    PROVE  BigEndian64(b) \in Nat /\ BigEndian64(b) >= b[8]
<1>1. BigEndian32(<<b[1], b[2], b[3], b[4]>>) \in Nat
  BY BigEndian32Type
<1> DEFINE h == BigEndian32(<<b[1], b[2], b[3], b[4]>>)
           b5 == b[5]  b6 == b[6]  b7 == b[7]  b8 == b[8]
<1>2. b5 \in 0..255 /\ b6 \in 0..255 /\ b7 \in 0..255 /\ b8 \in 0..255
  OBVIOUS
<1> HIDE DEF h, b5, b6, b7, b8
<1>3. /\ (((h * 256 + b5) * 256 + b6) * 256 + b7) * 256 + b8 \in Nat
      /\ (((h * 256 + b5) * 256 + b6) * 256 + b7) * 256 + b8 >= b8
  BY <1>1, <1>2, SMT DEF h
<1>. QED  BY <1>3, SMT DEF BigEndian64, h, b5, b6, b7, b8

(***************************************************************************)
(* The geometry StgOpenRaw derives from the answers of any disk is a      *)
(* geometry: BlockCount, the last address or-ed with 1 (LBA | 1, the     *)
(* precedence of line 293), is a number, and so are BlockLength and      *)
(* MaxTransferLength.                                                    *)
(***************************************************************************)
LEMMA DiscoveredType ==
    ASSUME NEW d \in DiskGeometry
    PROVE  Discovered(d) \in Geometry
<1>0. d.blocks - 1 \in Int /\ d.blockLength \in Int /\ d.maxTransferBlocks \in Int
      /\ 8 \in 1..8 /\ 4 \in 1..8
  BY DEF DiskGeometry
<1>1. LogicalBlockAddress(d) \in [1..8 -> 0..255]
  <2>1. BigEndianBytes(d.blocks - 1, 8) \in [1..8 -> 0..255]
    BY <1>0, BigEndianBytesType, Zenon
  <2>. QED  BY <2>1, Zenon DEF LogicalBlockAddress
<1>2. BytesPerBlock(d) \in [1..4 -> 0..255] /\ MaximumTransferLength(d) \in [1..4 -> 0..255]
  <2>1. BigEndianBytes(d.blockLength, 4) \in [1..4 -> 0..255]
    BY <1>0, BigEndianBytesType, Zenon
  <2>2. BigEndianBytes(d.maxTransferBlocks, 4) \in [1..4 -> 0..255]
    BY <1>0, BigEndianBytesType, Zenon
  <2>. QED  BY <2>1, <2>2, Zenon DEF BytesPerBlock, MaximumTransferLength
<1>3. RawBlockCount(LogicalBlockAddress(d)) \in Nat
  <2> DEFINE lba == LogicalBlockAddress(d)
             v == BigEndian64(lba)
             l8 == lba[8]
  <2>0. lba \in [1..8 -> 0..255]
    BY <1>1
  <2>2. RawBlockCount(lba) = v + 1 - (l8 % 2)
    BY DEF RawBlockCount
  <2> HIDE DEF lba, v, l8
  <2>1. v \in Nat /\ v >= l8 /\ l8 \in 0..255
    <3>1. BigEndian64(lba) \in Nat /\ BigEndian64(lba) >= lba[8]
      BY <2>0, BigEndian64Type, Zenon
    <3>2. lba[8] \in 0..255
      BY <2>0
    <3>. QED  BY <3>1, <3>2, Zenon DEF v, l8
  <2>3. v + 1 - (l8 % 2) \in Nat
    <3>1. l8 % 2 \in 0..1
      BY <2>1, SMT
    <3>. QED  BY <2>1, <3>1, SMT
  <2>. QED  BY <2>2, <2>3, Zenon DEF lba
<1> DEFINE bl == BigEndian32(BytesPerBlock(d))
<1>4. bl \in Nat
  BY <1>2, BigEndian32Type
<1>5. RawMaxTransferLength(bl, MaximumTransferLength(d)) \in Nat
  <2> DEFINE m == MaximumTransferLength(d)
             m1 == m[1]
             mm == [m EXCEPT ![1] = (bl * m1) % 256]
  <2>1. m1 \in 0..255
    BY <1>2
  <2> HIDE DEF m1, bl
  <2>2. (bl * m1) % 256 \in 0..255
    BY <1>4, <2>1, SMT
  <2>3. mm \in [1..4 -> 0..255]
    BY <1>2, <2>2
  <2> HIDE DEF mm
  <2>4. BigEndian32(mm) \in Nat
    <3>1. mm[1] \in 0..255 /\ mm[2] \in 0..255 /\ mm[3] \in 0..255 /\ mm[4] \in 0..255
      BY <2>3
    <3>. QED  BY <3>1, BigEndian32Type
  <2>5. (IF BigEndian32(mm) = 0 THEN 65536 ELSE BigEndian32(mm)) \in Nat
    BY <2>4, SMT
  <2>. QED  BY <2>5 DEF RawMaxTransferLength, mm, m1
<1> HIDE DEF bl
<1>. QED  BY <1>3, <1>4, <1>5 DEF Discovered, Geometry, bl

(***************************************************************************)
(* The batch update of the raw path, on a unit with blocks and a non-zero *)
(* BlockLength, draws an address of the unit and a count of at least one *)
(* block, cut at the end of the unit, when it does not divide by zero:  *)
(* a random count needs MaxBlockCount # 0.  Unlike the pipe path, the    *)
(* count is not bounded by MaxBlockCount, which may be 0 here.           *)
(***************************************************************************)
LEMMA RawNextBatchType ==
    ASSUME seed \in Seed, randomAddress \in BOOLEAN, randomCount \in BOOLEAN,
           addr \in Nat \cup {Star}, cnt \in Nat \cup {Star}, geo \in Geometry,
           D \in Nat \ {0}, geo.BlockLength \in Nat \ {0},
           addr = Star => randomAddress, cnt = Star => randomCount,
           randomCount => MaxBlockCount # 0,
           i # 0 => addr \in Nat /\ cnt \in Nat
    PROVE  /\ NextBatch.addr \in 0..D - 1
           /\ NextBatch.cnt \in Nat \ {0}
           /\ NextBatch.opcnt \in 1..NextBatch.cnt
           /\ NextBatch.addr + NextBatch.opcnt <= D
           /\ NextBatch.seed \in Seed
<1>1. MaxBlockCount \in Nat
  BY DEF MaxBlockCount, Geometry
<1> DEFINE ra == RandomAddress(seed, D)
           a  == IF randomAddress THEN ra.value
                 ELSE IF i # 0 THEN (addr + cnt) % D ELSE addr % D
           s  == IF randomAddress THEN ra.seed ELSE seed
           rc == RandomCount(s, MaxBlockCount)
           c0 == IF randomCount THEN rc.value
                 ELSE IF cnt > MaxBlockCount THEN MaxBlockCount ELSE cnt
           c  == IF c0 = 0 THEN 1 ELSE c0
<1>2. NextBatch = [addr |-> a, cnt |-> c, opcnt |-> OpBlockCountOf(a, c),
                   seed |-> IF randomCount THEN rc.seed ELSE s]
  BY DEF NextBatch
<1>3. ra.value \in 0..D - 1 /\ ra.seed \in Seed
  BY RandomAddressRange
<1>4. a \in 0..D - 1
  <2>1. CASE randomAddress  BY <1>3, <2>1
  <2>2. CASE ~randomAddress /\ i # 0
    BY <2>2, ArgsAssumption
  <2>3. CASE ~randomAddress /\ i = 0
    BY <2>3, ArgsAssumption
  <2>. QED  BY <2>1, <2>2, <2>3
<1>5. s \in Seed
  BY <1>3
<1>6. randomCount => rc.value \in 0..MaxBlockCount - 1 /\ rc.seed \in Seed
  BY <1>1, <1>5, RandomCountRange
<1>7. c0 \in Nat
  <2>1. CASE randomCount  BY <1>1, <1>6, <2>1
  <2>2. CASE ~randomCount
    <3>1. cnt \in Nat  BY <2>2, ArgsAssumption
    <3>. QED  BY <1>1, <2>2, <3>1
  <2>. QED  BY <2>1, <2>2
<1>8. c \in Nat \ {0}
  BY <1>7
<1>9. OpBlockCountOf(a, c) \in 1..c /\ a + OpBlockCountOf(a, c) <= D
  BY <1>4, <1>8 DEF OpBlockCountOf
<1>. QED  BY <1>2, <1>4, <1>5, <1>6, <1>8, <1>9

(***************************************************************************)
(* DataBuffer after the pass-through writes OpBlockCount blocks into it: *)
(* still a buffer of blocks, now holding at least the blocks the batch   *)
(* transfers (the blocks past its end hold Garbage).                     *)
(***************************************************************************)
LEMMA OverrunType ==
    ASSUME NEW b, DOMAIN b \subseteq Nat, b \in [DOMAIN b -> Int], NEW c \in Nat
    PROVE  /\ DOMAIN Overrun(b, c) \subseteq Nat
           /\ Overrun(b, c) \in [DOMAIN Overrun(b, c) -> Int]
           /\ 0..c - 1 \subseteq DOMAIN Overrun(b, c)
BY DEF Overrun, Garbage

\* DataBuffer after the data of a raw Read is copied in is a buffer of the same blocks.
LEMMA RawReceivedType ==
    ASSUME DOMAIN buf \subseteq Nat, buf \in [DOMAIN buf -> Int], NEW m \in ResponseType
    PROVE  DOMAIN RawReceived(m) = DOMAIN buf /\ RawReceived(m) \in [DOMAIN buf -> Int]
<1>1. CASE m.kind = ReadKind /\ m.status = Good
  <2>1. m.data \in Seq(Int)
    BY DEF ResponseType
  <2>2. \A k \in DOMAIN buf : k < Len(m.data) => k + 1 \in 1..Len(m.data)
    BY <2>1
  <2>. QED  BY <1>1, <2>1, <2>2 DEF RawReceived
<1>2. CASE ~(m.kind = ReadKind /\ m.status = Good)
  BY <1>2 DEF RawReceived
<1>. QED  BY <1>1, <1>2
-----------------------------------------------------------------------------

(***************************************************************************)
(* The raw half of the invariant.  The disk is one of Disks and the      *)
(* handle is the raw one or none.  Inside the loop the unit has blocks   *)
(* and a non-zero BlockLength (the two checks of the open), and a "*"    *)
(* argument has set its random flag.  Once a batch was drawn, its        *)
(* address and count are numbers.                                        *)
(***************************************************************************)
RawInv ==
    /\ disk \in Disks
    /\ handle \in {"none", "raw"}
    /\ PostedWellFormed(reqQ)
    /\ pc = "open" => i = 0
    /\ i = 0 => j = 0
    /\ pc \in {"issue", "wait"} =>
           /\ D \in Nat \ {0}
           /\ geo.BlockLength \in Nat \ {0}
           /\ i < OpCount
           /\ addr = Star => randomAddress
           /\ cnt = Star => randomCount
    /\ pc = "wait" \/ (pc = "issue" /\ i # 0) => addr \in Nat /\ cnt \in Nat

(***************************************************************************)
(* The pipe half: no disk, the pipe handle or none, and IInv of the loop  *)
(* of StgPipe.                                                            *)
(***************************************************************************)
PipeInv ==
    /\ disk = NoDisk
    /\ handle \in {"none", "pipe"}
    /\ IInv

(***************************************************************************)
(* The inductive invariant of Stg.  Until run() returns, Error is still  *)
(* ERROR_SUCCESS, and inside the loop the handle is the one StgOpen made  *)
(* for the kind of name: this is what keeps the pipe and the raw steps   *)
(* apart, since each is dispatched on the handle alone.                  *)
(***************************************************************************)
SInv ==
    /\ StgTypeOK
    /\ pc \in {"open", "issue", "wait"} => err = "SUCCESS"
    /\ pc \in {"issue", "wait"} => handle = target
    /\ target = "pipe" => PipeInv
    /\ target = "raw" => RawInv
-----------------------------------------------------------------------------
(***************************************************************************)
(* The steps of run() on a pipe name that keep the loop going leave Error *)
(* as it was: only the ones that return set it.                          *)
(***************************************************************************)
LEMMA PipeErrKept ==
    ASSUME Open \/ Issue \/ Accept \/ Reject
    PROVE  pc' \in {"open", "issue", "wait"} => err' = err
<1>1. CASE Open     BY <1>1 DEF Open
<1>2. CASE Issue    BY <1>2 DEF Issue
<1>3. CASE Accept   BY <1>3 DEF Accept
<1>4. CASE Reject   BY <1>4 DEF Reject
<1>. QED  BY <1>1, <1>2, <1>3, <1>4

(***************************************************************************)
(* On a pipe name every step keeps SInv.  StgOpenPipe sets the pipe       *)
(* handle exactly when run() goes on into its loop, the loop and the     *)
(* server are those of StgPipe, and no raw step can be taken: they all   *)
(* need run() in its loop, where the handle is the pipe one.             *)
(***************************************************************************)
LEMMA PipeSInv ==
    ASSUME SInv, target = "pipe", StgNext
    PROVE  SInv'
<1>1. /\ IInv /\ disk = NoDisk /\ handle \in {"none", "pipe"} /\ target \in Targets
      /\ (pc \in {"open", "issue", "wait"} => err = "SUCCESS")
      /\ (pc \in {"issue", "wait"} => handle = target)
  BY DEF SInv, PipeInv, StgTypeOK
<1>2. target' = target
  BY DEF StgNext, StgClient, Unit
<1>3. ASSUME IInv', disk' = NoDisk, handle' \in {"none", "pipe"},
             pc' \in {"open", "issue", "wait"} => err' = "SUCCESS",
             pc' \in {"issue", "wait"} => handle' = "pipe"
      PROVE  SInv'
  <2>1. TypeOK'
    BY <1>3 DEF IInv
  <2>2. StgTypeOK'
    <3>1. geo' \in Geometry /\ UnitBlocks' = D'
      BY <1>1, <1>2, <2>1, GeometriesAssumption DEF TypeOK, UnitBlocks, D
    <3>2. err' \in StgErrors /\ disk' \in Disks \cup {NoDisk}
      BY <1>3, <2>1 DEF TypeOK, StgErrors
    <3>. QED  BY <1>1, <1>2, <1>3, <2>1, <3>1, <3>2 DEF TypeOK, StgTypeOK
  <2>. QED  BY <1>1, <1>2, <1>3, <2>2 DEF SInv, PipeInv
<1>4. CASE StgOpen /\ UNCHANGED target
  <2>0. ~(target = "raw")
    OBVIOUS
  <2>1. /\ Open
        /\ handle' = (IF err' \in {"SUCCESS", "NO_RESOURCES"} THEN "pipe" ELSE "none")
        /\ UNCHANGED disk
    BY <1>4, <2>0, Zenon DEF StgOpen
  <2>2. pc = "open" /\ err = "SUCCESS" /\ pc' \in {"issue", "done"}
    BY <1>1, <2>1 DEF Open
  <2>3. pc' \in {"open", "issue", "wait"} => err' = "SUCCESS"
    BY <2>1, <2>2, PipeErrKept
  <2>. QED  BY <1>1, <1>3, <2>1, <2>2, <2>3, OpenIInv
<1>5. CASE PipeStep /\ UNCHANGED target
  <2>1. (Issue \/ Accept \/ Reject) /\ UNCHANGED <<disk, handle>> /\ handle = "pipe"
    BY <1>5 DEF PipeStep, IsPipeHandle
  <2>2. pc \in {"issue", "wait"}
    BY <2>1 DEF Issue, Accept, Reject
  <2>3. IInv'
    BY <1>1, <2>1, IssueIInv, AcceptIInv, RejectIInv
  <2>. QED  BY <1>1, <1>3, <2>1, <2>2, <2>3, PipeErrKept
<1>6. CASE RawStep /\ UNCHANGED target
  <2>1. pc \in {"issue", "wait"} /\ ~IsPipeHandle(handle)
    BY <1>6 DEF RawStep, RawIssue, RawAccept, RawReject, DivideByZero
  <2>. QED  BY <1>1, <2>1 DEF IsPipeHandle
<1>7. CASE IsPipeHandle(handle) /\ Serve /\ UNCHANGED <<disk, handle, target>>
  <2>1. IInv'
    BY <1>1, <1>7, ServeIInv
  <2>2. UNCHANGED <<pc, err>>
    BY <1>7 DEF Serve, clientVars
  <2>. QED  BY <1>1, <1>3, <1>7, <2>1, <2>2 DEF IsPipeHandle
<1>8. CASE handle = "raw" /\ Disk /\ UNCHANGED target
  BY <1>1, <1>8
<1>. QED  BY <1>4, <1>5, <1>6, <1>7, <1>8 DEF StgNext, StgClient, Unit
-----------------------------------------------------------------------------
(***************************************************************************)
(* StgOpenRaw, in each of its outcomes, keeps SInv.  When it gives up,   *)
(* run() returns; otherwise the geometry is the one decoded from the     *)
(* disk's answers, which has blocks and a non-zero BlockLength, and the  *)
(* raw handle is open for the loop.                                      *)
(***************************************************************************)
LEMMA RawOpenSInv ==
    ASSUME SInv, target = "raw", RawOpen, UNCHANGED target
    PROVE  SInv'
<1>1. /\ StgTypeOK /\ RawInv /\ pc = "open" /\ i = 0 /\ j = 0 /\ err = "SUCCESS"
  BY DEF SInv, RawOpen, RawInv
<1>2. UNCHANGED <<store, i, j, addr, cnt, opcnt, testKind, seed, req, reqQ, rspQ, disk>>
  BY DEF RawOpen
<1> DEFINE g == Discovered(disk)
<1>3. g \in Geometry
  BY <1>1, DiscoveredType, DisksAssumption DEF RawInv
<1>4. PICK opened \in BOOLEAN,
           good \in IF "BadStatus" \in ServerFaults THEN BOOLEAN ELSE {TRUE} :
         LET ok == opened /\ good /\ g.BlockCount # 0 /\ g.BlockLength # 0
         IN  \/ /\ ~opened
                /\ err' = "CONNECT"
                /\ pc' = "done"
                /\ UNCHANGED <<geo, buf, randomAddress, randomCount, faulted, handle>>
             \/ /\ opened /\ ~ok
                /\ err' = "IO_DEVICE"
                /\ pc' = "done"
                /\ faulted' = TRUE
                /\ UNCHANGED <<geo, buf, randomAddress, randomCount, handle>>
             \/ /\ ok /\ ResourceFailures
                /\ geo' = g
                /\ handle' = "raw"
                /\ err' = "NO_RESOURCES"
                /\ pc' = "done"
                /\ UNCHANGED <<buf, randomAddress, randomCount, faulted>>
             \/ /\ ok
                /\ geo' = g
                /\ handle' = "raw"
                /\ SetUp(g)
                /\ pc' = "issue"
                /\ UNCHANGED <<err, faulted>>
  BY Zenon DEF RawOpen, g
<1> HIDE DEF g
<1>5. /\ target' \in Targets /\ disk' \in Disks \cup {NoDisk}
      /\ store' \in [0..UnitBlocks' - 1 -> Int]
      /\ i' \in 0..OpCount /\ j' \in 0..Len(OpKinds) - 1
      /\ addr' \in Nat \cup {Star} /\ cnt' \in Nat \cup {Star} /\ opcnt' \in Nat
      /\ testKind' \in OpKindSet \cup {ReservedKind} /\ seed' \in Seed
      /\ req' \in RequestType /\ reqQ' \in Seq(RequestType) /\ rspQ' \in Seq(ResponseType)
      /\ PostedWellFormed(reqQ')
  BY <1>1, <1>2, Zenon DEF StgTypeOK, UnitBlocks, RawInv
<1>6. CASE pc' = "done"
  <2>1. /\ err' \in StgErrors /\ geo' \in {geo, g} /\ handle' \in {handle, "raw"}
        /\ buf' = buf /\ randomAddress' = randomAddress /\ randomCount' = randomCount
        /\ faulted' \in BOOLEAN
    <3>1. err' \in {"CONNECT", "IO_DEVICE", "NO_RESOURCES"}
      BY <1>4, <1>6
    <3>2. geo' \in {geo, g} /\ handle' \in {handle, "raw"}
      BY <1>4, <1>6
    <3>3. buf' = buf /\ randomAddress' = randomAddress /\ randomCount' = randomCount
      BY <1>4, <1>6
    <3>4. faulted' \in BOOLEAN
      <4>1. faulted \in BOOLEAN
        BY <1>1 DEF StgTypeOK
      <4>2. faulted' \in {faulted, TRUE}
        BY <1>4, <1>6, Zenon
      <4>. QED  BY <4>1, <4>2, Zenon
    <3>. QED  BY <3>1, <3>2, <3>3, <3>4 DEF StgErrors, Errors
  <2>2. /\ geo' \in Geometry /\ handle' \in {"none", "raw"}
        /\ DOMAIN buf' \subseteq Nat /\ buf' \in [DOMAIN buf' -> Int]
        /\ randomAddress' \in BOOLEAN /\ randomCount' \in BOOLEAN
    BY <1>1, <1>3, <2>1 DEF StgTypeOK, RawInv
  <2>3. StgTypeOK'
    BY <1>5, <1>6, <2>1, <2>2 DEF StgTypeOK
  <2>4. RawInv'
    BY <1>1, <1>2, <1>5, <1>6, <2>2 DEF RawInv
  <2>. QED  BY <1>6, <2>3, <2>4 DEF SInv
<1>7. CASE pc' # "done"
  <2>1. /\ geo' = g /\ g.BlockCount # 0 /\ g.BlockLength # 0 /\ handle' = "raw"
        /\ buf' \in [0..g.MaxTransferLength \div g.BlockLength - 1 -> InitialContents]
        /\ randomAddress' = (addr = Star) /\ randomCount' = (cnt = Star)
        /\ pc' = "issue" /\ err' = err /\ faulted' = faulted
    BY <1>4, <1>7 DEF SetUp
  <2>2. g.MaxTransferLength \div g.BlockLength \in Int
    BY <1>3, <2>1 DEF Geometry
  <2>3. DOMAIN buf' \subseteq Nat /\ buf' \in [DOMAIN buf' -> Int]
    <3>1. DOMAIN buf' = 0..g.MaxTransferLength \div g.BlockLength - 1
      BY <2>1
    <3>2. \A x \in DOMAIN buf' : buf'[x] \in Int
      BY <2>1, ContentsAssumption, Zenon
    <3>3. 0..g.MaxTransferLength \div g.BlockLength - 1 \subseteq Nat
      BY <2>2
    <3>. QED  BY <2>1, <3>1, <3>2, <3>3, Zenon
  <2>4. /\ err' \in StgErrors /\ geo' \in Geometry /\ faulted' \in BOOLEAN
        /\ randomAddress' \in BOOLEAN /\ randomCount' \in BOOLEAN
    BY <1>1, <1>3, <2>1 DEF StgTypeOK, StgErrors, Errors
  <2>5. StgTypeOK'
    BY <1>5, <2>1, <2>3, <2>4 DEF StgTypeOK
  <2>6. D' \in Nat \ {0} /\ geo'.BlockLength \in Nat \ {0} /\ i' < OpCount
    BY <1>1, <1>2, <1>3, <2>1, OpCountPositive DEF D, Geometry
  <2>7. RawInv'
    <3>1. disk' \in Disks /\ handle' \in {"none", "raw"} /\ PostedWellFormed(reqQ')
      BY <1>1, <1>2, <1>5, <2>1 DEF RawInv
    <3>2. (addr' = Star => randomAddress') /\ (cnt' = Star => randomCount')
      BY <1>2, <2>1, Zenon
    <3>3. i' = 0 /\ j' = 0 /\ pc' = "issue"
      BY <1>1, <1>2, <2>1
    <3>. QED  BY <2>6, <3>1, <3>2, <3>3 DEF RawInv
  <2>. QED  BY <1>1, <2>1, <2>5, <2>7 DEF SInv
<1>. QED  BY <1>6, <1>7

(***************************************************************************)
(* The raw loop body up to the pass-through keeps SInv.  The batch update *)
(* does not divide by zero (else DivideByZero is the step), so it draws  *)
(* numbers; DataBuffer, overrun by the transfer, is still a buffer; the  *)
(* request is well formed; and run() either returns or waits for the     *)
(* disk with Error still ERROR_SUCCESS.                                  *)
(***************************************************************************)
LEMMA RawIssueSInv ==
    ASSUME SInv, target = "raw", RawIssue, UNCHANGED target
    PROVE  SInv'
<1>1. /\ StgTypeOK /\ RawInv /\ pc = "issue" /\ err = "SUCCESS" /\ handle = "raw"
      /\ D \in Nat \ {0} /\ geo.BlockLength \in Nat \ {0} /\ i < OpCount
      /\ addr = Star => randomAddress
      /\ cnt = Star => randomCount
      /\ i # 0 => addr \in Nat /\ cnt \in Nat
      /\ i = 0 => j = 0
      /\ ~DividesByZero
  BY DEF SInv, RawIssue, RawInv
<1>2. /\ seed \in Seed /\ randomAddress \in BOOLEAN /\ randomCount \in BOOLEAN
      /\ i \in 0..OpCount /\ j \in 0..Len(OpKinds) - 1
      /\ addr \in Nat \cup {Star} /\ cnt \in Nat \cup {Star} /\ opcnt \in Nat
      /\ geo \in Geometry /\ testKind \in OpKindSet \cup {ReservedKind}
      /\ DOMAIN buf \subseteq Nat /\ buf \in [DOMAIN buf -> Int]
      /\ reqQ \in Seq(RequestType) /\ PostedWellFormed(reqQ)
  BY <1>1 DEF StgTypeOK, RawInv
<1> DEFINE b  == IF j = 0 THEN NextBatch
                 ELSE [addr |-> addr, cnt |-> cnt, opcnt |-> opcnt, seed |-> seed]
           k  == OpKinds[(i % Len(OpKinds)) + 1]
           ob == Overrun(buf, b.opcnt)
           nb == IssueBuffer(ob, k, b.addr, b.opcnt)
           r  == Request(i, k, b, nb)
<1> HIDE DEF b, k, ob, nb, r
<1>3. b.addr \in Nat /\ b.cnt \in Nat /\ b.opcnt \in Nat /\ b.seed \in Seed
  <2>1. CASE j = 0
    <3>1. randomCount => MaxBlockCount # 0
      BY <1>1, <2>1 DEF DividesByZero
    <3>. QED  BY <1>1, <1>2, <2>1, <3>1, RawNextBatchType DEF b
  <2>2. CASE j # 0
    BY <1>1, <1>2, <2>2 DEF b
  <2>. QED  BY <2>1, <2>2
<1>4. k \in OpKindSet
  <2>1. (i % Len(OpKinds)) + 1 \in 1..Len(OpKinds)
    BY <1>2, CycleLength
  <2>. QED  BY <2>1, OpKindsAssumption DEF k
<1>5. /\ DOMAIN nb \subseteq Nat /\ nb \in [DOMAIN nb -> Int]
      /\ 0..b.opcnt - 1 \subseteq DOMAIN nb
  <2>1. /\ DOMAIN ob \subseteq Nat /\ ob \in [DOMAIN ob -> Int]
        /\ 0..b.opcnt - 1 \subseteq DOMAIN ob
    BY <1>2, <1>3, OverrunType DEF ob
  <2>2. DOMAIN nb = DOMAIN ob /\ nb \in [DOMAIN ob -> Int]
    BY <1>3, <1>4, <2>1, BufferUpdateType DEF nb
  <2>. QED  BY <2>1, <2>2
<1>6. /\ r \in RequestType
      /\ r.kind = k
      /\ k = WriteKind => Len(r.data) = r.cnt
  <2>1. \A n \in 1..b.opcnt : nb[n - 1] \in Int
    <3>1. \A n \in 1..b.opcnt : n - 1 \in DOMAIN nb
      BY <1>3, <1>5
    <3>. QED  BY <3>1, <1>5
  <2>2. i \in Nat
    BY <1>2
  <2>. QED  BY <1>3, <1>4, <2>1, <2>2, RequestWellFormed DEF r
<1>7. /\ addr' = b.addr /\ cnt' = b.cnt /\ opcnt' = b.opcnt /\ seed' = b.seed
      /\ testKind' = IF k \in {WriteKind, UnmapKind} THEN k ELSE BatchTestKind(j, testKind)
      /\ buf' = nb /\ req' = r
      /\ UNCHANGED <<geo, store, randomAddress, randomCount, i, j, rspQ, faulted, disk, handle>>
      /\ \/ err' = "INVALID_PARAMETER" /\ pc' = "done" /\ reqQ' = reqQ
         \/ err' = "NO_RESOURCES" /\ pc' = "done" /\ reqQ' = reqQ
         \/ reqQ' = Post(reqQ, r) /\ pc' = "wait" /\ err' = err
  BY Zenon DEF RawIssue, UnsupportedKindError, b, k, ob, nb, r
<1>8. testKind' \in OpKindSet \cup {ReservedKind}
  BY <1>2, <1>4, <1>7 DEF BatchTestKind
<1>9. reqQ' \in Seq(RequestType) /\ PostedWellFormed(reqQ')
  <2>1. CASE reqQ' = Post(reqQ, r)
    BY <1>2, <1>4, <1>6, <2>1 DEF Post, PostedWellFormed
  <2>2. CASE reqQ' = reqQ
    BY <1>2, <2>2
  <2>. QED  BY <1>7, <2>1, <2>2
<1>10. /\ err' \in StgErrors /\ pc' \in {"done", "wait"}
       /\ (pc' = "wait" => err' = "SUCCESS")
  BY <1>1, <1>7 DEF StgErrors, Errors
<1>11. StgTypeOK'
  <2>1. /\ target' \in Targets /\ disk' \in Disks \cup {NoDisk}
        /\ handle' \in {"none", "pipe", "raw"} /\ geo' \in Geometry
        /\ store' \in [0..UnitBlocks' - 1 -> Int]
        /\ randomAddress' \in BOOLEAN /\ randomCount' \in BOOLEAN
        /\ i' \in 0..OpCount /\ j' \in 0..Len(OpKinds) - 1
        /\ rspQ' \in Seq(ResponseType) /\ faulted' \in BOOLEAN
    BY <1>1, <1>7, Zenon DEF StgTypeOK, UnitBlocks
  <2>2. /\ addr' \in Nat \cup {Star} /\ cnt' \in Nat \cup {Star} /\ opcnt' \in Nat
        /\ seed' \in Seed
    BY <1>3, <1>7
  <2>3. DOMAIN buf' \subseteq Nat /\ buf' \in [DOMAIN buf' -> Int] /\ req' \in RequestType
    BY <1>5, <1>6, <1>7
  <2>. QED  BY <1>8, <1>9, <1>10, <2>1, <2>2, <2>3 DEF StgTypeOK
<1>12. RawInv'
  <2>1. disk' \in Disks /\ handle' \in {"none", "raw"}
    BY <1>1, <1>7 DEF RawInv
  <2>2. /\ D' \in Nat \ {0} /\ geo'.BlockLength \in Nat \ {0} /\ i' < OpCount
        /\ i' = i /\ j' = j
    BY <1>1, <1>7 DEF D
  <2>3. addr' \in Nat /\ cnt' \in Nat
    BY <1>3, <1>7
  <2>4. addr' # Star /\ cnt' # Star
    BY <2>3, ArgsAssumption
  <2>. QED  BY <1>1, <1>9, <1>10, <2>1, <2>2, <2>3, <2>4 DEF RawInv
<1>. QED  BY <1>1, <1>7, <1>10, <1>11, <1>12 DEF SInv

(***************************************************************************)
(* Reading the disk's answer keeps SInv: DataBuffer takes the data of a *)
(* Read, and run() goes on with the next operation of the batch or       *)
(* returns, with I still counting no more than OpCount operations.      *)
(***************************************************************************)
LEMMA RawAcceptSInv ==
    ASSUME SInv, target = "raw", RawAccept, UNCHANGED target
    PROVE  SInv'
<1>1. /\ StgTypeOK /\ RawInv /\ pc = "wait" /\ err = "SUCCESS" /\ handle = "raw"
      /\ D \in Nat \ {0} /\ geo.BlockLength \in Nat \ {0} /\ i < OpCount
      /\ addr \in Nat /\ cnt \in Nat
      /\ DOMAIN buf \subseteq Nat /\ buf \in [DOMAIN buf -> Int]
      /\ rspQ \in Seq(ResponseType) /\ rspQ # <<>>
      /\ i \in 0..OpCount /\ j \in 0..Len(OpKinds) - 1
  BY DEF SInv, RawAccept, RawInv, StgTypeOK
<1>2. Head(rspQ) \in ResponseType /\ Tail(rspQ) \in Seq(ResponseType)
  BY <1>1, HeadTailType
<1>3. DOMAIN buf' \subseteq Nat /\ buf' \in [DOMAIN buf' -> Int]
  <2>1. DOMAIN RawReceived(Head(rspQ)) = DOMAIN buf
        /\ RawReceived(Head(rspQ)) \in [DOMAIN buf -> Int]
    BY <1>1, <1>2, RawReceivedType
  <2>2. buf' = RawReceived(Head(rspQ))
    BY DEF RawAccept
  <2>. QED  BY <1>1, <2>1, <2>2
<1>4. /\ rspQ' = Tail(rspQ) /\ i' = i + 1 /\ j' = NextCursor(j)
      /\ pc' = IF i + 1 < OpCount THEN "issue" ELSE "done"
      /\ UNCHANGED <<err, geo, store, randomAddress, randomCount, addr, cnt, opcnt,
                     testKind, seed, req, reqQ, faulted, disk, handle>>
  BY DEF RawAccept
<1>5. i' \in 0..OpCount /\ i' # 0 /\ j' \in 0..Len(OpKinds) - 1
  BY <1>1, <1>4, CycleLength, OpCountPositive DEF NextCursor
<1>6. StgTypeOK'
  <2>1. /\ target' \in Targets /\ disk' \in Disks \cup {NoDisk}
        /\ handle' \in {"none", "pipe", "raw"} /\ geo' \in Geometry
        /\ store' \in [0..UnitBlocks' - 1 -> Int] /\ err' \in StgErrors
        /\ randomAddress' \in BOOLEAN /\ randomCount' \in BOOLEAN
        /\ addr' \in Nat \cup {Star} /\ cnt' \in Nat \cup {Star} /\ opcnt' \in Nat
        /\ testKind' \in OpKindSet \cup {ReservedKind} /\ seed' \in Seed
        /\ req' \in RequestType /\ reqQ' \in Seq(RequestType) /\ faulted' \in BOOLEAN
    BY <1>1, <1>4, Zenon DEF StgTypeOK, UnitBlocks
  <2>2. pc' \in {"open", "issue", "wait", "done", "crashed"}
    BY <1>4
  <2>. QED  BY <1>2, <1>3, <1>4, <1>5, <2>1, <2>2 DEF StgTypeOK
<1>7. RawInv'
  <2>1. disk' \in Disks /\ handle' \in {"none", "raw"} /\ PostedWellFormed(reqQ')
    BY <1>1, <1>4 DEF RawInv
  <2>2. pc' = "issue" => i' < OpCount
    BY <1>1, <1>4
  <2>3. /\ D' \in Nat \ {0} /\ geo'.BlockLength \in Nat \ {0}
        /\ addr' \in Nat /\ cnt' \in Nat /\ addr' # Star /\ cnt' # Star
    BY <1>1, <1>4, ArgsAssumption DEF D
  <2>. QED  BY <1>4, <1>5, <2>1, <2>2, <2>3 DEF RawInv
<1>. QED  BY <1>1, <1>4, <1>6, <1>7 DEF SInv

(***************************************************************************)
(* A rejected answer ends run() with ERROR_IO_DEVICE: SInv holds in the  *)
(* final state.                                                          *)
(***************************************************************************)
LEMMA RawRejectSInv ==
    ASSUME SInv, target = "raw", RawReject, UNCHANGED target
    PROVE  SInv'
<1>1. /\ StgTypeOK /\ RawInv
      /\ DOMAIN buf \subseteq Nat /\ buf \in [DOMAIN buf -> Int]
      /\ rspQ \in Seq(ResponseType) /\ rspQ # <<>>
  BY DEF SInv, RawReject, StgTypeOK
<1>2. Head(rspQ) \in ResponseType /\ Tail(rspQ) \in Seq(ResponseType)
  BY <1>1, HeadTailType
<1>3. DOMAIN buf' \subseteq Nat /\ buf' \in [DOMAIN buf' -> Int]
  <2>1. DOMAIN RawReceived(Head(rspQ)) = DOMAIN buf
        /\ RawReceived(Head(rspQ)) \in [DOMAIN buf -> Int]
    BY <1>1, <1>2, RawReceivedType
  <2>2. buf' = RawReceived(Head(rspQ))
    BY DEF RawReject
  <2>. QED  BY <1>1, <2>1, <2>2
<1>4. /\ rspQ' = Tail(rspQ) /\ err' = "IO_DEVICE" /\ pc' = "done"
      /\ UNCHANGED <<geo, store, randomAddress, randomCount, i, j, addr, cnt, opcnt,
                     testKind, seed, req, reqQ, faulted, disk, handle>>
  BY DEF RawReject
<1>5. StgTypeOK'
  <2>1. /\ target' \in Targets /\ disk' \in Disks \cup {NoDisk}
        /\ handle' \in {"none", "pipe", "raw"} /\ geo' \in Geometry
        /\ store' \in [0..UnitBlocks' - 1 -> Int]
        /\ randomAddress' \in BOOLEAN /\ randomCount' \in BOOLEAN
        /\ i' \in 0..OpCount /\ j' \in 0..Len(OpKinds) - 1
        /\ addr' \in Nat \cup {Star} /\ cnt' \in Nat \cup {Star} /\ opcnt' \in Nat
        /\ testKind' \in OpKindSet \cup {ReservedKind} /\ seed' \in Seed
        /\ req' \in RequestType /\ reqQ' \in Seq(RequestType) /\ faulted' \in BOOLEAN
    BY <1>1, <1>4, Zenon DEF StgTypeOK, UnitBlocks
  <2>2. err' \in StgErrors /\ pc' \in {"open", "issue", "wait", "done", "crashed"}
    BY <1>4 DEF StgErrors, Errors
  <2>. QED  BY <1>2, <1>3, <1>4, <2>1, <2>2 DEF StgTypeOK
<1>6. RawInv'
  BY <1>1, <1>4 DEF RawInv
<1>. QED  BY <1>4, <1>5, <1>6 DEF SInv

(***************************************************************************)
(* The division by zero of the batch update kills run(): nothing changes *)
(* but pc, and the dead state satisfies SInv.                            *)
(***************************************************************************)
LEMMA DivideByZeroSInv ==
    ASSUME SInv, target = "raw", DivideByZero, UNCHANGED target
    PROVE  SInv'
<1>1. StgTypeOK /\ RawInv
  BY DEF SInv
<1>2. /\ pc' = "crashed"
      /\ UNCHANGED <<err, geo, store, randomAddress, randomCount, i, j, addr, cnt, opcnt,
                     testKind, seed, buf, req, reqQ, rspQ, faulted, disk, handle>>
  BY DEF DivideByZero
<1>3. StgTypeOK'
  BY <1>1, <1>2, Zenon DEF StgTypeOK, UnitBlocks
<1>4. RawInv'
  BY <1>1, <1>2 DEF RawInv
<1>. QED  BY <1>2, <1>3, <1>4 DEF SInv

(***************************************************************************)
(* The disk answering a request keeps SInv: it is Serve on the disk's    *)
(* blocks, whose number is that of the disk, not of the geometry run()   *)
(* decoded.                                                              *)
(***************************************************************************)
LEMMA DiskSInv ==
    ASSUME SInv, target = "raw", Disk, UNCHANGED target
    PROVE  SInv'
<1>1. /\ StgTypeOK /\ RawInv
      /\ disk \in Disks /\ UnitBlocks = disk.blocks
      /\ disk.blocks \in Nat /\ store \in [0..disk.blocks - 1 -> Int]
      /\ reqQ \in Seq(RequestType) /\ PostedWellFormed(reqQ)
      /\ rspQ \in Seq(ResponseType) /\ faulted \in BOOLEAN
  BY DisksAssumption DEF SInv, StgTypeOK, RawInv, UnitBlocks, DiskGeometry
<1>2. /\ store' \in [0..disk.blocks - 1 -> Int]
      /\ reqQ' \in Seq(RequestType) /\ PostedWellFormed(reqQ')
      /\ rspQ' \in Seq(ResponseType) /\ faulted' \in BOOLEAN
      /\ UNCHANGED <<clientVars, geo>>
  BY <1>1, ServeType DEF Disk
<1>3. UNCHANGED <<disk, handle>> /\ UNCHANGED <<pc, err, randomAddress, randomCount, i, j,
                                               addr, cnt, opcnt, testKind, seed, buf, req>>
  BY <1>2 DEF Disk, clientVars
<1>4. UnitBlocks' = disk.blocks
  BY <1>3 DEF UnitBlocks
<1>5. StgTypeOK'
  BY <1>1, <1>2, <1>3, <1>4, Zenon DEF StgTypeOK
<1>6. RawInv'
  BY <1>1, <1>2, <1>3 DEF RawInv, D
<1>. QED  BY <1>1, <1>3, <1>5, <1>6 DEF SInv

(***************************************************************************)
(* On a raw name every step keeps SInv: the pipe steps and the pipe      *)
(* server need the pipe handle, which a raw name never gets.             *)
(***************************************************************************)
LEMMA RawSInv ==
    ASSUME SInv, target = "raw", StgNext
    PROVE  SInv'
<1>1. handle \in {"none", "raw"}
  BY DEF SInv, RawInv
<1>2. CASE StgOpen /\ UNCHANGED target
  <2>1. ~(target = "pipe")
    OBVIOUS
  <2>2. RawOpen
    BY <1>2, <2>1, Zenon DEF StgOpen
  <2>. QED  BY <1>2, <2>2, RawOpenSInv
<1>3. CASE PipeStep /\ UNCHANGED target
  BY <1>1, <1>3 DEF PipeStep, IsPipeHandle
<1>4. CASE RawStep /\ UNCHANGED target
  BY <1>4, RawIssueSInv, RawAcceptSInv, RawRejectSInv, DivideByZeroSInv DEF RawStep
<1>5. CASE IsPipeHandle(handle) /\ Serve /\ UNCHANGED <<disk, handle, target>>
  BY <1>1, <1>5 DEF IsPipeHandle
<1>6. CASE handle = "raw" /\ Disk /\ UNCHANGED target
  BY <1>6, DiskSInv
<1>. QED  BY <1>2, <1>3, <1>4, <1>5, <1>6 DEF StgNext, StgClient, Unit
-----------------------------------------------------------------------------
(***************************************************************************)
(* The initial states satisfy SInv: on a pipe name they are those of     *)
(* StgPipe, on a raw name the unit is a disk of Disks and run() has not  *)
(* opened anything yet.                                                  *)
(***************************************************************************)
LEMMA StgInitSInv == StgInit => SInv
<1> SUFFICES ASSUME StgInit PROVE SInv
  OBVIOUS
<1>1. /\ target \in Targets /\ handle = "none" /\ RunInit
      /\ target \in {"pipe", "raw"}
  BY TargetsAssumption DEF StgInit
<1>2. CASE target = "pipe"
  <2>1. disk = NoDisk /\ Init
    BY <1>1, <1>2 DEF StgInit, Init, UnitBlocks
  <2>2. IInv
    BY <2>1, InitIInv
  <2>3. TypeOK
    BY <2>2 DEF IInv
  <2>4. StgTypeOK
    BY <1>1, <1>2, <2>1, <2>3, GeometriesAssumption
       DEF TypeOK, StgTypeOK, UnitBlocks, D, StgErrors
  <2>. QED  BY <1>1, <1>2, <2>1, <2>2, <2>4 DEF SInv, PipeInv, RunInit
<1>3. CASE target = "raw"
  <2>1. /\ disk \in Disks /\ geo = ZeroGeometry
        /\ store \in [0..disk.blocks - 1 -> InitialContents]
    BY <1>2, <1>3 DEF StgInit, UnitBlocks
  <2>2. seed \in Seed
    BY <1>1, SeedAssumption, SeedOfType DEF RunInit
  <2>3. NoRequest \in RequestType
    BY DEF NoRequest, RequestType, NoDescriptor, Descriptor, ReservedKind, OpKindSet
  <2>4. /\ store \in [0..UnitBlocks - 1 -> Int] /\ geo \in Geometry
        /\ disk \in Disks \cup {NoDisk}
    <3>1. UnitBlocks = disk.blocks
      BY <1>3 DEF UnitBlocks
    <3>2. store \in [0..disk.blocks - 1 -> Int]
      BY <2>1, ContentsAssumption, Zenon
    <3>3. ZeroGeometry \in Geometry
      BY DEF ZeroGeometry, Geometry
    <3>. QED  BY <2>1, <3>1, <3>2, <3>3
  <2>5. /\ i \in 0..OpCount /\ j \in 0..Len(OpKinds) - 1
        /\ addr \in Nat \cup {Star} /\ cnt \in Nat \cup {Star}
    BY <1>1, OpCountPositive, CycleLength, ArgsAssumption DEF RunInit
  <2>6. StgTypeOK
    <3>1. /\ pc \in {"open", "issue", "wait", "done", "crashed"} /\ err \in StgErrors
          /\ opcnt \in Nat /\ testKind \in OpKindSet \cup {ReservedKind}
          /\ DOMAIN buf \subseteq Nat /\ buf \in [DOMAIN buf -> Int]
          /\ req \in RequestType /\ reqQ \in Seq(RequestType)
          /\ rspQ \in Seq(ResponseType)
      BY <1>1, <2>3 DEF RunInit, StgErrors, Errors, ReservedKind, OpKindSet
    <3>2. randomAddress \in BOOLEAN /\ randomCount \in BOOLEAN /\ faulted \in BOOLEAN
      BY <1>1, Zenon DEF RunInit
    <3>3. handle \in {"none", "pipe", "raw"}
      BY <1>1
    <3>. QED  BY <1>1, <2>2, <2>4, <2>5, <3>1, <3>2, <3>3 DEF StgTypeOK
  <2>7. RawInv
    BY <1>1, <2>1 DEF RawInv, RunInit, PostedWellFormed
  <2>. QED  BY <1>1, <1>3, <2>6, <2>7 DEF SInv, RunInit
<1>. QED  BY <1>1, <1>2, <1>3

\* A step that changes none of the variables keeps SInv.
LEMMA StutterSInv == SInv /\ UNCHANGED stgVars => SInv'
<1> SUFFICES ASSUME SInv, UNCHANGED stgVars PROVE SInv'
  OBVIOUS
<1>1. UNCHANGED <<vars, disk, handle, target>>
  BY DEF stgVars, rawVars
<1>2. UNCHANGED <<pc, err, geo, store, randomAddress, randomCount, i, j, addr, cnt,
                  opcnt, testKind, seed, buf, req, reqQ, rspQ, faulted>>
  BY <1>1 DEF vars, clientVars
<1>3. StgTypeOK'
  BY <1>1, <1>2 DEF SInv, StgTypeOK, UnitBlocks
<1>4. target = "pipe" => PipeInv'
  BY <1>1, StutterIInv DEF SInv, PipeInv
<1>5. target = "raw" => RawInv'
  BY <1>1, <1>2 DEF SInv, RawInv, PostedWellFormed, D
<1>. QED  BY <1>1, <1>2, <1>3, <1>4, <1>5 DEF SInv

\* Every step of run() and of the unit, pipe or disk, keeps SInv.
LEMMA NextSInv == SInv /\ [StgNext]_stgVars => SInv'
<1> SUFFICES ASSUME SInv, [StgNext]_stgVars PROVE SInv'
  OBVIOUS
<1>1. target \in {"pipe", "raw"}
  BY TargetsAssumption DEF SInv, StgTypeOK
<1>. QED  BY <1>1, PipeSInv, RawSInv, StutterSInv

(***************************************************************************)
(* Type correctness of run() on either kind of name: whatever the name,  *)
(* the disk behind a raw one and the answers of the unit, every variable *)
(* keeps its type, including the geometry run() decodes from the raw     *)
(* disk's READ CAPACITY(16) and Block Limits bytes and DataBuffer after  *)
(* the pass-through overruns it.                                         *)
(***************************************************************************)
THEOREM StgTypeCorrect == StgSpec => []StgTypeOK
<1>1. SInv => StgTypeOK
  BY DEF SInv
<1>. QED  BY <1>1, StgInitSInv, NextSInv, PTL DEF StgSpec

(***************************************************************************)
(* Every way out of StgOpen sets an error, unless run() goes on into its *)
(* loop.                                                                 *)
(***************************************************************************)
LEMMA OpenExitFails ==
    ASSUME StgOpen, pc' = "done"
    PROVE  err' # "SUCCESS"
<1>1. CASE target = "pipe" /\ Open
  BY <1>1, Zenon DEF Open
<1>2. CASE target = "raw" /\ RawOpen
  BY <1>2, Zenon DEF RawOpen
<1>. QED  BY <1>1, <1>2 DEF StgOpen

(***************************************************************************)
(* In the loop, the exits of the Issue steps and of the Reject steps set  *)
(* an error; the Accept steps leave with Error = ERROR_SUCCESS only after *)
(* the operation that makes OpCount, and DivideByZero does not return.   *)
(***************************************************************************)
LEMMA LoopExitSucceeds ==
    ASSUME NEW ii \in Nat, ii < OpCount, i = ii,
           Issue \/ Accept \/ Reject \/ RawIssue \/ RawAccept \/ RawReject \/ DivideByZero,
           pc' = "done", err' = "SUCCESS"
    PROVE  pc = "wait" /\ i' = OpCount
<1>1. OpCount \in Nat
  BY OpCountPositive
<1>2. CASE Issue
  BY <1>2, Zenon DEF Issue
<1>3. CASE RawIssue
  BY <1>3, Zenon DEF RawIssue, UnsupportedKindError
<1>4. CASE Reject \/ RawReject \/ DivideByZero
  BY <1>4 DEF Reject, RawReject, DivideByZero
<1>5. CASE Accept \/ RawAccept
  <2>1. /\ pc = "wait" /\ i' = ii + 1
        /\ pc' = IF ii + 1 < OpCount THEN "issue" ELSE "done"
    BY <1>5 DEF Accept, RawAccept
  <2>2. ~(ii + 1 < OpCount)
    BY <2>1
  <2>. QED  BY <1>1, <2>1, <2>2
<1>. QED  BY <1>2, <1>3, <1>4, <1>5

(***************************************************************************)
(* From a state of SInv, a step in which run() returns ERROR_SUCCESS is   *)
(* the Accept of the last operation.                                     *)
(***************************************************************************)
LEMMA SuccessStep ==
    ASSUME SInv, [StgNext]_stgVars
    PROVE  pc # "done" /\ pc' = "done" /\ err' = "SUCCESS" => pc = "wait" /\ i' = OpCount
<1> SUFFICES ASSUME pc # "done", pc' = "done", err' = "SUCCESS"
             PROVE  pc = "wait" /\ i' = OpCount
  OBVIOUS
<1>1. pc \in {"issue", "wait"} => i \in Nat /\ i < OpCount
  <2>1. target \in {"pipe", "raw"}
    BY TargetsAssumption DEF SInv, StgTypeOK
  <2>. QED  BY <2>1 DEF SInv, PipeInv, IInv, RawInv, StgTypeOK
<1>2. CASE StgOpen
  BY <1>2, OpenExitFails
<1>3. CASE PipeStep \/ RawStep
  <2>1. pc \in {"issue", "wait"}
    BY <1>3 DEF PipeStep, RawStep, Issue, Accept, Reject, RawIssue, RawAccept,
               RawReject, DivideByZero
  <2>2. Issue \/ Accept \/ Reject \/ RawIssue \/ RawAccept \/ RawReject \/ DivideByZero
    BY <1>3 DEF PipeStep, RawStep
  <2>. QED  BY <1>1, <2>1, <2>2, LoopExitSucceeds
<1>4. CASE Unit \/ UNCHANGED stgVars
  <2>1. pc' = pc
    BY <1>4, Zenon DEF Unit, Disk, Serve, stgVars, rawVars, vars, clientVars
  <2>. QED  BY <2>1
<1>. QED  BY <1>2, <1>3, <1>4 DEF StgNext, StgClient

(***************************************************************************)
(* run() returns ERROR_SUCCESS only by accepting the response to the last *)
(* of its OpCount operations (SuccessOnlyAfterAllOps): no exit of         *)
(* StgOpen, StgTransact or the loop's checks that forgets its error, on  *)
(* either kind of name.                                                  *)
(***************************************************************************)
THEOREM StgSuccessOnlyAfterAllOps == StgSpec => SuccessOnlyAfterAllOps
<1>1. StgSpec => []SInv
  BY StgInitSInv, NextSInv, PTL DEF StgSpec
<1>2. SInv /\ [StgNext]_stgVars
        => [pc # "done" /\ pc' = "done" /\ err' = "SUCCESS" => pc = "wait" /\ i' = OpCount]_stgVars
  BY SuccessStep
<1>. QED  BY <1>1, <1>2, PTL DEF StgSpec, SuccessOnlyAfterAllOps

=============================================================================
