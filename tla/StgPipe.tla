------------------------------- MODULE StgPipe -------------------------------
(***************************************************************************)
(* run() of stgpipe.c driving a storage unit over the pipe transport       *)
(* (StgOpen/StgOpenPipe, StgTransact/StgTransactPipe, StgClose), together  *)
(* with the storage server at the other end of the pipe.  The program      *)
(* tests that server and does not trust it: as ServerFaults allows, the    *)
(* server may announce a short handshake, lose or corrupt a write, lose an *)
(* unmap, answer with a bad status, deliver a short read payload, or send  *)
(* a response message twice.                                               *)
(*                                                                         *)
(* A transact blocks the single client thread between its WriteFile and    *)
(* its ReadFile, and the server runs in between, so one loop iteration is  *)
(* two client steps: Issue (the batch update when J = 0, the request, the  *)
(* buffer stamp and the WriteFile of the message) and Accept or Reject     *)
(* (the ReadFile of the response and every check that follows it).         *)
(*                                                                         *)
(* Block contents.  FillOrTest stamps every 8-byte word of block b with    *)
(* HashMix64(b + 1).  HashMix64 is a bijection of 64-bit words (x ^= x>>33 *)
(* and multiplication by an odd constant are both invertible) and maps 0   *)
(* to 0, so a block whose words are all equal is represented by the        *)
(* preimage of its word: 0 for a zero block, b + 1 for the stamp of block  *)
(* b.  Any other content is Garbage.  Byte counts of payloads are kept in  *)
(* blocks: a partial block padded with zeros passes or fails the checks as *)
(* the whole block it is cut from would, zero or not.                      *)
(***************************************************************************)
EXTENDS Integers, Sequences, StgRandom, StgArgs

CONSTANTS
    Geometries,       \* storage unit parameters the server may announce
    OpCountArg,       \* the OpCount argument of run()
    OpKinds,          \* OpKinds[] as parsed from the OpSet argument
    AddressArgs,      \* possible BlockAddress arguments (Star for "*")
    CountArgs,        \* possible BlockCount arguments (Star for "*")
    Star,             \* the "*" argument, passed to run() as -1
    SeedArgs,         \* possible initial values of *RandomSeed
    InitialContents,  \* block contents the unit may hold before the run
    ServerFaults,     \* the ways the server may deviate from a correct unit
    ResourceFailures, \* whether MemAlloc and CreateEventW may fail
    RspQueueBound     \* bound on response messages buffered in the pipe

FaultKinds == {"ShortHandshake", "LoseWrite", "CorruptWrite", "LoseUnmap",
               "BadStatus", "ShortRead", "DupResponse"}

ReservedKind == "Reserved"
OpKindSet == {ReadKind, WriteKind, FlushKind, UnmapKind}

Geometry == [BlockCount : Nat, BlockLength : Nat, MaxTransferLength : Nat]

Garbage == -1

ASSUME GeometriesAssumption == Geometries \subseteq Geometry /\ Geometries # {}
ASSUME OpCountAssumption == OpCountArg \in Nat
ASSUME OpKindsAssumption ==
    OpKinds \in Seq(OpKindSet) /\ 1 <= Len(OpKinds) /\ Len(OpKinds) <= 32
ASSUME ArgsAssumption ==
    /\ Star \notin Nat
    /\ AddressArgs \subseteq Nat \cup {Star} /\ AddressArgs # {}
    /\ CountArgs \subseteq Nat \cup {Star} /\ CountArgs # {}
ASSUME SeedAssumption == SeedArgs \subseteq Nat /\ SeedArgs # {}
ASSUME ContentsAssumption == InitialContents \subseteq Int /\ InitialContents # {}
ASSUME FaultsAssumption == ServerFaults \subseteq FaultKinds
ASSUME ResourceAssumption == ResourceFailures \in BOOLEAN
ASSUME BoundAssumption == RspQueueBound \in Nat \ {0}

Good == "GOOD"
CheckCondition == "CHECK_CONDITION"

\* sizeof(SPD_IOCTL_UNMAP_DESCRIPTOR)
UnmapDescriptorSize == 16

\* if (0 == OpCount) OpCount = 1;
OpCount == IF OpCountArg = 0 THEN 1 ELSE OpCountArg

VARIABLES
    pc,             \* where run() is: "open", "issue", "wait", "done"
    err,            \* Error, the value run() returns
    geo,            \* the storage unit parameters the server announces
    store,          \* the server's blocks
    randomAddress,  \* RandomAddress
    randomCount,    \* RandomCount
    i,              \* I, the operation number
    j,              \* J, the position in the OpKinds cycle
    addr,           \* BlockAddress
    cnt,            \* BlockCount
    opcnt,          \* OpBlockCount
    testKind,       \* TestOpKind
    seed,           \* *RandomSeed
    buf,            \* DataBuffer, in blocks
    req,            \* Req, the request of the current transact
    reqQ,           \* request messages in the pipe, client to server
    rspQ,           \* response messages in the pipe, server to client
    faulted         \* history: the server has deviated from a correct unit

clientVars == <<pc, err, randomAddress, randomCount, i, j, addr, cnt, opcnt,
                testKind, seed, buf, req>>
vars == <<clientVars, geo, store, reqQ, rspQ, faulted>>

D == geo.BlockCount

\* MaxBlockCount = MaxTransferLength / BlockLength
MaxBlockCount == geo.MaxTransferLength \div geo.BlockLength

\* The handshake checks of StgOpenPipe.
ValidGeometry(g) ==
    /\ g.BlockCount # 0
    /\ g.BlockLength >= UnmapDescriptorSize
    /\ g.MaxTransferLength # 0
    /\ g.MaxTransferLength % g.BlockLength = 0

\* HashMix64(BlockAddress + I + 1), as its preimage.
Stamp(b) == b + 1

\* The word FillOrTest expects in block b after a Write or an Unmap.
Expected(tk, b) == IF tk = WriteKind THEN Stamp(b) ELSE 0

\* FillOrTest(..., 0): stamp the first c blocks of the buffer for address a.
Stamped(b, a, c) == [k \in DOMAIN b |-> IF k < c THEN Stamp(a + k) ELSE b[k]]

\* A comparison that stops one block short.
BufferMatchesBug(b, tk, a, c) == \A k \in 0..c - 2 : b[k] = Expected(tk, a + k)

\* FillOrTest(..., TestOpKind) returns 1.
BufferMatches(b, tk, a, c) == \A k \in 0..c - 1 : b[k] = Expected(tk, a + k)

\* A batch that is never cut at the end of the unit.
OpBlockCountOfBug(a, c) == c

\* OpBlockCount: the batch is cut short at the end of the unit.
OpBlockCountOf(a, c) == IF a + c <= D THEN c ELSE D - a

(***************************************************************************)
(* The batch update at the top of the loop when J = 0: the next address    *)
(* and count, drawn or carried over, and the seed after the draws.        *)
(***************************************************************************)
NextBatch ==
    LET ra == RandomAddress(seed, D)
        a  == IF randomAddress THEN ra.value
              ELSE IF i # 0 THEN (addr + cnt) % D ELSE addr % D
        s  == IF randomAddress THEN ra.seed ELSE seed
        rc == RandomCount(s, MaxBlockCount)
        c0 == IF randomCount THEN rc.value
              ELSE IF cnt > MaxBlockCount THEN MaxBlockCount ELSE cnt
        c  == IF c0 = 0 THEN 1 ELSE c0
    IN  [addr |-> a, cnt |-> c, opcnt |-> OpBlockCountOf(a, c),
         seed |-> IF randomCount THEN rc.seed ELSE s]

\* TestOpKind kept across batches.
BatchTestKindBug(jj, tk) == tk

\* TestOpKind = SpdIoctlTransactReservedKind at the start of a batch.
BatchTestKind(jj, tk) == IF jj = 0 THEN ReservedKind ELSE tk

\* J++ without the wrap.
NextCursorBug(jj) == jj + 1

\* J++; J %= OpKindCount;
NextCursor(jj) == (jj + 1) % Len(OpKinds)

(***************************************************************************)
(* The request of operation h of kind k on batch b, with the bytes that    *)
(* follow it in the message: data, the stamped blocks of a Write, and     *)
(* desc, the one descriptor of an Unmap.  An Unmap request carries only *)
(* Op.Unmap.Count = 1; its range travels in the descriptor, and addr and  *)
(* cnt, which only the other kinds use, are left at 0.                    *)
(***************************************************************************)
NoDescriptor == [addr |-> 0, cnt |-> 0]

(***************************************************************************)
(* DataBuffer as the transact sends it for kind k on blocks a..a+c-1:     *)
(* FillOrTest stamps a Write; the descriptor overwrites the first bytes   *)
(* of an Unmap, which leaves the first block Garbage.                     *)
(***************************************************************************)
IssueBuffer(b, k, a, c) ==
    CASE k = WriteKind -> Stamped(b, a, c)
      [] k = UnmapKind -> [b EXCEPT ![0] = Garbage]
      [] OTHER         -> b

Request(h, k, b, stamped) ==
    [hint |-> h, kind |-> k,
     addr |-> IF k = UnmapKind THEN 0 ELSE b.addr,
     cnt  |-> IF k = UnmapKind THEN 0 ELSE b.opcnt,
     data |-> IF k = WriteKind THEN [n \in 1..b.opcnt |-> stamped[n - 1]] ELSE <<>>,
     desc |-> IF k = UnmapKind THEN [addr |-> b.addr, cnt |-> b.opcnt] ELSE NoDescriptor]

NoRequest == [hint |-> 0, kind |-> ReservedKind, addr |-> 0, cnt |-> 0, data |-> <<>>,
              desc |-> NoDescriptor]

\* A request message that is never written.
PostBug(q, r) == q

\* WriteFile of the request message.
Post(q, r) == Append(q, r)

\* The check of StgTransactPipe on the frame read back: Req->Hint == Rsp.Hint.
FrameMatches(r, m) == m.hint = r.hint

\* The response carries read data: Read kind with good status.
CarriesData(m) == m.kind = ReadKind /\ m.status = Good

\* The payload copied into DataBuffer: at most c blocks, zero-padded to c.
Deliver(b, data, c) ==
    [k \in DOMAIN b |-> IF k < c THEN (IF k < Len(data) THEN data[k + 1] ELSE 0)
                                 ELSE b[k]]

\* The checks of the loop body: Hint and Kind echoed.
Correlated(r, m) == m.hint = r.hint /\ m.kind = r.kind
-----------------------------------------------------------------------------
\* run() at its entry, with its arguments, and nothing in the pipe.
RunInit ==
    /\ pc = "open"
    /\ err = "SUCCESS"
    /\ randomAddress = FALSE
    /\ randomCount = FALSE
    /\ i = 0
    /\ j = 0
    /\ addr \in AddressArgs
    /\ cnt \in CountArgs
    /\ opcnt = 0
    /\ testKind = ReservedKind
    /\ seed \in {SeedOf(n) : n \in SeedArgs}
    /\ buf = [k \in {} |-> Garbage]
    /\ req = NoRequest
    /\ reqQ = <<>>
    /\ rspQ = <<>>
    /\ faulted = FALSE

\* The unit announces a geometry and holds that many blocks.
Init ==
    /\ geo \in Geometries
    /\ store \in [0..geo.BlockCount - 1 -> InitialContents]
    /\ RunInit

\* The set-up of run() once the unit is open: DataBuffer from MemAlloc, not
\* initialised, and the flags that "*" arguments set.
SetUp(g) ==
    /\ buf' \in [0..g.MaxTransferLength \div g.BlockLength - 1 -> InitialContents]
    /\ randomAddress' = (addr = Star)
    /\ randomCount' = (cnt = Star)

(***************************************************************************)
(* StgOpen on a pipe name, then the set-up of run() before its loop.  The *)
(* first CreateFileW may find the pipe busy; then the program waits once  *)
(* and tries once more.  The handshake message must hold a whole, valid   *)
(* geometry.  DataBuffer comes from MemAlloc and is not initialised.      *)
(***************************************************************************)
Open ==
    /\ pc = "open"
    /\ \E first \in {"ok", "busy", "fail"}, second \in {"ok", "fail"},
          short \in IF "ShortHandshake" \in ServerFaults THEN BOOLEAN ELSE {FALSE} :
         LET connected == first = "ok" \/ (first = "busy" /\ second = "ok")
             accepted  == connected /\ ~short /\ ValidGeometry(geo)
         IN  \/ /\ ~connected
                /\ err' = "CONNECT"
                /\ pc' = "done"
                /\ UNCHANGED <<buf, randomAddress, randomCount, faulted>>
             \/ /\ connected /\ ~accepted
                /\ err' = "IO_DEVICE"
                /\ pc' = "done"
                /\ faulted' = TRUE
                /\ UNCHANGED <<buf, randomAddress, randomCount>>
             \/ /\ accepted /\ ResourceFailures
                /\ err' = "NO_RESOURCES"
                /\ pc' = "done"
                /\ UNCHANGED <<buf, randomAddress, randomCount, faulted>>
             \/ /\ accepted
                /\ SetUp(geo)
                /\ pc' = "issue"
                /\ UNCHANGED <<err, faulted>>
    /\ UNCHANGED <<geo, store, i, j, addr, cnt, opcnt, testKind, seed, req, reqQ, rspQ>>

(***************************************************************************)
(* The loop body up to the WriteFile of StgTransactPipe.  StgTransactPipe  *)
(* fails before it writes when CreateEventW or MemAlloc fail.              *)
(***************************************************************************)
Issue ==
    /\ pc = "issue"
    /\ LET b  == IF j = 0 THEN NextBatch
                 ELSE [addr |-> addr, cnt |-> cnt, opcnt |-> opcnt, seed |-> seed]
           k  == OpKinds[(i % Len(OpKinds)) + 1]
           tk == BatchTestKind(j, testKind)
           nb == IssueBuffer(buf, k, b.addr, b.opcnt)
           r  == Request(i, k, b, nb)
       IN  /\ addr' = b.addr
           /\ cnt' = b.cnt
           /\ opcnt' = b.opcnt
           /\ seed' = b.seed
           /\ testKind' = IF k \in {WriteKind, UnmapKind} THEN k ELSE tk
           /\ buf' = nb
           /\ req' = r
           /\ \/ /\ reqQ' = Post(reqQ, r)
                 /\ pc' = "wait"
                 /\ UNCHANGED err
              \/ /\ ResourceFailures
                 /\ err' = "NO_RESOURCES"
                 /\ pc' = "done"
                 /\ UNCHANGED reqQ
    /\ UNCHANGED <<geo, store, randomAddress, randomCount, i, j, rspQ, faulted>>

(***************************************************************************)
(* The ReadFile of StgTransactPipe and what follows it.  TransactOk is the *)
(* frame check and the bound on the read length; when it holds and the    *)
(* response carries data, the payload is copied into DataBuffer.          *)
(* Accepted adds the checks of the loop body and the FillOrTest of a Read *)
(* that follows a Write or an Unmap of the batch.                         *)
(***************************************************************************)
TransactOk(m) == FrameMatches(req, m) /\ (CarriesData(m) => req.cnt <= MaxBlockCount)

Received(m) ==
    IF TransactOk(m) /\ CarriesData(m) THEN Deliver(buf, m.data, req.cnt) ELSE buf

Accepted(m) ==
    /\ TransactOk(m)
    /\ Correlated(req, m)
    /\ m.status = Good
    /\ m.kind = ReadKind /\ testKind \in {WriteKind, UnmapKind}
         => BufferMatches(Received(m), testKind, addr, opcnt)

Accept ==
    /\ pc = "wait"
    /\ rspQ # <<>>
    /\ Accepted(Head(rspQ))
    /\ buf' = Received(Head(rspQ))
    /\ rspQ' = Tail(rspQ)
    /\ i' = i + 1
    /\ j' = NextCursor(j)
    /\ pc' = IF i + 1 < OpCount THEN "issue" ELSE "done"
    /\ UNCHANGED <<err, geo, store, randomAddress, randomCount, addr, cnt, opcnt,
                   testKind, seed, req, reqQ, faulted>>

Reject ==
    /\ pc = "wait"
    /\ rspQ # <<>>
    /\ ~Accepted(Head(rspQ))
    /\ buf' = Received(Head(rspQ))
    /\ rspQ' = Tail(rspQ)
    /\ err' = "IO_DEVICE"
    /\ pc' = "done"
    /\ UNCHANGED <<geo, store, randomAddress, randomCount, i, j, addr, cnt, opcnt,
                   testKind, seed, req, reqQ, faulted>>
-----------------------------------------------------------------------------
(***************************************************************************)
(* The server: it takes the next request message and answers it.  A      *)
(* correct unit rejects a range past the end of its blocks with CHECK     *)
(* CONDITION (InUnit); the                                                *)
(* deviations are those ServerFaults allows.                              *)
(***************************************************************************)
RangeOf(r) == IF r.kind = UnmapKind THEN r.desc ELSE [addr |-> r.addr, cnt |-> r.cnt]

InUnit(r) == RangeOf(r).addr .. RangeOf(r).addr + RangeOf(r).cnt - 1 \subseteq DOMAIN store

Covers(r, b) == RangeOf(r).addr <= b /\ b < RangeOf(r).addr + RangeOf(r).cnt

Applied(r) ==
    IF ~InUnit(r) THEN store
    ELSE CASE r.kind = WriteKind ->
                [b \in DOMAIN store |-> IF Covers(r, b) THEN r.data[b - r.addr + 1] ELSE store[b]]
           [] r.kind = UnmapKind ->
                [b \in DOMAIN store |-> IF Covers(r, b) THEN 0 ELSE store[b]]
           [] OTHER -> store

StoreOutcomes(r) ==
    {Applied(r)}
    \cup (IF "LoseWrite" \in ServerFaults /\ r.kind = WriteKind THEN {store} ELSE {})
    \cup (IF "LoseUnmap" \in ServerFaults /\ r.kind = UnmapKind THEN {store} ELSE {})
    \cup (IF "CorruptWrite" \in ServerFaults /\ r.kind = WriteKind /\ InUnit(r)
          THEN {[Applied(r) EXCEPT ![b] = Garbage] : b \in {x \in DOMAIN store : Covers(r, x)}}
          ELSE {})

HonestStatus(r) == IF InUnit(r) THEN Good ELSE CheckCondition

StatusOutcomes(r) ==
    {HonestStatus(r)} \cup (IF "BadStatus" \in ServerFaults THEN {CheckCondition} ELSE {})

PayloadLengths(r) ==
    IF r.kind = ReadKind /\ "ShortRead" \in ServerFaults THEN 0..r.cnt ELSE {r.cnt}

Copies == IF "DupResponse" \in ServerFaults THEN {1, 2} ELSE {1}

Serve ==
    /\ reqQ # <<>>
    /\ LET r == Head(reqQ) IN
       \E st \in StoreOutcomes(r), s \in StatusOutcomes(r), n \in PayloadLengths(r),
          copies \in Copies :
         LET rsp == [hint |-> r.hint, kind |-> r.kind, status |-> s,
                     data |-> IF r.kind = ReadKind /\ s = Good
                              THEN [k \in 1..n |-> store[r.addr + k - 1]] ELSE <<>>]
         IN  /\ Len(rspQ) + copies <= RspQueueBound
             /\ reqQ' = Tail(reqQ)
             /\ store' = st
             /\ rspQ' = rspQ \o [k \in 1..copies |-> rsp]
             /\ faulted' = (faulted \/ st # Applied(r) \/ s # HonestStatus(r)
                            \/ (r.kind = ReadKind /\ n # r.cnt) \/ copies # 1)
    /\ UNCHANGED <<clientVars, geo>>
-----------------------------------------------------------------------------
Client == Open \/ Issue \/ Accept \/ Reject

Next == Client \/ Serve

Spec == Init /\ [][Next]_vars

(***************************************************************************)
(* run() is one thread that only ever waits for the server, so it keeps   *)
(* moving while it can; the server is assumed to answer every request it  *)
(* reads (the code has no timeout on a transact).                         *)
(***************************************************************************)
FairSpec == Spec /\ WF_vars(Client) /\ WF_vars(Serve)
-----------------------------------------------------------------------------
Errors == {"SUCCESS", "IO_DEVICE", "CONNECT", "NO_RESOURCES"}

Descriptor == [addr : Nat, cnt : Nat]

RequestType == [hint : Nat, kind : OpKindSet \cup {ReservedKind}, addr : Nat, cnt : Nat,
                data : Seq(Int), desc : Descriptor]

ResponseType == [hint : Nat, kind : OpKindSet, status : {Good, CheckCondition},
                 data : Seq(Int)]

TypeOK ==
    /\ pc \in {"open", "issue", "wait", "done"}
    /\ err \in Errors
    /\ geo \in Geometries
    /\ store \in [0..D - 1 -> Int]
    /\ randomAddress \in BOOLEAN
    /\ randomCount \in BOOLEAN
    /\ i \in 0..OpCount
    /\ j \in 0..Len(OpKinds) - 1
    /\ addr \in Nat \cup {Star}
    /\ cnt \in Nat \cup {Star}
    /\ opcnt \in Nat
    /\ testKind \in OpKindSet \cup {ReservedKind}
    /\ seed \in Seed
    /\ DOMAIN buf \subseteq Nat /\ buf \in [DOMAIN buf -> Int]
    /\ req \in RequestType
    /\ reqQ \in Seq(RequestType)
    /\ rspQ \in Seq(ResponseType)
    /\ faulted \in BOOLEAN

(***************************************************************************)
(* Every request run() sends addresses blocks of the unit only, at least  *)
(* one and no more than DataBuffer holds: the batch update, the wrap of   *)
(* the address modulo BlockCount, the clamp of the count to MaxBlockCount *)
(* and the cut at the end of the unit together keep the range inside,     *)
(* whether address and count are drawn or carried over from the last     *)
(* batch.                                                                 *)
(***************************************************************************)
RequestWithinUnit ==
    pc = "wait" =>
        LET x == RangeOf(req)
        IN  1 <= x.cnt /\ x.cnt <= MaxBlockCount /\ x.addr + x.cnt <= D

(***************************************************************************)
(* run() reports ERROR_IO_DEVICE only when the server really deviated from *)
(* a correct unit: against a correct server the content oracle (the stamp *)
(* of a Write, the zeros of an Unmap, what TestOpKind remembers within a   *)
(* batch and forgets between batches) never flags a correct Read.         *)
(***************************************************************************)
NoFalseAlarm == err = "IO_DEVICE" => faulted

(***************************************************************************)
(* When run() accepts a Read that follows a Write or an Unmap of the same *)
(* batch, the unit really holds what that Write or Unmap put there: the   *)
(* oracle lets no lost or corrupted write or lost unmap through, whatever *)
(* stale response or stale buffer content the server's faults leave.      *)
(***************************************************************************)
AcceptsVerifiedRead ==
    pc = "wait" /\ req.kind = ReadKind /\ testKind \in {WriteKind, UnmapKind} /\ i' = i + 1

VerifiedReadsReflectStore ==
    [][AcceptsVerifiedRead =>
         \A k \in 0..opcnt - 1 : store[addr + k] = Expected(testKind, addr + k)]_vars

(***************************************************************************)
(* A run ends: every transact is answered, so run() either finishes its   *)
(* OpCount operations or stops at the first error.                        *)
(***************************************************************************)
Termination == <>(pc = "done")
-----------------------------------------------------------------------------
(***************************************************************************)
(* The workload run() drives, seen as StgWorkload: the phase of the run,   *)
(* the unit's size and transfer limit from the announced geometry, the    *)
(* operations accepted so far, and the range of the request in flight.    *)
(***************************************************************************)
Phase ==
    IF pc = "done" THEN IF err = "SUCCESS" THEN "passed" ELSE "failed"
    ELSE pc

InFlight ==
    IF pc = "wait"
    THEN [kind |-> req.kind, addr |-> RangeOf(req).addr, cnt |-> RangeOf(req).cnt]
    ELSE [kind |-> "none", addr |-> 0, cnt |-> 0]

Workload == INSTANCE StgWorkload WITH
    Units   <- {[blocks |-> g.BlockCount, maxBlocks |-> g.MaxTransferLength \div g.BlockLength] :
                g \in Geometries},
    Kinds   <- OpKinds,
    phase   <- Phase,
    unit    <- [blocks |-> D, maxBlocks |-> MaxBlockCount],
    n       <- i,
    op      <- InFlight

(***************************************************************************)
(* run() implements the workload: it sends the kinds of the cycle in       *)
(* order, one operation at a time, each on 1..MaxBlockCount blocks inside *)
(* the unit, moves on only after the answer was accepted, and reports     *)
(* success only after OpCount accepted operations.                        *)
(***************************************************************************)
ImplementsWorkload == Workload!Spec
=============================================================================
