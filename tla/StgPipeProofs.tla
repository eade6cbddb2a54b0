--------------------------- MODULE StgPipeProofs ---------------------------
(***************************************************************************)
(* Proofs about run() of stgpipe.c against any server the ServerFaults of  *)
(* StgPipe allow, for every value of the constants: the type invariant and *)
(* that every request stays inside the unit (RequestWithinUnit).          *)
(*                                                                         *)
(* Neither is inductive as it stands.  The batch update of run() reads the *)
(* address and count of the previous batch (BlockAddress + BlockCount when *)
(* the address is not random), the Write message copies OpBlockCount     *)
(* blocks out of DataBuffer, and the server copies the blocks of a Read   *)
(* out of its store; each of these is well defined only because of facts *)
(* about earlier steps.  IInv states them.                                *)
(***************************************************************************)
EXTENDS StgPipe, StgRandomProofs, TLAPS

\* The batch of run(): address, count and OpBlockCount inside the unit.
BatchOK(a, c, oc) ==
    /\ a \in 0..D - 1
    /\ c \in 1..MaxBlockCount
    /\ oc \in 1..MaxBlockCount
    /\ a + oc <= D

\* Every request message in the pipe is of a real kind, and a Write holds
\* one block of data per block it addresses.
PostedWellFormed(q) ==
    \A n \in 1..Len(q) :
        /\ q[n].kind \in OpKindSet
        /\ q[n].kind = WriteKind => Len(q[n].data) = q[n].cnt

IInv ==
    /\ TypeOK
    /\ PostedWellFormed(reqQ)
    /\ pc = "open" => i = 0
    /\ i = 0 => j = 0
    /\ pc \in {"issue", "wait"} =>
           /\ ValidGeometry(geo)
           /\ DOMAIN buf = 0..MaxBlockCount - 1
           /\ i < OpCount
           /\ addr = Star => randomAddress
           /\ cnt = Star => randomCount
    /\ pc = "wait" \/ (pc = "issue" /\ i # 0) => BatchOK(addr, cnt, opcnt)
    /\ pc = "wait" => RangeOf(req) = [addr |-> addr, cnt |-> opcnt]
-----------------------------------------------------------------------------
(***************************************************************************)
(* A geometry StgOpenPipe accepts has at least one block, and a transfer  *)
(* of MaxTransferLength holds at least one block: MaxTransferLength is a  *)
(* non-zero multiple of BlockLength.  The modulo BlockCount and modulo    *)
(* MaxBlockCount of the batch update are therefore defined.               *)
(***************************************************************************)
LEMMA ValidGeometryBounds ==
    ASSUME NEW g \in Geometry, ValidGeometry(g)
    PROVE  /\ g.BlockCount \in Nat \ {0}
           /\ g.MaxTransferLength \div g.BlockLength \in Nat \ {0}
<1>1. g.BlockLength \in Nat \ {0} /\ g.MaxTransferLength \in Nat \ {0}
  BY DEF Geometry, ValidGeometry, UnmapDescriptorSize
<1>2. g.MaxTransferLength = g.BlockLength * (g.MaxTransferLength \div g.BlockLength)
  BY <1>1 DEF ValidGeometry
<1>. QED  BY <1>1, <1>2 DEF Geometry, ValidGeometry

(***************************************************************************)
(* The batch update at J = 0 yields a batch inside the unit and a seed,   *)
(* whether address and count are drawn or carried over: the carried      *)
(* values are numbers because "*" sets the Random flags, and after the   *)
(* first batch they are those of the previous, valid, batch.             *)
(***************************************************************************)
LEMMA NextBatchOK ==
    ASSUME TypeOK, ValidGeometry(geo),
           addr = Star => randomAddress, cnt = Star => randomCount,
           i # 0 => BatchOK(addr, cnt, opcnt)
    PROVE  /\ BatchOK(NextBatch.addr, NextBatch.cnt, NextBatch.opcnt)
           /\ NextBatch.seed \in Seed
<1> USE DEF D
<1>1. D \in Nat \ {0} /\ MaxBlockCount \in Nat \ {0}
  BY ValidGeometryBounds, GeometriesAssumption DEF TypeOK, MaxBlockCount
<1> DEFINE ra == RandomAddress(seed, D)
           a  == IF randomAddress THEN ra.value
                 ELSE IF i # 0 THEN (addr + cnt) % D ELSE addr % D
           s  == IF randomAddress THEN ra.seed ELSE seed
           rc == RandomCount(s, MaxBlockCount)
           c0 == IF randomCount THEN rc.value
                 ELSE IF cnt > MaxBlockCount THEN MaxBlockCount ELSE cnt
           c  == IF c0 = 0 THEN 1 ELSE c0
<1>2. NextBatch = [addr |-> a, cnt |-> c, opcnt |-> OpBlockCountOf(a, c),
                   seed |-> IF randomCount THEN rc.seed ELSE s]
  BY DEF NextBatch
<1>3. ra.value \in 0..D - 1 /\ ra.seed \in Seed
  BY <1>1, RandomAddressRange DEF TypeOK
<1>4. a \in 0..D - 1
  <2>1. CASE randomAddress  BY <1>3, <2>1
  <2>2. CASE ~randomAddress /\ i # 0
    BY <1>1, <2>2 DEF BatchOK
  <2>3. CASE ~randomAddress /\ i = 0
    BY <1>1, <2>3, ArgsAssumption DEF TypeOK
  <2>. QED  BY <2>1, <2>2, <2>3
<1>5. s \in Seed
  BY <1>3 DEF TypeOK
<1>6. rc.value \in 0..MaxBlockCount - 1 /\ rc.seed \in Seed
  BY <1>1, <1>5, RandomCountRange
<1>7. c0 \in 0..MaxBlockCount
  <2>1. CASE randomCount  BY <1>1, <1>6, <2>1
  <2>2. CASE ~randomCount
    <3>1. cnt \in Nat  BY <2>2, ArgsAssumption DEF TypeOK
    <3>. QED  BY <1>1, <2>2, <3>1
  <2>. QED  BY <2>1, <2>2
<1>8. c \in 1..MaxBlockCount
  BY <1>1, <1>7
<1>9. OpBlockCountOf(a, c) \in 1..MaxBlockCount /\ a + OpBlockCountOf(a, c) <= D
  BY <1>1, <1>4, <1>8 DEF OpBlockCountOf
<1>. QED  BY <1>2, <1>4, <1>5, <1>6, <1>8, <1>9 DEF BatchOK
-----------------------------------------------------------------------------
\* OpCount is at least one: if (0 == OpCount) OpCount = 1.
LEMMA OpCountPositive == OpCount \in Nat \ {0}
BY OpCountAssumption DEF OpCount

\* The OpKinds cycle is not empty: ParseOpSet falls back to Write, Read.
LEMMA CycleLength == Len(OpKinds) \in Nat \ {0}
BY OpKindsAssumption

\* The initial state of run() satisfies IInv.
LEMMA InitIInv == Init => IInv
<1> SUFFICES ASSUME Init PROVE IInv
  OBVIOUS
<1>1. seed \in Seed
  BY SeedAssumption, SeedOfType DEF Init, RunInit
<1>2. NoRequest \in RequestType
  BY DEF NoRequest, RequestType, NoDescriptor, Descriptor, ReservedKind, OpKindSet
<1>3. store \in [0..D - 1 -> Int]
  BY ContentsAssumption DEF Init, RunInit, D
<1>4. i \in 0..OpCount
  <2>1. i = 0  BY DEF Init, RunInit
  <2>. QED  BY <2>1, OpCountPositive
<1>8. j \in 0..Len(OpKinds) - 1
  <2>1. j = 0  BY DEF Init, RunInit
  <2>. QED  BY <2>1, CycleLength
<1>5. addr \in Nat \cup {Star} /\ cnt \in Nat \cup {Star}
  BY ArgsAssumption DEF Init, RunInit
<1>6. DOMAIN buf \subseteq Nat /\ buf \in [DOMAIN buf -> Int]
  BY DEF Init, RunInit
<1>9. req \in RequestType /\ reqQ \in Seq(RequestType) /\ rspQ \in Seq(ResponseType)
  BY <1>2 DEF Init, RunInit
<1>10. /\ pc \in {"open", "issue", "wait", "done"} /\ err \in Errors /\ geo \in Geometries
       /\ randomAddress \in BOOLEAN /\ randomCount \in BOOLEAN /\ opcnt \in Nat
       /\ testKind \in OpKindSet \cup {ReservedKind} /\ faulted \in BOOLEAN
  BY DEF Init, RunInit, Errors
<1>7. TypeOK
  BY <1>1, <1>3, <1>4, <1>5, <1>6, <1>8, <1>9, <1>10 DEF TypeOK
<1>. QED  BY <1>7 DEF Init, RunInit, IInv, PostedWellFormed

\* Open, in each of its four outcomes, keeps IInv.
LEMMA OpenIInv == IInv /\ Open => IInv'
<1> SUFFICES ASSUME IInv, Open PROVE IInv'
  OBVIOUS
<1>1. pc = "open" /\ i = 0 /\ TypeOK
  BY DEF Open, IInv
<1>2. UNCHANGED <<geo, store, i, j, addr, cnt, opcnt, testKind, seed, req, reqQ, rspQ>>
  BY DEF Open
<1>3. CASE pc' = "done"
  <2>1. err' \in Errors
    BY <1>3 DEF Open, Errors
  <2>2. faulted' \in BOOLEAN
    <3>1. faulted' = TRUE \/ faulted' = faulted
      BY DEF Open
    <3>. QED  BY <1>1, <3>1, Zenon DEF TypeOK
  <2>3. buf' = buf /\ randomAddress' = randomAddress /\ randomCount' = randomCount
    BY <1>3 DEF Open
  <2>. QED  BY <1>1, <1>2, <1>3, <2>1, <2>2, <2>3 DEF IInv, TypeOK, D, PostedWellFormed
<1>4. CASE pc' # "done"
  <2>1. /\ pc' = "issue" /\ ValidGeometry(geo)
        /\ buf' \in [0..MaxBlockCount - 1 -> InitialContents]
        /\ randomAddress' = (addr = Star) /\ randomCount' = (cnt = Star)
        /\ err' = err /\ faulted' = faulted
    BY <1>4 DEF Open, SetUp, MaxBlockCount
  <2>2. DOMAIN buf' = 0..MaxBlockCount - 1 /\ buf' \in [DOMAIN buf' -> Int]
    BY <2>1, ContentsAssumption
  <2>3. MaxBlockCount \in Nat
    BY <2>1, <1>1, ValidGeometryBounds, GeometriesAssumption DEF TypeOK, MaxBlockCount
  <2>4. TypeOK'
    BY <1>1, <1>2, <2>1, <2>2, <2>3 DEF TypeOK, D
  <2>5. DOMAIN buf' = 0..MaxBlockCount' - 1
    BY <1>2, <2>2 DEF MaxBlockCount
  <2>6. ValidGeometry(geo)' /\ i' < OpCount
    BY <1>1, <1>2, <2>1, OpCountPositive
  <2>. QED  BY <1>1, <1>2, <2>1, <2>4, <2>5, <2>6 DEF IInv, PostedWellFormed
<1>. QED  BY <1>3, <1>4

(***************************************************************************)
(* The buffer after the stamp of a Write, or after the first word of an   *)
(* Unmap buffer is overwritten with the descriptor, is still a buffer of   *)
(* the same blocks.                                                       *)
(***************************************************************************)
LEMMA BufferUpdateType ==
    ASSUME NEW bf, DOMAIN bf \subseteq Nat, bf \in [DOMAIN bf -> Int],
           NEW k \in OpKindSet, NEW a \in Nat, NEW c
    PROVE  /\ DOMAIN IssueBuffer(bf, k, a, c) = DOMAIN bf
           /\ IssueBuffer(bf, k, a, c) \in [DOMAIN bf -> Int]
<1>1. CASE k = WriteKind
  <2>1. IssueBuffer(bf, k, a, c) = Stamped(bf, a, c)
    BY <1>1 DEF IssueBuffer, WriteKind, UnmapKind
  <2>. QED  BY <2>1 DEF Stamped, Stamp
<1>2. CASE k = UnmapKind
  <2>1. IssueBuffer(bf, k, a, c) = [bf EXCEPT ![0] = Garbage]
    BY <1>2 DEF IssueBuffer, WriteKind, UnmapKind
  <2>2. DOMAIN [bf EXCEPT ![0] = Garbage] = DOMAIN bf
    OBVIOUS
  <2>3. \A x \in DOMAIN bf : [bf EXCEPT ![0] = Garbage][x] \in Int
    BY DEF Garbage
  <2>. QED  BY <2>1, <2>2, <2>3, Zenon
<1>3. CASE k \notin {WriteKind, UnmapKind}
  BY <1>3 DEF IssueBuffer
<1>. QED  BY <1>1, <1>2, <1>3

(***************************************************************************)
(* The request run() builds for operation h of kind k on a batch b: a     *)
(* request of a real kind, a Write with one block of data per block, and  *)
(* the range of the batch (in the descriptor for an Unmap).               *)
(***************************************************************************)
LEMMA RequestWellFormed ==
    ASSUME NEW h \in Nat, NEW k \in OpKindSet, NEW b, b.addr \in Nat, b.opcnt \in Nat,
           NEW nb, \A n \in 1..b.opcnt : nb[n - 1] \in Int
    PROVE  /\ Request(h, k, b, nb) \in RequestType
           /\ Request(h, k, b, nb).kind = k
           /\ k = WriteKind => Len(Request(h, k, b, nb).data) = Request(h, k, b, nb).cnt
           /\ RangeOf(Request(h, k, b, nb)) = [addr |-> b.addr, cnt |-> b.opcnt]
<1>1. [n \in 1..b.opcnt |-> nb[n - 1]] \in Seq(Int)
  OBVIOUS
<1>2. Request(h, k, b, nb) \in RequestType
  BY <1>1 DEF Request, RequestType, Descriptor, NoDescriptor, OpKindSet
<1>3. k = WriteKind => Len(Request(h, k, b, nb).data) = Request(h, k, b, nb).cnt
  BY DEF Request, WriteKind, UnmapKind
<1>. QED  BY <1>2, <1>3 DEF Request, RangeOf

(***************************************************************************)
(* Issue keeps IInv: the batch it uses is inside the unit (NextBatchOK at *)
(* J = 0, the batch of the previous iteration otherwise), so the Write    *)
(* message copies OpBlockCount blocks that DataBuffer holds and the      *)
(* request addresses blocks of the unit.                                  *)
(***************************************************************************)
LEMMA IssueIInv == IInv /\ Issue => IInv'
<1> SUFFICES ASSUME IInv, Issue PROVE IInv'
  OBVIOUS
<1>1. /\ pc = "issue" /\ TypeOK /\ ValidGeometry(geo)
      /\ DOMAIN buf = 0..MaxBlockCount - 1 /\ i < OpCount
      /\ addr = Star => randomAddress
      /\ cnt = Star => randomCount
      /\ i # 0 => BatchOK(addr, cnt, opcnt)
      /\ i = 0 => j = 0
      /\ PostedWellFormed(reqQ)
  BY DEF Issue, IInv
<1>2. D \in Nat \ {0} /\ MaxBlockCount \in Nat \ {0}
  BY <1>1, ValidGeometryBounds, GeometriesAssumption DEF TypeOK, MaxBlockCount, D
<1> DEFINE b  == IF j = 0 THEN NextBatch
                 ELSE [addr |-> addr, cnt |-> cnt, opcnt |-> opcnt, seed |-> seed]
           k  == OpKinds[(i % Len(OpKinds)) + 1]
           tk == BatchTestKind(j, testKind)
           nb == IssueBuffer(buf, k, b.addr, b.opcnt)
           r  == Request(i, k, b, nb)
<1> HIDE DEF b, k, tk, nb, r
<1>3. BatchOK(b.addr, b.cnt, b.opcnt) /\ b.seed \in Seed
  <2>1. CASE j = 0
    BY <1>1, <2>1, NextBatchOK DEF b
  <2>2. CASE j # 0
    BY <1>1, <2>2 DEF TypeOK, b
  <2>. QED  BY <2>1, <2>2
<1>4. k \in OpKindSet
  <2>1. (i % Len(OpKinds)) + 1 \in 1..Len(OpKinds)
    BY <1>1, CycleLength DEF TypeOK
  <2>. QED  BY <2>1, OpKindsAssumption DEF k
<1>5. DOMAIN nb = DOMAIN buf /\ nb \in [DOMAIN buf -> Int]
  <2>1. b.addr \in Nat  BY <1>3 DEF BatchOK
  <2>. QED  BY <1>1, <1>4, <2>1, BufferUpdateType DEF TypeOK, nb
<1>6. /\ r \in RequestType
      /\ r.kind = k
      /\ k = WriteKind => Len(r.data) = r.cnt
      /\ RangeOf(r) = [addr |-> b.addr, cnt |-> b.opcnt]
  <2>1. \A n \in 1..b.opcnt : nb[n - 1] \in Int
    <3>1. \A n \in 1..b.opcnt : n - 1 \in DOMAIN buf
      BY <1>1, <1>2, <1>3 DEF BatchOK
    <3>. QED  BY <3>1, <1>5
  <2>2. i \in Nat /\ b.addr \in Nat /\ b.opcnt \in Nat
    BY <1>1, <1>3 DEF TypeOK, BatchOK
  <2>. QED  BY <1>4, <2>1, <2>2, RequestWellFormed DEF r
<1>7. /\ addr' = b.addr /\ cnt' = b.cnt /\ opcnt' = b.opcnt /\ seed' = b.seed
      /\ testKind' = IF k \in {WriteKind, UnmapKind} THEN k ELSE tk
      /\ buf' = nb /\ req' = r
      /\ UNCHANGED <<geo, store, randomAddress, randomCount, i, j, rspQ, faulted>>
      /\ \/ reqQ' = Post(reqQ, r) /\ pc' = "wait" /\ err' = err
         \/ err' = "NO_RESOURCES" /\ pc' = "done" /\ reqQ' = reqQ
  BY DEF Issue, b, k, tk, nb, r
<1>8. testKind' \in OpKindSet \cup {ReservedKind}
  BY <1>1, <1>4, <1>7 DEF TypeOK, BatchTestKind, tk
<1>9. reqQ' \in Seq(RequestType) /\ PostedWellFormed(reqQ')
  <2>1. CASE reqQ' = Post(reqQ, r)
    BY <1>1, <1>4, <1>6, <2>1 DEF Post, PostedWellFormed, TypeOK
  <2>2. CASE reqQ' = reqQ
    BY <1>1, <2>2 DEF TypeOK
  <2>. QED  BY <1>7, <2>1, <2>2
<1>10. TypeOK'
  <2>1. pc' \in {"open", "issue", "wait", "done"} /\ err' \in Errors
    BY <1>1, <1>7 DEF TypeOK, Errors
  <2>2. /\ geo' \in Geometries /\ store' \in [0..D' - 1 -> Int]
        /\ randomAddress' \in BOOLEAN /\ randomCount' \in BOOLEAN
        /\ i' \in 0..OpCount /\ j' \in 0..Len(OpKinds) - 1
        /\ rspQ' \in Seq(ResponseType) /\ faulted' \in BOOLEAN
    BY <1>1, <1>7 DEF TypeOK, D
  <2>3. addr' \in Nat \cup {Star} /\ cnt' \in Nat \cup {Star} /\ opcnt' \in Nat
        /\ seed' \in Seed
    BY <1>3, <1>7 DEF BatchOK
  <2>4. DOMAIN buf' \subseteq Nat /\ buf' \in [DOMAIN buf' -> Int]
    BY <1>1, <1>5, <1>7 DEF TypeOK
  <2>5. req' \in RequestType
    BY <1>6, <1>7
  <2>. QED  BY <1>8, <1>9, <2>1, <2>2, <2>3, <2>4, <2>5 DEF TypeOK
<1>11. BatchOK(addr, cnt, opcnt)' /\ RangeOf(req)' = [addr |-> addr', cnt |-> opcnt']
  BY <1>3, <1>6, <1>7 DEF BatchOK, D, MaxBlockCount
<1>12. addr' # Star /\ cnt' # Star
  BY <1>3, <1>7, ArgsAssumption DEF BatchOK
<1>13. /\ ValidGeometry(geo)' /\ DOMAIN buf' = 0..MaxBlockCount' - 1 /\ i' < OpCount
       /\ (pc' = "open" => i' = 0) /\ (i' = 0 => j' = 0)
  BY <1>1, <1>5, <1>7 DEF MaxBlockCount
<1>. QED  BY <1>9, <1>10, <1>11, <1>12, <1>13 DEF IInv

(***************************************************************************)
(* The ReadFile of a response leaves DataBuffer a buffer of the same      *)
(* blocks: the payload copy is clamped to the request's count and padded *)
(* with zeros.                                                            *)
(***************************************************************************)
LEMMA ReceivedType ==
    ASSUME TypeOK, NEW m \in ResponseType
    PROVE  DOMAIN Received(m) = DOMAIN buf /\ Received(m) \in [DOMAIN buf -> Int]
<1>1. CASE TransactOk(m) /\ CarriesData(m)
  <2>1. Received(m) = Deliver(buf, m.data, req.cnt)
    BY <1>1 DEF Received
  <2>2. m.data \in Seq(Int) /\ req.cnt \in Nat /\ DOMAIN buf \subseteq Nat
        /\ buf \in [DOMAIN buf -> Int]
    BY DEF TypeOK, ResponseType, RequestType
  <2>. QED  BY <2>1, <2>2 DEF Deliver
<1>2. CASE ~(TransactOk(m) /\ CarriesData(m))
  BY <1>2 DEF Received, TypeOK
<1>. QED  BY <1>1, <1>2

\* The head of a non-empty queue of responses is a response, its tail a queue.
LEMMA HeadTailType ==
    ASSUME NEW S, NEW q \in Seq(S), q # <<>>
    PROVE  Head(q) \in S /\ Tail(q) \in Seq(S)
OBVIOUS

(***************************************************************************)
(* Accept keeps IInv: the loop goes on with I + 1 and the next position   *)
(* of the OpKinds cycle, on the batch of the request just answered.       *)
(***************************************************************************)
LEMMA AcceptIInv == IInv /\ Accept => IInv'
<1> SUFFICES ASSUME IInv, Accept PROVE IInv'
  OBVIOUS
<1>1. /\ pc = "wait" /\ rspQ # <<>> /\ TypeOK /\ ValidGeometry(geo)
      /\ DOMAIN buf = 0..MaxBlockCount - 1 /\ i < OpCount
      /\ addr = Star => randomAddress
      /\ cnt = Star => randomCount
      /\ BatchOK(addr, cnt, opcnt)
      /\ PostedWellFormed(reqQ)
  BY DEF Accept, IInv
<1>2. Head(rspQ) \in ResponseType /\ Tail(rspQ) \in Seq(ResponseType)
  BY <1>1, HeadTailType DEF TypeOK
<1>3. DOMAIN buf' = DOMAIN buf /\ buf' \in [DOMAIN buf -> Int]
  BY <1>1, <1>2, ReceivedType DEF Accept
<1>4. /\ rspQ' = Tail(rspQ) /\ i' = i + 1 /\ j' = NextCursor(j)
      /\ pc' = IF i + 1 < OpCount THEN "issue" ELSE "done"
      /\ UNCHANGED <<err, geo, store, randomAddress, randomCount, addr, cnt, opcnt,
                     testKind, seed, req, reqQ, faulted>>
  BY DEF Accept
<1>5. i' \in 0..OpCount /\ i' # 0
  BY <1>1, <1>4, OpCountPositive DEF TypeOK
<1>6. j' \in 0..Len(OpKinds) - 1
  BY <1>1, <1>4, CycleLength DEF TypeOK, NextCursor
<1>7. TypeOK'
  BY <1>1, <1>2, <1>3, <1>4, <1>5, <1>6 DEF TypeOK, D
<1>8. pc' \in {"issue", "wait"} =>
          /\ ValidGeometry(geo)' /\ DOMAIN buf' = 0..MaxBlockCount' - 1 /\ i' < OpCount
          /\ (addr' = Star => randomAddress') /\ (cnt' = Star => randomCount')
  BY <1>1, <1>3, <1>4 DEF MaxBlockCount
<1>9. BatchOK(addr, cnt, opcnt)'
  BY <1>1, <1>4 DEF BatchOK, D, MaxBlockCount
<1>. QED  BY <1>1, <1>4, <1>5, <1>7, <1>8, <1>9 DEF IInv

\* Reject ends run() with ERROR_IO_DEVICE and keeps IInv.
LEMMA RejectIInv == IInv /\ Reject => IInv'
<1> SUFFICES ASSUME IInv, Reject PROVE IInv'
  OBVIOUS
<1>1. pc = "wait" /\ rspQ # <<>> /\ TypeOK /\ PostedWellFormed(reqQ) /\ (i = 0 => j = 0)
  BY DEF Reject, IInv
<1>2. Head(rspQ) \in ResponseType /\ Tail(rspQ) \in Seq(ResponseType)
  BY <1>1, HeadTailType DEF TypeOK
<1>3. DOMAIN buf' = DOMAIN buf /\ buf' \in [DOMAIN buf -> Int]
  BY <1>1, <1>2, ReceivedType DEF Reject
<1>4. /\ rspQ' = Tail(rspQ) /\ err' = "IO_DEVICE" /\ pc' = "done"
      /\ UNCHANGED <<geo, store, randomAddress, randomCount, i, j, addr, cnt, opcnt,
                     testKind, seed, req, reqQ, faulted>>
  BY DEF Reject
<1>5. TypeOK'
  BY <1>1, <1>2, <1>3, <1>4 DEF TypeOK, D, Errors
<1>. QED  BY <1>1, <1>4, <1>5 DEF IInv

(***************************************************************************)
(* What the server may do with the blocks on a request of a real kind,   *)
(* applied, lost or corrupted, leaves a store of the unit's blocks.      *)
(***************************************************************************)
LEMMA StoreOutcomesType ==
    ASSUME NEW N \in Nat, store \in [0..N - 1 -> Int],
           NEW r \in RequestType, r.kind \in OpKindSet,
           r.kind = WriteKind => Len(r.data) = r.cnt
    PROVE  StoreOutcomes(r) \subseteq [0..N - 1 -> Int]
<1>1. Applied(r) \in [0..N - 1 -> Int]
  <2>1. CASE ~InUnit(r)
    BY <2>1 DEF Applied
  <2>2. CASE InUnit(r) /\ r.kind = WriteKind
    <3>1. Applied(r) = [b \in DOMAIN store |->
                         IF Covers(r, b) THEN r.data[b - r.addr + 1] ELSE store[b]]
      BY <2>2 DEF Applied, WriteKind, UnmapKind
    <3>2. RangeOf(r) = [addr |-> r.addr, cnt |-> r.cnt]
      BY <2>2 DEF RangeOf, WriteKind, UnmapKind
    <3>3. \A b \in 0..N - 1 : Covers(r, b) => b - r.addr + 1 \in 1..Len(r.data)
      BY <2>2, <3>2 DEF Covers, RequestType
    <3>4. \A b \in 0..N - 1 : Covers(r, b) => r.data[b - r.addr + 1] \in Int
      BY <3>3 DEF RequestType
    <3>5. DOMAIN store = 0..N - 1 /\ \A b \in 0..N - 1 : store[b] \in Int
      OBVIOUS
    <3>. QED  BY <3>1, <3>4, <3>5
  <2>3. CASE InUnit(r) /\ r.kind = UnmapKind
    BY <2>3 DEF Applied, WriteKind, UnmapKind
  <2>4. CASE InUnit(r) /\ r.kind \notin {WriteKind, UnmapKind}
    BY <2>4 DEF Applied
  <2>. QED  BY <2>1, <2>2, <2>3, <2>4
<1>2. \A b \in 0..N - 1 : [Applied(r) EXCEPT ![b] = Garbage] \in [0..N - 1 -> Int]
  BY <1>1 DEF Garbage
<1>. QED  BY <1>1, <1>2 DEF StoreOutcomes, Covers

(***************************************************************************)
(* Every response the server may send to a request of a real kind is a   *)
(* response: the payload of a Read with GOOD status is read from blocks  *)
(* of the unit, since only a range inside the unit gets GOOD status.     *)
(***************************************************************************)
LEMMA ResponseWellFormed ==
    ASSUME NEW N \in Nat, store \in [0..N - 1 -> Int],
           NEW r \in RequestType, r.kind \in OpKindSet,
           NEW s \in StatusOutcomes(r), NEW n \in PayloadLengths(r)
    PROVE  [hint |-> r.hint, kind |-> r.kind, status |-> s,
            data |-> IF r.kind = ReadKind /\ s = Good
                     THEN [k \in 1..n |-> store[r.addr + k - 1]] ELSE <<>>]
           \in ResponseType
<1>1. s \in {Good, CheckCondition}
  BY DEF StatusOutcomes, HonestStatus
<1>2. CASE r.kind = ReadKind /\ s = Good
  <2>1. InUnit(r)
    BY <1>2 DEF StatusOutcomes, HonestStatus, Good, CheckCondition
  <2>2. RangeOf(r) = [addr |-> r.addr, cnt |-> r.cnt]
    BY <1>2 DEF RangeOf, ReadKind, UnmapKind
  <2>3. n \in 0..r.cnt
    BY <1>2 DEF PayloadLengths, RequestType
  <2>6. DOMAIN store = 0..N - 1
    OBVIOUS
  <2>7. r.addr .. r.addr + r.cnt - 1 \subseteq 0..N - 1
    BY <2>1, <2>2, <2>6 DEF InUnit
  <2>4. \A k \in 1..n : r.addr + k - 1 \in 0..N - 1
    <3>1. \A k \in 1..n : r.addr + k - 1 \in r.addr .. r.addr + r.cnt - 1
      BY <2>3 DEF RequestType
    <3>. QED  BY <3>1, <2>7
  <2>5. [k \in 1..n |-> store[r.addr + k - 1]] \in Seq(Int)
    <3>1. \A k \in 1..n : store[r.addr + k - 1] \in Int
      BY <2>4
    <3>2. n \in Nat
      BY <2>3 DEF RequestType
    <3>. QED  BY <3>1, <3>2
  <2>. QED  BY <1>1, <1>2, <2>5 DEF ResponseType, RequestType
<1>3. CASE ~(r.kind = ReadKind /\ s = Good)
  BY <1>1, <1>3 DEF ResponseType, RequestType
<1>. QED  BY <1>2, <1>3

\* A response sent some number of times is a sequence of responses.
LEMMA CopiesType ==
    ASSUME NEW S, NEW x \in S, NEW c \in Nat
    PROVE  [k \in 1..c |-> x] \in Seq(S)
OBVIOUS

(***************************************************************************)
(* Serve keeps the server's state typed on a unit of any size N: it      *)
(* consumes the oldest request, updates the blocks and appends responses; *)
(* the client's state is untouched.                                       *)
(***************************************************************************)
LEMMA ServeType ==
    ASSUME NEW N \in Nat, store \in [0..N - 1 -> Int],
           reqQ \in Seq(RequestType), PostedWellFormed(reqQ),
           rspQ \in Seq(ResponseType), faulted \in BOOLEAN, Serve
    PROVE  /\ store' \in [0..N - 1 -> Int]
           /\ reqQ' \in Seq(RequestType) /\ PostedWellFormed(reqQ')
           /\ rspQ' \in Seq(ResponseType) /\ faulted' \in BOOLEAN
           /\ UNCHANGED <<clientVars, geo>>
<1>1. reqQ # <<>>
  BY DEF Serve
<1> DEFINE r == Head(reqQ)
<1>2. /\ r \in RequestType /\ Tail(reqQ) \in Seq(RequestType)
      /\ r.kind \in OpKindSet /\ (r.kind = WriteKind => Len(r.data) = r.cnt)
  <2>1. r \in RequestType /\ Tail(reqQ) \in Seq(RequestType)
    BY <1>1, HeadTailType
  <2>2. r = reqQ[1] /\ 1 \in 1..Len(reqQ)
    BY <1>1
  <2>. QED  BY <1>1, <2>1, <2>2 DEF PostedWellFormed
<1>3. PostedWellFormed(Tail(reqQ))
  <2>1. \A n \in 1..Len(Tail(reqQ)) : Tail(reqQ)[n] = reqQ[n + 1] /\ n + 1 \in 1..Len(reqQ)
    BY <1>1
  <2>. QED  BY <1>1, <2>1 DEF PostedWellFormed
<1> HIDE DEF r
<1>4. PICK st \in StoreOutcomes(r), s \in StatusOutcomes(r), n \in PayloadLengths(r),
           copies \in Copies :
         LET rsp == [hint |-> r.hint, kind |-> r.kind, status |-> s,
                     data |-> IF r.kind = ReadKind /\ s = Good
                              THEN [k \in 1..n |-> store[r.addr + k - 1]] ELSE <<>>]
         IN  /\ Len(rspQ) + copies <= RspQueueBound
             /\ reqQ' = Tail(reqQ)
             /\ store' = st
             /\ rspQ' = rspQ \o [k \in 1..copies |-> rsp]
             /\ faulted' = (faulted \/ st # Applied(r) \/ s # HonestStatus(r)
                            \/ (r.kind = ReadKind /\ n # r.cnt) \/ copies # 1)
  BY DEF Serve, r
<1> DEFINE rsp == [hint |-> r.hint, kind |-> r.kind, status |-> s,
                   data |-> IF r.kind = ReadKind /\ s = Good
                            THEN [k \in 1..n |-> store[r.addr + k - 1]] ELSE <<>>]
<1>5. rsp \in ResponseType
  BY <1>2, ResponseWellFormed
<1>6. rspQ' \in Seq(ResponseType)
  <2>1. copies \in Nat /\ [k \in 1..copies |-> rsp] \in Seq(ResponseType)
    <3>1. copies \in Nat  BY DEF Copies
    <3> HIDE DEF rsp
    <3>. QED  BY <1>5, <3>1, CopiesType
  <2>2. rspQ' = rspQ \o [k \in 1..copies |-> rsp]
    BY <1>4
  <2> HIDE DEF rsp
  <2>. QED  BY <2>1, <2>2
<1>7. store' \in [0..N - 1 -> Int]
  BY <1>2, <1>4, StoreOutcomesType
<1>8. UNCHANGED <<clientVars, geo>>
  BY DEF Serve
<1>. QED  BY <1>2, <1>3, <1>4, <1>6, <1>7, <1>8

\* A step of the server keeps IInv.
LEMMA ServeIInv == IInv /\ Serve => IInv'
<1> SUFFICES ASSUME IInv, Serve PROVE IInv'
  OBVIOUS
<1>1. /\ TypeOK /\ PostedWellFormed(reqQ)
      /\ D \in Nat /\ store \in [0..D - 1 -> Int]
  BY GeometriesAssumption DEF IInv, TypeOK, D, Geometry
<1>2. /\ store' \in [0..D - 1 -> Int]
      /\ reqQ' \in Seq(RequestType) /\ PostedWellFormed(reqQ')
      /\ rspQ' \in Seq(ResponseType) /\ faulted' \in BOOLEAN
      /\ UNCHANGED <<clientVars, geo>>
  BY <1>1, ServeType DEF TypeOK
<1>3. TypeOK'
  BY <1>1, <1>2 DEF TypeOK, clientVars, D
<1>. QED  BY <1>1, <1>2, <1>3
          DEF IInv, clientVars, BatchOK, D, MaxBlockCount, RangeOf, ValidGeometry

\* A stuttering step keeps IInv.
LEMMA StutterIInv == IInv /\ UNCHANGED vars => IInv'
BY DEF IInv, vars, clientVars, TypeOK, PostedWellFormed, BatchOK, RangeOf, D,
       MaxBlockCount, ValidGeometry
-----------------------------------------------------------------------------
\* Every step of run() and of the server keeps IInv.
LEMMA NextIInv == IInv /\ [Next]_vars => IInv'
BY OpenIInv, IssueIInv, AcceptIInv, RejectIInv, ServeIInv, StutterIInv DEF Next, Client

\* IInv holds in every state of every behaviour.
THEOREM IInvInvariant == Spec => []IInv
BY InitIInv, NextIInv, PTL DEF Spec

(***************************************************************************)
(* Type correctness of run() against any server ServerFaults allows: the  *)
(* counters, cursor, batch, seed, buffer, request and both pipe queues    *)
(* keep their types, for every geometry, OpKinds cycle, OpCount and seed. *)
(***************************************************************************)
THEOREM TypeCorrect == Spec => []TypeOK
<1>1. IInv => TypeOK
  BY DEF IInv
<1>. QED  BY <1>1, IInvInvariant, PTL

(***************************************************************************)
(* Every request run() sends addresses between 1 and MaxBlockCount blocks *)
(* of the unit (RequestWithinUnit), for every geometry StgOpenPipe        *)
(* accepts, every address and count argument, "*" or not, and every seed: *)
(* the wrap of the address, the clamp of the count, the promotion of a    *)
(* zero count and the cut at the end of the unit compose correctly over   *)
(* batches, including the carried-over address BlockAddress + BlockCount. *)
(***************************************************************************)
THEOREM RequestsStayInUnit == Spec => []RequestWithinUnit
<1>1. IInv => RequestWithinUnit
  BY DEF IInv, RequestWithinUnit, BatchOK
<1>. QED  BY <1>1, IInvInvariant, PTL
=============================================================================
