-------------------------- MODULE StgOracleProofs --------------------------
(***************************************************************************)
(* Proofs about the content oracle of run() in stgpipe.c: the FillOrTest  *)
(* of a Read that follows a Write or an Unmap of its batch, together with  *)
(* the Hint and Kind checks of the loop and of StgTransactPipe.            *)
(*                                                                         *)
(* NoFalseAlarm: run() never reports ERROR_IO_DEVICE while the server has  *)
(* not deviated.  It is not inductive: that a Reject cannot happen needs  *)
(* to know that the one response in the pipe answers the request in      *)
(* flight, that the blocks of the batch hold what the last Write or Unmap *)
(* of the batch put there, and that a Write message carries the stamps.   *)
(* HonestInv states these, for a run whose server has not deviated yet.   *)
(***************************************************************************)
EXTENDS StgPipeProofs

\* The response a correct unit sends to r, from the blocks as they are.
HonestResponse(q) ==
    [hint |-> q.hint, kind |-> q.kind, status |-> Good,
     data |-> IF q.kind = ReadKind THEN [k \in 1..q.cnt |-> store[q.addr + k - 1]]
              ELSE <<>>]

\* The blocks of the batch hold what FillOrTest expects for TestOpKind.
OracleHolds == \A k \in 0..opcnt - 1 : store[addr + k] = Expected(testKind, addr + k)

\* A Write or an Unmap of the batch is in the pipe, not yet applied.
PendingUpdate == pc = "wait" /\ reqQ = <<req>> /\ req.kind = testKind

\* The pipe of a run whose server has not deviated: one message at a time,
\* the request in flight or the correct response to it.
HonestPipe ==
    /\ pc # "wait" => reqQ = <<>> /\ rspQ = <<>>
    /\ pc = "wait" => \/ reqQ = <<req>> /\ rspQ = <<>>
                      \/ reqQ = <<>> /\ rspQ = <<HonestResponse(req)>>

\* A Write or an Unmap in flight is what TestOpKind remembers; a Write
\* carries the stamps of its blocks.
HonestRequest ==
    pc = "wait" =>
        /\ req.kind \in {WriteKind, UnmapKind} => testKind = req.kind
        /\ req.kind = WriteKind => req.data = [n \in 1..opcnt |-> Stamp(addr + n - 1)]

\* While the loop runs, the blocks of the batch hold what TestOpKind expects,
\* unless the Write or Unmap that set it is still in the pipe.
HonestBlocks ==
    pc \in {"issue", "wait"} /\ testKind \in {WriteKind, UnmapKind} /\ ~PendingUpdate
        => OracleHolds

HonestInv ==
    /\ IInv
    /\ pc = "open" => testKind = ReservedKind
    /\ ~faulted => err # "IO_DEVICE" /\ HonestPipe /\ HonestRequest /\ HonestBlocks
-----------------------------------------------------------------------------
(***************************************************************************)
(* What a correct unit does with the blocks on a request inside the unit:  *)
(* a Write puts its data, an Unmap zeros, the other kinds leave them.      *)
(***************************************************************************)
LEMMA AppliedInUnit ==
    ASSUME NEW r, InUnit(r)
    PROVE  /\ r.kind = WriteKind =>
                Applied(r) = [b \in DOMAIN store |->
                                IF Covers(r, b) THEN r.data[b - r.addr + 1] ELSE store[b]]
           /\ r.kind = UnmapKind =>
                Applied(r) = [b \in DOMAIN store |-> IF Covers(r, b) THEN 0 ELSE store[b]]
           /\ r.kind \notin {WriteKind, UnmapKind} => Applied(r) = store
BY DEF Applied, WriteKind, UnmapKind

\* A pipe that held nothing and received one message holds that message.
LEMMA SingleMessage ==
    ASSUME NEW x
    PROVE  <<>> \o [k \in 1..1 |-> x] = <<x>>
OBVIOUS

(***************************************************************************)
(* The correct response to the request in flight passes every check of    *)
(* run(): the Hint and the Kind are echoed, the status is GOOD, the count *)
(* is within MaxBlockCount, and the blocks a verified Read returns hold   *)
(* what the Write or Unmap of the batch put there.                        *)
(***************************************************************************)
LEMMA HonestAccepted ==
    ASSUME HonestInv, ~faulted, pc = "wait", reqQ = <<>>
    PROVE  Accepted(HonestResponse(req))
<1> DEFINE m == HonestResponse(req)
<1>1. /\ TypeOK /\ ValidGeometry(geo) /\ DOMAIN buf = 0..MaxBlockCount - 1
      /\ BatchOK(addr, cnt, opcnt) /\ RangeOf(req) = [addr |-> addr, cnt |-> opcnt]
  BY DEF HonestInv, IInv
<1>2. MaxBlockCount \in Nat \ {0}
  BY <1>1, ValidGeometryBounds, GeometriesAssumption DEF TypeOK, MaxBlockCount
<1>3. FrameMatches(req, m) /\ Correlated(req, m) /\ m.status = Good
  BY DEF FrameMatches, Correlated, HonestResponse
<1>4. CASE req.kind = ReadKind
  <2>1. req.addr = addr /\ req.cnt = opcnt /\ opcnt \in 1..MaxBlockCount /\ addr \in Nat
    BY <1>1, <1>4 DEF RangeOf, ReadKind, UnmapKind, BatchOK
  <2>2. TransactOk(m) /\ CarriesData(m)
    BY <1>3, <1>4, <2>1 DEF TransactOk, CarriesData, HonestResponse
  <2>3. m.data = [k \in 1..opcnt |-> store[addr + k - 1]]
    BY <1>4, <2>1 DEF HonestResponse
  <2>4. Received(m) = Deliver(buf, m.data, req.cnt)
    BY <2>2 DEF Received
  <2>5. \A k \in 0..opcnt - 1 : Received(m)[k] = store[addr + k]
    BY <1>1, <1>2, <2>1, <2>3, <2>4 DEF Deliver
  <2>6. testKind \in {WriteKind, UnmapKind} => OracleHolds
    BY DEF HonestInv, HonestBlocks, PendingUpdate
  <2>7. testKind \in {WriteKind, UnmapKind} => BufferMatches(Received(m), testKind, addr, opcnt)
    BY <2>5, <2>6 DEF OracleHolds, BufferMatches
  <2>. QED  BY <1>3, <2>2, <2>7 DEF Accepted
<1>5. CASE req.kind # ReadKind
  BY <1>3, <1>5 DEF Accepted, TransactOk, CarriesData, HonestResponse
<1>. QED  BY <1>4, <1>5

\* run() at its entry: the pipe is empty and TestOpKind is reserved.
LEMMA InitHonest == Init => HonestInv
BY InitIInv DEF Init, RunInit, HonestInv, HonestPipe, HonestRequest, HonestBlocks

(***************************************************************************)
(* The open reports ERROR_IO_DEVICE only on a short handshake or an        *)
(* invalid geometry, which are deviations; otherwise the pipe stays empty *)
(* and TestOpKind reserved.                                               *)
(***************************************************************************)
LEMMA OpenHonest == HonestInv /\ Open => HonestInv'
<1> SUFFICES ASSUME HonestInv, Open PROVE HonestInv'
  OBVIOUS
<1> HIDE DEF SetUp
<1>1. IInv'
  BY NextIInv DEF HonestInv, Next, Client
<1>2. /\ pc = "open" /\ pc' \in {"issue", "done"} /\ testKind = ReservedKind
      /\ UNCHANGED <<testKind, reqQ, rspQ>>
  BY DEF Open, HonestInv
<1>3. ~faulted' => ~faulted /\ (err' = err \/ err' \in {"CONNECT", "NO_RESOURCES"})
  BY DEF Open, HonestInv, IInv, TypeOK
<1>4. ~faulted => reqQ = <<>> /\ rspQ = <<>> /\ err # "IO_DEVICE"
  BY <1>2 DEF HonestInv, HonestPipe
<1>. QED  BY <1>1, <1>2, <1>3, <1>4
          DEF HonestInv, HonestPipe, HonestRequest, HonestBlocks, ReservedKind,
              WriteKind, UnmapKind

(***************************************************************************)
(* A request posted on an empty pipe is the only message in it.  A Write  *)
(* or Unmap becomes TestOpKind and is pending; after any other kind the   *)
(* batch and the blocks are those of the last iteration, or TestOpKind is *)
(* reset because a batch starts.                                          *)
(***************************************************************************)
LEMMA IssueHonest == HonestInv /\ Issue => HonestInv'
<1> SUFFICES ASSUME HonestInv, Issue PROVE HonestInv'
  OBVIOUS
<1>1. IInv'
  BY NextIInv DEF HonestInv, Next, Client
<1>2. /\ pc = "issue" /\ TypeOK /\ DOMAIN buf = 0..MaxBlockCount - 1
      /\ ValidGeometry(geo) /\ i < OpCount
      /\ addr = Star => randomAddress
      /\ cnt = Star => randomCount
      /\ i # 0 => BatchOK(addr, cnt, opcnt)
  BY DEF Issue, HonestInv, IInv
<1>3. D \in Nat \ {0} /\ MaxBlockCount \in Nat \ {0}
  BY <1>2, ValidGeometryBounds, GeometriesAssumption DEF TypeOK, MaxBlockCount, D
<1> DEFINE b  == IF j = 0 THEN NextBatch
                 ELSE [addr |-> addr, cnt |-> cnt, opcnt |-> opcnt, seed |-> seed]
           k  == OpKinds[(i % Len(OpKinds)) + 1]
           tk == BatchTestKind(j, testKind)
           nb == IssueBuffer(buf, k, b.addr, b.opcnt)
           r  == Request(i, k, b, nb)
<1> HIDE DEF b, k, tk, nb, r
<1>4. /\ addr' = b.addr /\ opcnt' = b.opcnt
      /\ testKind' = IF k \in {WriteKind, UnmapKind} THEN k ELSE tk
      /\ req' = r
      /\ store' = store /\ rspQ' = rspQ /\ faulted' = faulted
      /\ \/ reqQ' = Post(reqQ, r) /\ pc' = "wait" /\ err' = err
         \/ err' = "NO_RESOURCES" /\ pc' = "done" /\ reqQ' = reqQ
  BY DEF Issue, b, k, tk, nb, r
<1>5. BatchOK(b.addr, b.cnt, b.opcnt)
  <2>1. CASE j = 0
    BY <1>2, <2>1, NextBatchOK DEF b
  <2>2. CASE j # 0
    <3>1. i # 0  BY <2>2 DEF HonestInv, IInv
    <3>. QED  BY <1>2, <2>2, <3>1 DEF b
  <2>. QED  BY <2>1, <2>2
<1>6. r.kind = k /\ k \in OpKindSet
  <2>1. (i % Len(OpKinds)) + 1 \in 1..Len(OpKinds)
    BY <1>2, CycleLength DEF TypeOK
  <2>2. k \in OpKindSet
    BY <2>1, OpKindsAssumption DEF k
  <2>. QED  BY <2>2 DEF r, Request
<1>7. k = WriteKind => r.data = [n \in 1..b.opcnt |-> Stamp(b.addr + n - 1)]
  <2>1. b.addr \in Nat /\ b.opcnt \in Nat /\ \A n \in 0..b.opcnt - 1 : n \in DOMAIN buf
    BY <1>2, <1>3, <1>5 DEF BatchOK
  <2>2. k = WriteKind => r = Request(i, WriteKind, b, IssueBuffer(buf, WriteKind, b.addr, b.opcnt))
    BY DEF r, nb
  <2>3. Request(i, WriteKind, b, IssueBuffer(buf, WriteKind, b.addr, b.opcnt)).data
            = [n \in 1..b.opcnt |-> Stamp(b.addr + n - 1)]
    <3>1. IssueBuffer(buf, WriteKind, b.addr, b.opcnt) = Stamped(buf, b.addr, b.opcnt)
      BY DEF IssueBuffer, WriteKind, UnmapKind
    <3>2. \A n \in 1..b.opcnt : Stamped(buf, b.addr, b.opcnt)[n - 1] = Stamp(b.addr + n - 1)
      BY <2>1 DEF Stamped
    <3>. QED  BY <3>1, <3>2 DEF Request, WriteKind, UnmapKind
  <2>. QED  BY <2>2, <2>3
<1>8. j # 0 => b.addr = addr /\ b.opcnt = opcnt /\ tk = testKind
  BY DEF b, tk, BatchTestKind
<1>9. j = 0 => tk = ReservedKind
  BY DEF tk, BatchTestKind
<1>10. pc' # "open"
  BY <1>4
<1>11. ASSUME ~faulted' PROVE err' # "IO_DEVICE" /\ HonestPipe' /\ HonestRequest' /\ HonestBlocks'
  <2>1. ~faulted /\ err # "IO_DEVICE" /\ reqQ = <<>> /\ rspQ = <<>> /\ HonestBlocks
    BY <1>2, <1>4, <1>11 DEF HonestInv, HonestPipe
  <2>2. err' # "IO_DEVICE"
    BY <1>4, <2>1
  <2>3. CASE pc' = "done"
    BY <1>4, <2>1, <2>3 DEF HonestPipe, HonestRequest, HonestBlocks
  <2>4. CASE pc' = "wait"
    <3>1. reqQ' = <<req'>> /\ rspQ' = <<>>
      BY <1>4, <2>1, <2>4 DEF Post
    <3>2. HonestPipe'
      BY <2>4, <3>1 DEF HonestPipe
    <3>3. HonestRequest'
      BY <1>4, <1>6, <1>7, <2>4 DEF HonestRequest
    <3>4. HonestBlocks'
      <4>1. CASE k \in {WriteKind, UnmapKind}
        <5>1. PendingUpdate'
          BY <1>4, <1>6, <2>4, <3>1, <4>1 DEF PendingUpdate
        <5>. QED  BY <5>1 DEF HonestBlocks
      <4>2. CASE k \notin {WriteKind, UnmapKind} /\ j = 0
        <5>1. testKind' = ReservedKind
          BY <1>4, <1>9, <4>2
        <5>. QED  BY <5>1 DEF HonestBlocks, ReservedKind, WriteKind, UnmapKind
      <4>3. CASE k \notin {WriteKind, UnmapKind} /\ j # 0
        <5>1. testKind' = tk
          BY <1>4, <4>3
        <5>2. testKind' = testKind /\ addr' = addr /\ opcnt' = opcnt /\ store' = store
          BY <1>4, <1>8, <4>3, <5>1
        <5>3. ~PendingUpdate
          BY <1>2 DEF PendingUpdate
        <5>. QED  BY <1>2, <2>1, <5>2, <5>3 DEF HonestBlocks, OracleHolds
      <4>. QED  BY <4>1, <4>2, <4>3
    <3>. QED  BY <2>2, <3>2, <3>3, <3>4
  <2>. QED  BY <1>4, <2>3, <2>4
<1>12. (~faulted => err # "IO_DEVICE" /\ HonestPipe /\ HonestRequest /\ HonestBlocks)'
  BY <1>11
<1>. QED  BY <1>1, <1>10, <1>12 DEF HonestInv

(***************************************************************************)
(* Accept takes the one response in the pipe, so the pipe is empty after   *)
(* it; the batch, TestOpKind and the blocks are left as they were, and    *)
(* with nothing pending the blocks already held what TestOpKind expects.  *)
(***************************************************************************)
LEMMA AcceptHonest == HonestInv /\ Accept => HonestInv'
<1> SUFFICES ASSUME HonestInv, Accept PROVE HonestInv'
  OBVIOUS
<1>1. IInv'
  BY NextIInv DEF HonestInv, Next, Client
<1>2. /\ pc = "wait" /\ rspQ # <<>> /\ pc' \in {"issue", "done"}
      /\ rspQ' = Tail(rspQ) /\ err' = err /\ faulted' = faulted
      /\ UNCHANGED <<store, addr, opcnt, testKind, req, reqQ>>
  BY DEF Accept
<1>3. ASSUME ~faulted' PROVE err' # "IO_DEVICE" /\ HonestPipe' /\ HonestRequest' /\ HonestBlocks'
  <2>1. ~faulted /\ err # "IO_DEVICE" /\ HonestPipe /\ HonestBlocks
    BY <1>2, <1>3 DEF HonestInv
  <2>2. reqQ = <<>> /\ rspQ = <<HonestResponse(req)>>
    BY <1>2, <2>1 DEF HonestPipe
  <2>3. reqQ' = <<>> /\ rspQ' = <<>>
    BY <1>2, <2>2
  <2>4. testKind \in {WriteKind, UnmapKind} => OracleHolds
    BY <1>2, <2>1, <2>2 DEF HonestBlocks, PendingUpdate
  <2>5. HonestBlocks'
    BY <1>2, <2>4 DEF HonestBlocks, OracleHolds
  <2>. QED  BY <1>2, <2>1, <2>3, <2>5 DEF HonestPipe, HonestRequest
<1>. QED  BY <1>1, <1>2, <1>3 DEF HonestInv

(***************************************************************************)
(* Reject needs a response run() does not accept.  While the server has   *)
(* not deviated the only response is the correct one, which run() accepts *)
(* (HonestAccepted): ERROR_IO_DEVICE is reported only after a deviation. *)
(***************************************************************************)
LEMMA RejectHonest == HonestInv /\ Reject => HonestInv'
<1> SUFFICES ASSUME HonestInv, Reject PROVE HonestInv'
  OBVIOUS
<1>1. IInv'
  BY NextIInv DEF HonestInv, Next, Client
<1>2. /\ pc = "wait" /\ rspQ # <<>> /\ ~Accepted(Head(rspQ)) /\ pc' = "done"
      /\ faulted' = faulted /\ testKind' = testKind
  BY DEF Reject
<1>3. faulted
  <2>1. SUFFICES ASSUME ~faulted PROVE FALSE
    BY DEF HonestInv, IInv, TypeOK
  <2>2. reqQ = <<>> /\ rspQ = <<HonestResponse(req)>>
    BY <1>2, <2>1 DEF HonestInv, HonestPipe
  <2>3. Accepted(HonestResponse(req))
    BY <1>2, <2>1, <2>2, HonestAccepted
  <2>. QED  BY <1>2, <2>2, <2>3
<1>. QED  BY <1>1, <1>2, <1>3 DEF HonestInv

(***************************************************************************)
(* The server answers the request in flight.  If it does so correctly it  *)
(* applies a Write or an Unmap to exactly the blocks of the batch, which  *)
(* then hold what TestOpKind expects, and sends the correct response;     *)
(* any other answer marks the run as deviated.                            *)
(***************************************************************************)
LEMMA ServeHonest == HonestInv /\ Serve => HonestInv'
<1> SUFFICES ASSUME HonestInv, Serve PROVE HonestInv'
  OBVIOUS
<1>1. IInv'
  BY NextIInv DEF HonestInv, Next
<1>2. UNCHANGED <<clientVars, geo>>
  BY DEF Serve
<1>3. reqQ # <<>>
  BY DEF Serve
<1> DEFINE r == Head(reqQ)
<1> HIDE DEF r
<1>4. PICK st \in StoreOutcomes(r), s \in StatusOutcomes(r), n \in PayloadLengths(r),
           copies \in Copies :
         LET rsp == [hint |-> r.hint, kind |-> r.kind, status |-> s,
                     data |-> IF r.kind = ReadKind /\ s = Good
                              THEN [k \in 1..n |-> store[r.addr + k - 1]] ELSE <<>>]
         IN  /\ Len(rspQ) + copies <= RspQueueBound
             /\ reqQ' = Tail(reqQ)
             /\ store' = st
             /\ rspQ' = rspQ \o [k \in 1..copies |-> rsp]
             /\ faulted' = (faulted \/ st # Applied(r) \/ s # HonestStatus(r)
                            \/ (r.kind = ReadKind /\ n # r.cnt) \/ copies # 1)
  BY DEF Serve, r
<1>5. ASSUME ~faulted' PROVE err' # "IO_DEVICE" /\ HonestPipe' /\ HonestRequest' /\ HonestBlocks'
  <2>3. ~faulted /\ st = Applied(r) /\ s = HonestStatus(r) /\ copies = 1
        /\ (r.kind = ReadKind => n = r.cnt)
    BY <1>5, <1>4
  <2>4. /\ pc = "wait" /\ reqQ = <<req>> /\ rspQ = <<>> /\ err # "IO_DEVICE"
        /\ HonestRequest /\ HonestBlocks
    BY <1>2, <1>3, <2>3 DEF HonestInv, HonestPipe
  <2>5. r = req
    BY <2>4 DEF r
  <2>6. /\ TypeOK /\ BatchOK(addr, cnt, opcnt) /\ RangeOf(req) = [addr |-> addr, cnt |-> opcnt]
    BY <2>4 DEF HonestInv, IInv
  <2>7. D \in Nat /\ DOMAIN store = 0..D - 1
    BY <2>6, GeometriesAssumption DEF TypeOK, D, Geometry
  <2>8. InUnit(req)
    BY <2>6, <2>7 DEF InUnit, BatchOK
  <2>9. s = Good
    BY <2>3, <2>5, <2>8 DEF HonestStatus
  <2>2. store' = Applied(req)
    BY <1>4, <2>3, <2>5
  <2>10. req.kind = ReadKind => store' = store
    BY <2>2, <2>8, AppliedInUnit DEF ReadKind, WriteKind, UnmapKind
  <2>11. rspQ' = <<HonestResponse(req)'>> /\ reqQ' = <<>>
    <3>1. req' = req /\ copies = 1
      BY <1>2, <2>3 DEF clientVars
    <3>2. HonestResponse(req)' =
              [hint |-> r.hint, kind |-> r.kind, status |-> s,
               data |-> IF r.kind = ReadKind /\ s = Good
                        THEN [k \in 1..n |-> store[r.addr + k - 1]] ELSE <<>>]
      <4>1. CASE req.kind = ReadKind
        BY <2>3, <2>5, <2>9, <2>10, <3>1, <4>1 DEF HonestResponse
      <4>2. CASE req.kind # ReadKind
        BY <2>5, <2>9, <3>1, <4>2 DEF HonestResponse
      <4>. QED  BY <4>1, <4>2
    <3>3. rspQ' = <<>> \o [k \in 1..1 |-> HonestResponse(req)']
      BY <1>4, <2>4, <3>1, <3>2
    <3>4. reqQ' = <<>>
      BY <1>4, <2>4
    <3>. QED  BY <3>3, <3>4, SingleMessage
  <2>12. HonestBlocks'
    <3>1. CASE req.kind = testKind /\ testKind = WriteKind
      <4>1. req.data = [x \in 1..opcnt |-> Stamp(addr + x - 1)]
        BY <2>4, <3>1 DEF HonestRequest
      <4>2. \A k \in 0..opcnt - 1 : addr + k \in DOMAIN store /\ Covers(req, addr + k)
        BY <2>6, <2>7 DEF BatchOK, Covers
      <4>3. req.addr = addr /\ req.kind = WriteKind /\ opcnt \in Nat /\ addr \in Nat
        BY <2>6, <3>1 DEF RangeOf, WriteKind, UnmapKind, BatchOK
      <4>4. \A k \in 0..opcnt - 1 : store'[addr + k] = req.data[addr + k - req.addr + 1]
        BY <2>2, <2>8, <4>2, <4>3, AppliedInUnit
      <4>5. ASSUME NEW k \in 0..opcnt - 1 PROVE store'[addr + k] = Stamp(addr + k)
        <5>1. addr + k - req.addr + 1 = k + 1 /\ k + 1 \in 1..opcnt
          BY <4>3
        <5>. QED  BY <4>1, <4>4, <5>1
      <4>. QED  BY <1>2, <3>1, <4>5 DEF HonestBlocks, OracleHolds, Expected, clientVars
    <3>2. CASE req.kind = testKind /\ testKind = UnmapKind
      <4>2. \A k \in 0..opcnt - 1 : addr + k \in DOMAIN store /\ Covers(req, addr + k)
        BY <2>6, <2>7 DEF BatchOK, Covers
      <4>3. \A k \in 0..opcnt - 1 : store'[addr + k] = 0
        BY <2>2, <2>8, <3>2, <4>2, AppliedInUnit
      <4>. QED  BY <1>2, <3>2, <4>3 DEF HonestBlocks, OracleHolds, Expected, clientVars,
                                       WriteKind, UnmapKind
    <3>3. CASE ~(req.kind = testKind /\ testKind \in {WriteKind, UnmapKind})
      <4>1. testKind \in {WriteKind, UnmapKind} => req.kind \notin {WriteKind, UnmapKind}
        BY <2>4, <3>3 DEF HonestRequest
      <4>2. testKind \in {WriteKind, UnmapKind} => store' = store /\ OracleHolds
        BY <2>2, <2>4, <2>8, <3>3, <4>1, AppliedInUnit DEF HonestBlocks, PendingUpdate
      <4>. QED  BY <1>2, <4>2 DEF HonestBlocks, OracleHolds, clientVars
    <3>. QED  BY <3>1, <3>2, <3>3
  <2>. QED  BY <1>2, <2>4, <2>11, <2>12 DEF HonestPipe, HonestRequest, clientVars
<1>6. (pc = "open" => testKind = ReservedKind)'
  BY <1>2 DEF HonestInv, clientVars
<1>. QED  BY <1>1, <1>5, <1>6 DEF HonestInv

\* A stuttering step keeps HonestInv.
LEMMA StutterHonest == HonestInv /\ UNCHANGED vars => HonestInv'
BY StutterIInv DEF HonestInv, vars, clientVars, HonestPipe, HonestRequest, HonestBlocks,
                   HonestResponse, PendingUpdate, OracleHolds
-----------------------------------------------------------------------------
\* HonestInv holds in every state of every behaviour.
THEOREM HonestInvariant == Spec => []HonestInv
<1>1. HonestInv /\ [Next]_vars => HonestInv'
  BY OpenHonest, IssueHonest, AcceptHonest, RejectHonest, ServeHonest, StutterHonest
     DEF Next, Client
<1>. QED  BY InitHonest, <1>1, PTL DEF Spec

(***************************************************************************)
(* The oracle raises no false alarm (NoFalseAlarm): for every geometry,    *)
(* kind cycle, argument, seed, initial content and set of server faults,  *)
(* run() returns ERROR_IO_DEVICE only after the server has deviated from  *)
(* a correct unit.  The stamp FillOrTest writes, the zeros it expects     *)
(* after an Unmap, and TestOpKind, set by each Write or Unmap and reset   *)
(* at each batch, always agree with what a correct unit holds.            *)
(***************************************************************************)
THEOREM OracleSound == Spec => []NoFalseAlarm
<1>1. HonestInv => NoFalseAlarm
  BY DEF HonestInv, IInv, TypeOK, NoFalseAlarm
<1>. QED  BY <1>1, HonestInvariant, PTL
=============================================================================
