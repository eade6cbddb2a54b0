--------------------------- MODULE StgReadProofs ---------------------------
(***************************************************************************)
(* VerifiedReadsReflectStore: a Read that the oracle of run() checks and   *)
(* run() accepts reflects the blocks of the unit, against any server that *)
(* does not cut a Read payload short.  The Hint check is what makes it    *)
(* hold: run() sends operation I with Hint I and accepts only a response  *)
(* with the Hint of the request in flight, so a stale response (a copy    *)
(* the server sent twice) is never taken for the answer to the Read.     *)
(*                                                                         *)
(* The step property is not inductive.  HintInv strengthens it: the hints *)
(* of run() are I, which only grows; the pipe holds at most the request   *)
(* in flight; and a response that carries the Hint of the request in      *)
(* flight was sent after that request was read, answers it, and the       *)
(* blocks it reports are still those of the unit, because the blocks      *)
(* change only when a request is served and no request is left.          *)
(***************************************************************************)
EXTENDS StgOracleProofs

\* The server never returns fewer bytes than a Read asked for.
NoShortRead == "ShortRead" \notin ServerFaults

\* m answers r as the blocks now are: its Kind, and for a GOOD Read its data.
Answers(m, r) ==
    /\ m.kind = r.kind
    /\ m.status = Good /\ r.kind = ReadKind =>
           m.data = [k \in 1..r.cnt |-> store[r.addr + k - 1]]

HintInv ==
    /\ IInv
    /\ pc \in {"open", "issue"} => reqQ = <<>>
    /\ pc = "open" => rspQ = <<>>
    /\ pc = "wait" => req.hint = i
    /\ reqQ # <<>> => reqQ = <<req>> /\ req.hint = i
    /\ \A n \in 1..Len(rspQ) :
         /\ rspQ[n].hint <= i
         /\ rspQ[n].hint = i =>
                pc \in {"wait", "done"} /\ req.hint = i /\ reqQ = <<>> /\ Answers(rspQ[n], req)
-----------------------------------------------------------------------------
\* A correct unit leaves the blocks alone on a Read.
LEMMA ReadApplied ==
    ASSUME NEW r, r.kind = ReadKind
    PROVE  Applied(r) = store
BY DEF Applied, ReadKind, WriteKind, UnmapKind

LEMMA InitHint == Init => HintInv
BY InitIInv DEF Init, RunInit, HintInv

\* The open leaves both pipes empty and I at 0.
LEMMA OpenHint == HintInv /\ Open => HintInv'
<1> SUFFICES ASSUME HintInv, Open PROVE HintInv'
  OBVIOUS
<1> HIDE DEF SetUp
<1>1. IInv'
  BY NextIInv DEF HintInv, Next, Client
<1>2. /\ pc = "open" /\ pc' \in {"issue", "done"}
      /\ UNCHANGED <<i, req, reqQ, rspQ>>
  BY DEF Open
<1>3. reqQ = <<>> /\ rspQ = <<>>
  BY <1>2 DEF HintInv
<1>. QED  BY <1>1, <1>2, <1>3 DEF HintInv

(***************************************************************************)
(* Operation I is posted with Hint I on an empty request pipe.  No        *)
(* response in the pipe has Hint I, since one would have been sent while  *)
(* the loop waited, and the loop is at the top.                           *)
(***************************************************************************)
LEMMA IssueHint == HintInv /\ Issue => HintInv'
<1> SUFFICES ASSUME HintInv, Issue PROVE HintInv'
  OBVIOUS
<1>1. IInv'
  BY NextIInv DEF HintInv, Next, Client
<1> DEFINE b  == IF j = 0 THEN NextBatch
                 ELSE [addr |-> addr, cnt |-> cnt, opcnt |-> opcnt, seed |-> seed]
           k  == OpKinds[(i % Len(OpKinds)) + 1]
           tk == BatchTestKind(j, testKind)
           nb == IssueBuffer(buf, k, b.addr, b.opcnt)
           r  == Request(i, k, b, nb)
<1> HIDE DEF b, k, tk, nb, r
<1>2. /\ pc = "issue" /\ req' = r /\ r.hint = i
      /\ UNCHANGED <<i, store, rspQ>>
      /\ \/ reqQ' = Post(reqQ, r) /\ pc' = "wait"
         \/ pc' = "done" /\ reqQ' = reqQ
  BY DEF Issue, b, k, tk, nb, r, Request
<1>3. reqQ = <<>>
  BY <1>2 DEF HintInv
<1>4. reqQ' = <<>> \/ reqQ' = <<req'>>
  BY <1>2, <1>3 DEF Post
<1>5. \A n \in 1..Len(rspQ) : rspQ[n].hint <= i /\ rspQ[n].hint # i
  BY <1>2 DEF HintInv
<1>6. pc' # "wait" \/ req'.hint = i'
  BY <1>2
<1>7. reqQ' # <<>> => reqQ' = <<req'>> /\ req'.hint = i'
  BY <1>2, <1>4
<1>. QED  BY <1>1, <1>2, <1>5, <1>6, <1>7 DEF HintInv

\* A rejected response leaves I, the request and the blocks as they were.
LEMMA RejectHint == HintInv /\ Reject => HintInv'
<1> SUFFICES ASSUME HintInv, Reject PROVE HintInv'
  OBVIOUS
<1>1. IInv'
  BY NextIInv DEF HintInv, Next, Client
<1>2. /\ pc = "wait" /\ rspQ # <<>> /\ pc' = "done" /\ rspQ' = Tail(rspQ)
      /\ UNCHANGED <<i, store, req, reqQ>>
  BY DEF Reject
<1>3. rspQ \in Seq(ResponseType)
  BY DEF HintInv, IInv, TypeOK
<1>4. \A n \in 1..Len(rspQ') : rspQ'[n] = rspQ[n + 1] /\ n + 1 \in 1..Len(rspQ)
  BY <1>2, <1>3
<1>5. ASSUME NEW n \in 1..Len(rspQ')
      PROVE  /\ rspQ'[n].hint <= i
             /\ rspQ'[n].hint = i =>
                  /\ req.hint = i /\ reqQ = <<>> /\ rspQ'[n].kind = req.kind
                  /\ rspQ'[n].status = Good /\ req.kind = ReadKind =>
                       rspQ'[n].data = [k \in 1..req.cnt |-> store[req.addr + k - 1]]
  BY <1>2, <1>4 DEF HintInv, Answers
<1>. QED  BY <1>1, <1>2, <1>5 DEF HintInv, Answers

(***************************************************************************)
(* The server answers the request in flight, the only message in the     *)
(* request pipe, with Hint I.  No response with Hint I is in the pipe     *)
(* before, since the request was still there.  A Read leaves the blocks   *)
(* alone whatever the server's faults, and without ShortRead it returns   *)
(* all the blocks it was asked for: its copies answer the request from    *)
(* the blocks as they now are.                                            *)
(***************************************************************************)
LEMMA ServeHint ==
    ASSUME NoShortRead, HintInv, Serve
    PROVE  HintInv'
<1>1. IInv'
  BY NextIInv DEF HintInv, Next
<1>2. UNCHANGED <<pc, i, req>>
  BY DEF Serve, clientVars
<1>3. /\ reqQ = <<req>> /\ req.hint = i /\ pc \in {"wait", "done"}
      /\ rspQ \in Seq(ResponseType) /\ i \in Nat
  BY DEF Serve, HintInv, IInv, TypeOK
<1> DEFINE r == Head(reqQ)
<1> HIDE DEF r
<1>4. PICK st \in StoreOutcomes(r), s \in StatusOutcomes(r), n \in PayloadLengths(r),
           copies \in Copies :
         LET rsp == [hint |-> r.hint, kind |-> r.kind, status |-> s,
                     data |-> IF r.kind = ReadKind /\ s = Good
                              THEN [k \in 1..n |-> store[r.addr + k - 1]] ELSE <<>>]
         IN  /\ Len(rspQ) + copies <= RspQueueBound
             /\ reqQ' = Tail(reqQ)
             /\ store' = st
             /\ rspQ' = rspQ \o [k \in 1..copies |-> rsp]
             /\ faulted' = (faulted \/ st # Applied(r) \/ s # HonestStatus(r)
                            \/ (r.kind = ReadKind /\ n # r.cnt) \/ copies # 1)
  BY DEF Serve, r
<1>5. r = req
  BY <1>3 DEF r
<1> DEFINE rsp == [hint |-> req.hint, kind |-> req.kind, status |-> s,
                   data |-> IF req.kind = ReadKind /\ s = Good
                            THEN [k \in 1..n |-> store[req.addr + k - 1]] ELSE <<>>]
<1>6. /\ reqQ' = <<>> /\ store' = st /\ copies \in {1, 2}
      /\ rspQ' = rspQ \o [k \in 1..copies |-> rsp]
  <2>1. reqQ' = <<>> /\ store' = st
    BY <1>3, <1>4 DEF r
  <2>2. copies \in {1, 2}
    BY DEF Copies
  <2>3. rspQ' = rspQ \o [k \in 1..copies |-> rsp]
    BY <1>4, <1>5, Zenon
  <2>. QED  BY <2>1, <2>2, <2>3
<1>7. req.kind = ReadKind =>
        /\ store' = store
        /\ n = req.cnt
  BY <1>4, <1>5, <1>6, ReadApplied
     DEF StoreOutcomes, PayloadLengths, NoShortRead, ReadKind, WriteKind, UnmapKind
<1>8. /\ rsp.hint = i /\ rsp.kind = req.kind
      /\ rsp.status = Good /\ req.kind = ReadKind =>
           rsp.data = [k \in 1..req.cnt |-> store'[req.addr + k - 1]]
  BY <1>3, <1>7
<1>9. /\ Len(rspQ') = Len(rspQ) + copies
      /\ \A m \in 1..Len(rspQ) : rspQ'[m] = rspQ[m]
      /\ \A m \in Len(rspQ) + 1..Len(rspQ') : rspQ'[m] = rsp
  BY <1>3, <1>6
<1>10. ASSUME NEW m \in 1..Len(rspQ')
       PROVE  /\ rspQ'[m].hint <= i
              /\ rspQ'[m].hint = i =>
                   /\ rspQ'[m].kind = req.kind
                   /\ rspQ'[m].status = Good /\ req.kind = ReadKind =>
                        rspQ'[m].data = [k \in 1..req.cnt |-> store'[req.addr + k - 1]]
  <2>1. CASE m \in 1..Len(rspQ)
    BY <1>3, <1>9, <2>1 DEF HintInv
  <2>2. CASE m \in Len(rspQ) + 1..Len(rspQ')
    <3>1. rspQ'[m] = rsp
      BY <1>9, <2>2
    <3>2. rsp.hint <= i
      BY <1>3, <1>8
    <3>. QED  BY <1>8, <3>1, <3>2
  <2>3. m \in 1..Len(rspQ) \/ m \in Len(rspQ) + 1..Len(rspQ')
    BY <1>3, <1>9 DEF HintInv, IInv, TypeOK
  <2>. QED  BY <2>1, <2>2, <2>3
<1>. QED  BY <1>1, <1>2, <1>3, <1>6, <1>10 DEF HintInv, Answers

(***************************************************************************)
(* run() accepts only a response with the Hint of the request in flight,  *)
(* I, and then counts I up: every response left in the pipe has a Hint    *)
(* below the new I, and no request is left.                               *)
(***************************************************************************)
LEMMA AcceptHint == HintInv /\ Accept => HintInv'
<1> SUFFICES ASSUME HintInv, Accept PROVE HintInv'
  OBVIOUS
<1>1. IInv'
  BY NextIInv DEF HintInv, Next, Client
<1>2. /\ pc = "wait" /\ rspQ # <<>> /\ Accepted(Head(rspQ))
      /\ rspQ' = Tail(rspQ) /\ i' = i + 1 /\ pc' \in {"issue", "done"}
      /\ UNCHANGED <<req, reqQ>>
  BY DEF Accept
<1>3. rspQ \in Seq(ResponseType) /\ i \in Nat
  BY DEF HintInv, IInv, TypeOK
<1>4. Head(rspQ).hint = i
  BY <1>2 DEF HintInv, Accepted, Correlated
<1>5. reqQ = <<>>
  BY <1>2, <1>3, <1>4 DEF HintInv
<1>6. ASSUME NEW m \in 1..Len(rspQ') PROVE rspQ'[m].hint <= i' /\ rspQ'[m].hint # i'
  <2>1. rspQ'[m] = rspQ[m + 1] /\ m + 1 \in 1..Len(rspQ)
    BY <1>2, <1>3
  <2>2. rspQ[m + 1].hint \in Nat /\ rspQ[m + 1].hint <= i
    <3>1. rspQ[m + 1] \in ResponseType
      BY <1>3, <2>1
    <3>2. rspQ[m + 1].hint \in Nat
      BY <3>1 DEF ResponseType
    <3>3. rspQ[m + 1].hint <= i
      BY <2>1 DEF HintInv
    <3>. QED  BY <3>2, <3>3
  <2>. QED  BY <1>2, <1>3, <2>1, <2>2
<1>7. /\ pc' # "open" /\ pc' # "wait" /\ reqQ' = <<>>
  BY <1>2, <1>5
<1>. QED  BY <1>1, <1>6, <1>7 DEF HintInv

LEMMA StutterHint == HintInv /\ UNCHANGED vars => HintInv'
<1> SUFFICES ASSUME HintInv, UNCHANGED vars PROVE HintInv'
  OBVIOUS
<1>1. IInv'
  BY StutterIInv DEF HintInv
<1>2. UNCHANGED <<pc, i, req, reqQ, rspQ, store>>
  BY DEF vars, clientVars
<1>. QED  BY <1>1, <1>2 DEF HintInv, Answers
-----------------------------------------------------------------------------
\* HintInv holds in every state of a behaviour whose server never cuts a Read short.
LEMMA HintInvariant ==
    ASSUME NoShortRead
    PROVE  Spec => []HintInv
<1>1. HintInv /\ [Next]_vars => HintInv'
  BY OpenHint, IssueHint, AcceptHint, RejectHint, ServeHint, StutterHint DEF Next, Client
<1>. QED  BY InitHint, <1>1, PTL DEF Spec

(***************************************************************************)
(* The step that accepts a verified Read: it is an Accept of the response *)
(* at the head of the pipe, which has Hint I and so answers the Read from *)
(* the blocks as they are; DataBuffer receives those blocks, and the      *)
(* FillOrTest that passed compared them with what TestOpKind expects.     *)
(***************************************************************************)
LEMMA VerifiedReadStep ==
    ASSUME HintInv, [Next]_vars, AcceptsVerifiedRead
    PROVE  \A k \in 0..opcnt - 1 : store[addr + k] = Expected(testKind, addr + k)
<1>1. i \in Nat /\ rspQ \in Seq(ResponseType)
  BY DEF HintInv, IInv, TypeOK
<1>2. Accept
  <2>1. i' = i + 1 /\ pc = "wait"
    BY DEF AcceptsVerifiedRead
  <2>2. i' # i
    BY <1>1, <2>1
  <2>3. ~Open /\ ~Issue
    BY <2>1 DEF Open, Issue
  <2>4. ~Reject
    BY <2>2 DEF Reject
  <2>5. ~Serve /\ ~UNCHANGED vars
    BY <2>2 DEF Serve, clientVars, vars
  <2>. QED  BY <2>3, <2>4, <2>5 DEF Next, Client
<1> DEFINE m == Head(rspQ)
<1>3. /\ rspQ # <<>> /\ Accepted(m) /\ req.hint = i
      /\ req.kind = ReadKind /\ testKind \in {WriteKind, UnmapKind}
  BY <1>2 DEF Accept, AcceptsVerifiedRead, HintInv
<1>4. m = rspQ[1] /\ 1 \in 1..Len(rspQ)
  BY <1>1, <1>3
<1>5. /\ m.hint = i /\ m.kind = ReadKind /\ m.status = Good
      /\ TransactOk(m) /\ BufferMatches(Received(m), testKind, addr, opcnt)
  BY <1>3 DEF Accepted, Correlated
<1>6. m.data = [k \in 1..req.cnt |-> store[req.addr + k - 1]]
  BY <1>3, <1>4, <1>5 DEF HintInv, Answers
<1>7. req.addr = addr /\ req.cnt = opcnt /\ opcnt <= MaxBlockCount
  <2>1. RangeOf(req) = [addr |-> addr, cnt |-> opcnt]
    BY DEF AcceptsVerifiedRead, HintInv, IInv
  <2>2. RangeOf(req) = [addr |-> req.addr, cnt |-> req.cnt]
    BY <1>3 DEF RangeOf, ReadKind, UnmapKind
  <2>3. req.addr = addr /\ req.cnt = opcnt
    BY <2>1, <2>2
  <2>. QED  BY <1>5, <2>3 DEF TransactOk, CarriesData
<1>8. Received(m) = Deliver(buf, m.data, req.cnt)
  BY <1>5 DEF Received, CarriesData
<1>9. DOMAIN buf = 0..MaxBlockCount - 1 /\ opcnt \in Nat /\ MaxBlockCount \in Nat
  <2>1. DOMAIN buf = 0..MaxBlockCount - 1 /\ opcnt \in Nat /\ ValidGeometry(geo)
        /\ geo \in Geometries
    BY <1>2 DEF Accept, HintInv, IInv, TypeOK
  <2>2. MaxBlockCount \in Nat
    BY <2>1, ValidGeometryBounds, GeometriesAssumption DEF MaxBlockCount
  <2>. QED  BY <2>1, <2>2
<1>10. ASSUME NEW k \in 0..opcnt - 1 PROVE store[addr + k] = Expected(testKind, addr + k)
  <2>1. k \in DOMAIN buf /\ k < req.cnt /\ k < Len(m.data)
    BY <1>6, <1>7, <1>9
  <2>2. Received(m)[k] = m.data[k + 1]
    BY <1>8, <2>1 DEF Deliver
  <2>3. m.data[k + 1] = store[addr + k]
    BY <1>6, <1>7, <1>9
  <2>4. Received(m)[k] = Expected(testKind, addr + k)
    BY <1>5 DEF BufferMatches
  <2>. QED  BY <2>2, <2>3, <2>4
<1>. QED  BY <1>10

(***************************************************************************)
(* VerifiedReadsReflectStore, for every geometry, kind cycle, argument,   *)
(* seed, initial content and set of server faults without ShortRead: when *)
(* run() accepts a Read whose blocks FillOrTest checked after a Write or  *)
(* an Unmap of the batch, the unit really holds the data the oracle       *)
(* expects on those blocks.  A server that sends a response twice cannot  *)
(* make run() accept a stale answer: the Hint check of StgTransactPipe    *)
(* and of the loop rejects it.                                            *)
(***************************************************************************)
THEOREM VerifiedReadsSound ==
    ASSUME NoShortRead
    PROVE  Spec => VerifiedReadsReflectStore
<1>1. HintInv /\ [Next]_vars =>
        [AcceptsVerifiedRead =>
           \A k \in 0..opcnt - 1 : store[addr + k] = Expected(testKind, addr + k)]_vars
  BY VerifiedReadStep
<1>. QED  BY <1>1, HintInvariant, PTL DEF Spec, VerifiedReadsReflectStore
=============================================================================
