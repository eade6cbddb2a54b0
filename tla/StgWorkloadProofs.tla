------------------------- MODULE StgWorkloadProofs -------------------------
(***************************************************************************)
(* run() of stgpipe.c, against any server ServerFaults allows, implements  *)
(* StgWorkload under the mapping of StgPipe (ImplementsWorkload).          *)
(*                                                                         *)
(* Each step of run() maps to one step of the workload or to a stutter:   *)
(* the open to Start, a request posted to Issue, an accepted answer to     *)
(* Complete, an error exit to Fail, the server to a stutter.  That a       *)
(* posted request is an Issue of the workload rests on IInv (the range of *)
(* the request in flight is the batch, and the batch is inside the unit); *)
(* that an accepted answer is a Complete, and not a failure, rests on     *)
(* ErrOK: err stays SUCCESS until run() is done.                           *)
(***************************************************************************)
EXTENDS StgPipeProofs

\* run() has met no error while it is not done.
ErrOK == pc # "done" => err = "SUCCESS"

\* ErrOK holds in every state: only the steps that end the run set err.
LEMMA ErrOKInvariant == Spec => []ErrOK
<1>1. Init => ErrOK
  BY DEF Init, RunInit, ErrOK
<1>2. ErrOK /\ [Next]_vars => ErrOK'
  <2> SUFFICES ASSUME ErrOK, [Next]_vars PROVE ErrOK'
    OBVIOUS
  <2> HIDE DEF NextBatch, IssueBuffer, Request, SetUp
  <2>1. CASE Open  BY <2>1 DEF Open, ErrOK
  <2>2. CASE Issue  BY <2>2 DEF Issue, ErrOK
  <2>3. CASE Accept  BY <2>3 DEF Accept, ErrOK
  <2>4. CASE Reject  BY <2>4 DEF Reject, ErrOK
  <2>5. CASE Serve  BY <2>5 DEF Serve, ErrOK, clientVars
  <2>6. CASE UNCHANGED vars  BY <2>6 DEF vars, clientVars, ErrOK
  <2>. QED  BY <2>1, <2>2, <2>3, <2>4, <2>5, <2>6 DEF Next, Client
<1>. QED  BY <1>1, <1>2, PTL DEF Spec

\* The open maps to Start.
LEMMA OpenStart == ErrOK /\ IInv /\ Open => Workload!Start
<1> SUFFICES ASSUME ErrOK, IInv, Open PROVE Workload!Start
  OBVIOUS
<1> HIDE DEF SetUp
<1>1. Phase = "open" /\ InFlight = Workload!NoOp /\ InFlight' = Workload!NoOp
  BY DEF Open, Phase, InFlight, Workload!NoOp
<1>2. UNCHANGED <<geo, i>>
  BY DEF Open
<1>3. CASE pc' = "done"
  <2>1. err' # "SUCCESS"
    BY <1>3 DEF Open
  <2>. QED  BY <1>1, <1>2, <1>3, <2>1 DEF Workload!Start, Phase, D, MaxBlockCount
<1>4. CASE pc' # "done"
  <2>1. pc' = "issue" /\ ValidGeometry(geo)
    BY <1>4 DEF Open
  <2>2. D > 0 /\ MaxBlockCount > 0
    BY <2>1, ValidGeometryBounds, GeometriesAssumption DEF IInv, TypeOK, D, MaxBlockCount
  <2>. QED  BY <1>1, <1>2, <2>1, <2>2 DEF Workload!Start, Phase, D, MaxBlockCount
<1>. QED  BY <1>3, <1>4

\* A request posted maps to Issue, a run stopped before it to Fail.
LEMMA IssueStep == ErrOK /\ IInv /\ Issue => Workload!Issue \/ Workload!Fail
<1> SUFFICES ASSUME ErrOK, IInv, Issue PROVE Workload!Issue \/ Workload!Fail
  OBVIOUS
<1>0. IInv'
  BY NextIInv DEF Next, Client
<1> HIDE DEF NextBatch, IssueBuffer, Request
<1>1. pc = "issue" /\ Phase = "issue" /\ InFlight = Workload!NoOp /\ UNCHANGED <<geo, i>>
  BY DEF Issue, Phase, InFlight, Workload!NoOp
<1>2. i < OpCount
  BY <1>1 DEF IInv
<1>3. req'.kind = OpKinds[(i % Len(OpKinds)) + 1]
  BY DEF Issue, Request
<1>4. CASE pc' = "wait"
  <2>1. (BatchOK(addr, cnt, opcnt) /\ RangeOf(req) = [addr |-> addr, cnt |-> opcnt])'
    BY <1>0, <1>4 DEF IInv
  <2>2. InFlight' = [kind |-> OpKinds[(i % Len(OpKinds)) + 1], addr |-> addr', cnt |-> opcnt']
    BY <1>3, <1>4, <2>1 DEF InFlight, RangeOf
  <2>3. addr' \in 0..D - 1 /\ opcnt' \in 1..MaxBlockCount /\ addr' + opcnt' <= D
    BY <2>1, <1>1 DEF BatchOK, D, MaxBlockCount
  <2>4. Phase' = "wait"
    BY <1>4 DEF Phase
  <2>. QED  BY <1>1, <1>2, <2>2, <2>3, <2>4 DEF Workload!Issue, D, MaxBlockCount
<1>5. CASE pc' # "wait"
  <2>1. pc' = "done" /\ err' = "NO_RESOURCES"
    BY <1>5 DEF Issue
  <2>2. Phase' = "failed" /\ InFlight' = Workload!NoOp
    BY <2>1 DEF Phase, InFlight, Workload!NoOp
  <2>. QED  BY <1>1, <2>2 DEF Workload!Fail, D, MaxBlockCount
<1>. QED  BY <1>4, <1>5

\* An accepted answer maps to Complete.
LEMMA AcceptComplete == ErrOK /\ Accept => Workload!Complete
<1> SUFFICES ASSUME ErrOK, Accept PROVE Workload!Complete
  OBVIOUS
<1>1. pc = "wait" /\ err' = "SUCCESS" /\ UNCHANGED geo /\ i' = i + 1
  BY DEF Accept, ErrOK
<1>2. Phase = "wait" /\ InFlight' = Workload!NoOp
  BY <1>1 DEF Accept, Phase, InFlight, Workload!NoOp
<1>3. Phase' = IF i + 1 < OpCount THEN "issue" ELSE "passed"
  BY <1>1 DEF Accept, Phase
<1>. QED  BY <1>1, <1>2, <1>3 DEF Workload!Complete, D, MaxBlockCount

\* A rejected answer maps to Fail.
LEMMA RejectFail == Reject => Workload!Fail
BY DEF Reject, Workload!Fail, Phase, InFlight, Workload!NoOp, D, MaxBlockCount

\* The server moves nothing the workload sees.
LEMMA ServeStutter == Serve => UNCHANGED Workload!vars
BY DEF Serve, clientVars, Workload!vars, Phase, InFlight, D, MaxBlockCount

(***************************************************************************)
(* run() implements StgWorkload (ImplementsWorkload), for every geometry,  *)
(* OpKinds cycle, OpCount, argument, seed and set of server faults: the   *)
(* open starts the loop only on a unit with a block and room for one, the *)
(* requests go out one at a time in the order of the cycle, each inside   *)
(* the unit and within the transfer limit, and success is reported only   *)
(* after OpCount accepted answers.                                         *)
(***************************************************************************)
THEOREM Implementation == Spec => ImplementsWorkload
<1>1. Spec => [](IInv /\ ErrOK)
  BY IInvInvariant, ErrOKInvariant, PTL
<1>2. Init => Workload!Init
  BY DEF Init, RunInit, Workload!Init, Phase, InFlight, Workload!NoOp, D, MaxBlockCount
<1>3. IInv /\ ErrOK /\ [Next]_vars => [Workload!Next]_Workload!vars
  <2> SUFFICES ASSUME IInv, ErrOK, [Next]_vars PROVE [Workload!Next]_Workload!vars
    OBVIOUS
  <2>1. CASE Open  BY <2>1, OpenStart DEF Workload!Next
  <2>2. CASE Issue  BY <2>2, IssueStep DEF Workload!Next
  <2>3. CASE Accept  BY <2>3, AcceptComplete DEF Workload!Next
  <2>4. CASE Reject  BY <2>4, RejectFail DEF Workload!Next
  <2>5. CASE Serve  BY <2>5, ServeStutter
  <2>6. CASE UNCHANGED vars
    BY <2>6 DEF vars, clientVars, Workload!vars, Phase, InFlight, D, MaxBlockCount
  <2>. QED  BY <2>1, <2>2, <2>3, <2>4, <2>5, <2>6 DEF Next, Client
<1>. QED  BY <1>1, <1>2, <1>3, PTL DEF Spec, ImplementsWorkload, Workload!Spec
=============================================================================
