---------------------------- MODULE StgWorkload ----------------------------
(***************************************************************************)
(* What run() of stgpipe.c promises the unit it tests, whatever the path:  *)
(* after the open it sends operations one at a time, the n-th of the kind  *)
(* the OpKinds cycle names, each on between 1 and MaxBlockCount blocks     *)
(* inside the unit; it goes on to the next only when the last one was     *)
(* answered and accepted, and it returns success only after OpCount of    *)
(* them.  Any step may instead end the run with an error.                 *)
(***************************************************************************)
EXTENDS Naturals, Sequences

CONSTANTS
    Units,      \* the units run() may open: [blocks, maxBlocks]
    OpCount,    \* the number of operations of a run
    Kinds       \* the cycle of operation kinds

VARIABLES
    phase,      \* "open", "issue", "wait", "passed" or "failed"
    unit,       \* the unit's size and transfer limit, in blocks
    n,          \* operations accepted so far
    op          \* the operation in flight

vars == <<phase, unit, n, op>>

\* No operation in flight.
NoOp == [kind |-> "none", addr |-> 0, cnt |-> 0]

Init ==
    /\ phase = "open"
    /\ unit \in Units
    /\ n = 0
    /\ op = NoOp

\* The open: the loop starts only on a unit with a block and room for one.
Start ==
    /\ phase = "open"
    /\ \/ /\ phase' = "issue"
          /\ unit.blocks > 0
          /\ unit.maxBlocks > 0
       \/ phase' = "failed"
    /\ UNCHANGED <<unit, n, op>>

\* Operation n is sent.
Issue ==
    /\ phase = "issue"
    /\ n < OpCount
    /\ \E a \in 0..unit.blocks - 1, c \in 1..unit.maxBlocks :
         /\ a + c <= unit.blocks
         /\ op' = [kind |-> Kinds[(n % Len(Kinds)) + 1], addr |-> a, cnt |-> c]
    /\ phase' = "wait"
    /\ UNCHANGED <<unit, n>>

\* Operation n is answered and accepted.
Complete ==
    /\ phase = "wait"
    /\ n' = n + 1
    /\ phase' = IF n + 1 < OpCount THEN "issue" ELSE "passed"
    /\ op' = NoOp
    /\ UNCHANGED unit

\* The run ends with an error.
Fail ==
    /\ phase \in {"issue", "wait"}
    /\ phase' = "failed"
    /\ op' = NoOp
    /\ UNCHANGED <<unit, n>>

Next == Start \/ Issue \/ Complete \/ Fail

Spec == Init /\ [][Next]_vars
=============================================================================
