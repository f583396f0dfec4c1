----------------------------- MODULE EagerSketch -----------------------------
(***************************************************************************)
(* What lazy aging stands for: a Count-Min Sketch whose every cell a       *)
(* sweeper halves at every interval boundary, and to which a packet adds   *)
(* its bytes.                                                              *)
(*                                                                         *)
(* A packet that read the clock before the boundary and reaches its cell   *)
(* after it arrives late: its bytes are halved with the cell's.  Halving   *)
(* the sum rather than the terms may be worth one byte more.               *)
(***************************************************************************)
EXTENDS Integers, PowersOfTwo

CONSTANTS
  Depth,   \* rows
  Cols,    \* columns
  Lens,    \* packet sizes
  MaxIdx   \* bound: intervals

VARIABLES
  cell,    \* bytes in each cell, as of now
  now_idx  \* the current interval

vars == <<cell, now_idx>>

Init ==
  /\ cell = [r \in 1..Depth |-> [k \in Cols |-> 0]]
  /\ now_idx \in 0..MaxIdx

(* The sweeper. *)
Boundary ==
  /\ now_idx' = now_idx + 1
  /\ cell' = [r \in 1..Depth |-> [k \in Cols |-> cell[r][k] \div 2]]

Add(r, k) ==
  /\ \E n \in Lens, late \in 0..now_idx :
       \E carry \in (IF late = 0 THEN {0} ELSE {0, 1}) :
         cell' = [cell EXCEPT ![r][k] = @ + n \div Pow2[late] + carry]
  /\ UNCHANGED now_idx

Next == Boundary \/ \E r \in 1..Depth, k \in Cols : Add(r, k)

Spec == Init /\ [][Next]_vars

=============================================================================
