---------------------------- MODULE RateContract ----------------------------
(***************************************************************************)
(* What a token bucket promises, without saying how it keeps time, rounds, *)
(* or shares its state between CPUs.                                       *)
(*                                                                         *)
(* Credit accrues at Rate bytes per Unit nanoseconds, never above Burst    *)
(* bytes.  Serving b bytes spends b bytes of credit.  An implementation    *)
(* may lose credit (by rounding a refill down, or by refusing to look at   *)
(* a stale clock), never invent any.                                       *)
(*                                                                         *)
(* credit is in byte x Unit, so that the accrual over one nanosecond,      *)
(* Rate, is an integer.  mark is an observer: it may open a measurement    *)
(* window at any moment, by remembering the clock and the counter.         *)
(***************************************************************************)
EXTENDS Integers

CONSTANTS
  Rate,   \* bytes per Unit nanoseconds
  Burst,  \* bytes
  Unit,   \* nanoseconds in the unit of time of Rate
  Times   \* the clock readings there can be

VARIABLES
  credit,  \* what may still be served, in byte x Unit
  time,    \* the instant up to which credit has accrued
  served,  \* bytes served since the bucket was configured
  mark     \* the open measurement window: when it opened, and served then

vars == <<credit, time, served, mark>>

Full == Burst * Unit

Lower(a, b) == IF a <= b THEN a ELSE b

Init ==
  /\ credit = Full
  /\ time = 0
  /\ served = 0
  /\ mark = [time |-> 0, served |-> 0]

(* Credit accrues up to t, and b bytes are paid from it.  b = 0 is a      *)
(* refusal.  Whatever is left over may be kept or lost.                   *)
Serve ==
  \E t \in Times :
    /\ t >= time
    /\ time' = t
    /\ served' >= served
    /\ credit' >= 0
    /\ credit' + (served' - served) * Unit
         <= Lower(Full, credit + Rate * (t - time))
    /\ UNCHANGED mark

OpenWindow ==
  /\ mark' = [time |-> time, served |-> served]
  /\ UNCHANGED <<credit, time, served>>

Next == Serve \/ OpenWindow

Spec == Init /\ [][Next]_vars

(* Over any window, however it lies relative to bursts and idle periods,  *)
(* at most Burst bytes plus Rate times the length of the window are       *)
(* served.                                                                *)
RateCap ==
  (served - mark.served) * Unit <= Full + Rate * (time - mark.time)

=============================================================================
