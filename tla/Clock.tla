------------------------------- MODULE Clock -------------------------------
(***************************************************************************)
(* The wall clock the limiter and the quota read through nowFn.  Time is a *)
(* number of ticks; it never goes back.                                    *)
(***************************************************************************)
EXTENDS Naturals

CONSTANT MaxTime  \* bound: the last instant considered

ASSUME ClockAssumption == MaxTime \in Nat

VARIABLE now

Tick == now < MaxTime /\ now' = now + 1
=============================================================================
