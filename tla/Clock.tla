-------------------------------- MODULE Clock --------------------------------
(***************************************************************************)
(* The wall clock that the throttling components read, in ticks, and the   *)
(* integer arithmetic on durations and quantities they share.              *)
(***************************************************************************)
EXTENDS Integers

CONSTANT TicksPerSec  \* ticks in a second

ASSUME ClockAssumption == TicksPerSec \in Nat \ {0}

VARIABLE now

Least(a, b) == IF a < b THEN a ELSE b
Greatest(a, b) == IF a > b THEN a ELSE b
CeilDiv(a, b) == (a + b - 1) \div b
RoundDiv(a, b) == (2 * a + b) \div (2 * b)  \* half away from zero, for a >= 0

=============================================================================
