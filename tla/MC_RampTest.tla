---------------------------- MODULE MC_RampTest ----------------------------
(* Small command lines for RampTest: a divisible ramp (10..40 in 3       *)
(* steps), one that does not divide (10..45), a descending one (20..10),  *)
(* one whose step truncates to 0 (50 steps), steps = 0, a negative        *)
(* --steps, and a ladder 20, 21, 22, 23 (20..24 in 3 steps) whose rungs   *)
(* are 5% apart, so that the stale window of one rung is within the 10%   *)
(* threshold of the next and only the fail flag rejects it.  Durations    *)
(* -1, 0, 1 and 2.  A loss of 1 kpkt stays within the 10% threshold for   *)
(* rates >= 10 over 1 s; a loss of 5 does not.                             *)
EXTENDS RampTest

MCBaseRates == {10, 20}
MCTargetRates == {10, 24, 40, 45}
MCStepCounts == {-2, 0, 3, 50}
MCDurations == {-1, 0, 1, 2}
MCLosses == {0, 1, 5}

(* Valid durations only, for the run that looks for an exit with traffic *)
(* running caused by the ramp arithmetic itself.                          *)
MCPositiveDurations == {1, 2}
=============================================================================
