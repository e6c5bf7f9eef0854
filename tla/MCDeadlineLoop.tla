--------------------------- MODULE MCDeadlineLoop ---------------------------
(* Model-checking instance of DeadlineLoop: a 3us period, a 1us budget    *)
(* for the calibration, 7us of clock and an 8-bit u64.                     *)
EXTENDS DeadlineLoop

MCDeadline == 3
MCRuntime == 1
MCMaxTime == 7
MCMaxCycles == 4
MCTimeMod == 256
=============================================================================
