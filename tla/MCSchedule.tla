----------------------------- MODULE MCSchedule -----------------------------
(* Model-checking instance of Schedule with a 20-bit unsigned int, so that *)
(* interval * percent wraps for -i 20000 and interval += step wraps for   *)
(* -s 1040000; 81 threads on one CPU make percent 0.                       *)
EXTENDS Schedule

MCWidth == 20
MCIntervals == {1, 1000, 20000}
MCSteps == {500, 1040000}
MCThreadCounts == {1, 3, 5, 81}
MCCpuCounts == {1, 4}
MCCalibTimes == {0, 700}
MCFeatures == [readable : BOOLEAN, dl : {"on", "off", "absent"},
               plain : {"on", "off", "absent"}]
=============================================================================
