-------------------------- MODULE MCCyclicDeadline --------------------------
(* Model-checking instance of CyclicDeadline: three deadline threads, a    *)
(* cpuset to set up, and a run duration so that alarm() ends the run.      *)
EXTENDS CyclicDeadline

MCN == 3
MCMaxCycles == 2
=============================================================================
