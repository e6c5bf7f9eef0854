------------------------------ MODULE Schedule ------------------------------
(***************************************************************************)
(* The per-thread schedule main computes before any thread exists          *)
(* (cyclicdeadline.c lines 1170-1213): the duty percent, each thread's     *)
(* runtime and deadline, the HRTICK probe for runtimes under 2 ms          *)
(* (setup_hr_tick) and the calibration check.                              *)
(*                                                                         *)
(* `interval`, `step` and the product interval * percent are C `unsigned   *)
(* int`: arithmetic on them is taken modulo 2^Width.  The calibration run  *)
(* itself is module DeadlineLoop; here its measured time is an input.      *)
(* The sched_features file is abstracted to whether it can be read and     *)
(* how it lists HRTICK_DL and HRTICK: "on", "off" (NO_...) or "absent".    *)
(***************************************************************************)
EXTENDS Integers, Sequences

CONSTANTS
  Width,         \* bits of unsigned int (32 on the targets)
  Intervals,     \* values of -i (default 1000)
  Steps,         \* values of -s (default 500)
  ThreadCounts,  \* values of nr_threads
  CpuCounts,     \* values of nr_cpus
  CalibTimes,    \* end_period - start_period of a calibration run, in us
  Features       \* the possible sched_features files

ASSUME WidthAssumption == Width \in Nat \ {0}
\* 2^Width is a positive number (a fact about ^ that needs induction to prove).
ASSUME ModulusAssumption == 2^Width \in Nat \ {0}
ASSUME InputsAssumption ==
  /\ Intervals \subseteq 0..(2^Width - 1)
  /\ Steps \subseteq 0..(2^Width - 1)
  /\ ThreadCounts \subseteq Nat \ {0}
  /\ CpuCounts \subseteq Nat \ {0}
  /\ CalibTimes \subseteq Nat
  /\ Features \subseteq [readable : BOOLEAN,
                         dl : {"on", "off", "absent"},
                         plain : {"on", "off", "absent"}]

U32(x) == x % (2^Width)

VARIABLES
  nrThreads, nrCpus,  \* inputs
  base, step,         \* -i and -s as given
  interval,           \* main's `interval`, advanced by step per thread
  percent,            \* main's `percent`
  i,                  \* loop index
  sched,              \* runtime_us / deadline_us of the threads set up so far
  features,           \* the sched_features file
  hrtickSet,          \* setup_hr_tick's `static int set`
  hrtickOn,           \* history: HRTICK (or HRTICK_DL) is enabled in the kernel
  phase               \* "scale", "threads", "ready", "fatal"

vars == <<nrThreads, nrCpus, base, step, interval, percent, i, sched,
          features, hrtickSet, hrtickOn, phase>>

\* The feature as the kernel has it before the program writes anything.
FeatureOn(f) == f.dl = "on" \/ (f.dl = "absent" /\ f.plain = "on")

Init ==
  /\ nrThreads \in ThreadCounts
  /\ nrCpus \in CpuCounts
  /\ base \in Intervals
  /\ step \in Steps
  /\ interval = base
  /\ percent = 60
  /\ i = 0
  /\ sched = <<>>
  /\ features \in Features
  /\ hrtickSet = FALSE
  /\ hrtickOn = FeatureOn(features)
  /\ phase = "scale"

\* Mutant: the scaling for more threads than CPUs is missing.
DutyPercentUnscaled(threads, cpus) == 60
\* Mutant: the ratio is inverted.
DutyPercentSwapped(threads, cpus) ==
  IF threads > cpus THEN (threads * 80) \div cpus ELSE 60

\* percent = nr_cpus * 80 / nr_threads when there are more threads than CPUs.
DutyPercent(threads, cpus) ==
  IF threads > cpus THEN (cpus * 80) \div threads ELSE 60

Scale ==
  /\ phase = "scale"
  /\ percent' = DutyPercent(nrThreads, nrCpus)
  /\ phase' = "threads"
  /\ UNCHANGED <<nrThreads, nrCpus, base, step, interval, i, sched,
                 features, hrtickSet, hrtickOn>>

(***************************************************************************)
(* setup_hr_tick's result on a first call (the static `set` short-cuts     *)
(* later ones to 1), with writeOk the outcome of its write: 0 when the     *)
(* file cannot be found, opened or read; the write's success when it       *)
(* finds NO_HRTICK_DL, or, without any HRTICK_DL, NO_HRTICK; else 1.       *)
(***************************************************************************)
SetupHrTick(f, writeOk) ==
  /\ f.readable
  /\ \/ f.dl = "on"
     \/ f.dl = "off" /\ writeOk
     \/ f.dl = "absent" /\ (f.plain # "off" \/ writeOk)

\* Whether HRTICK is enabled once the probe wrote what it writes.
HrtickAfter(f, writeOk) ==
  \/ FeatureOn(f)
  \/ f.readable /\ writeOk /\ (f.dl = "off" \/ (f.dl = "absent" /\ f.plain = "off"))

(***************************************************************************)
(* One iteration of the set-up loop: runtime = interval * percent / 100 in *)
(* unsigned int; under 2000 us HRTICK must be available or main is fatal;  *)
(* the calibration must finish within runtime_us or main is fatal; then    *)
(* interval += step.                                                       *)
(***************************************************************************)
ConfigureThread ==
  /\ phase = "threads"
  /\ i < nrThreads
  /\ \E writeOk \in BOOLEAN, elapsed \in CalibTimes :
       LET runtime == U32(interval * percent) \div 100
           probe   == runtime < 2000 /\ ~hrtickSet
       IN  /\ hrtickSet' = (hrtickSet \/ runtime < 2000)
           /\ hrtickOn' = IF probe THEN HrtickAfter(features, writeOk) ELSE hrtickOn
           /\ IF (probe /\ ~SetupHrTick(features, writeOk)) \/ elapsed > runtime
                THEN /\ phase' = "fatal"
                     /\ UNCHANGED <<interval, i, sched>>
                ELSE /\ sched' = Append(sched, [runtime |-> runtime, deadline |-> interval])
                     /\ interval' = U32(interval + step)
                     /\ i' = i + 1
                     /\ UNCHANGED phase
  /\ UNCHANGED <<nrThreads, nrCpus, base, step, percent, features>>

\* pthread_barrier_init and thread creation follow (module CyclicDeadline).
Finish ==
  /\ phase = "threads"
  /\ i = nrThreads
  /\ phase' = "ready"
  /\ UNCHANGED <<nrThreads, nrCpus, base, step, interval, percent, i, sched,
                 features, hrtickSet, hrtickOn>>

Next == Scale \/ ConfigureThread \/ Finish

Spec == Init /\ [][Next]_vars

-----------------------------------------------------------------------------
TypeOK ==
  /\ interval \in 0..(2^Width - 1)
  /\ percent \in Nat
  /\ i \in Nat
  /\ sched \in Seq([runtime : Nat, deadline : 0..(2^Width - 1)])
  /\ hrtickSet \in BOOLEAN
  /\ hrtickOn \in BOOLEAN
  /\ phase \in {"scale", "threads", "ready", "fatal"}

(***************************************************************************)
(* No thread asks for more runtime than its deadline, even when            *)
(* interval * percent wraps in unsigned int (a wrapped product is smaller, *)
(* and percent never exceeds 100).                                         *)
(***************************************************************************)
RuntimeWithinDeadline ==
  \A k \in 1..Len(sched) : sched[k].runtime <= sched[k].deadline

(***************************************************************************)
(* Spec 2: with more threads than CPUs the requested utilization stays    *)
(* within 80% of the CPUs: every thread's runtime/deadline is at most its *)
(* share 0.8 * nr_cpus / nr_threads, so their sum is at most              *)
(* 0.8 * nr_cpus (with fewer threads than CPUs, 60% each is within it).   *)
(***************************************************************************)
UtilizationCap ==
  \A k \in 1..Len(sched) :
    sched[k].runtime * 100 * nrThreads <= sched[k].deadline * 80 * nrCpus

(***************************************************************************)
(* Spec 2 and 9: thread k's deadline is base + k * step and its runtime is *)
(* deadline * percent / 100.                                               *)
(***************************************************************************)
ScheduleExact ==
  \A k \in 1..Len(sched) :
    /\ sched[k].deadline = base + (k - 1) * step
    /\ sched[k].runtime = (sched[k].deadline * percent) \div 100

(***************************************************************************)
(* Spec 7: a run needing runtimes under 2 ms without short-period          *)
(* scheduling support (HRTICK) is fatal; so a thread is set up with such a *)
(* runtime only once HRTICK is enabled.                                    *)
(***************************************************************************)
HrtickRequired ==
  \A k \in 1..Len(sched) : sched[k].runtime < 2000 => hrtickOn

=============================================================================
