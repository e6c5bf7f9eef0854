---------------------------- MODULE DeadlineLoop ----------------------------
(***************************************************************************)
(* One deadline thread's period tracking and statistics                    *)
(* (cyclicdeadline.c: do_runtime, run_deadline's loop, and main's          *)
(* calibration call of do_runtime on the thread's sched_data).             *)
(*                                                                         *)
(* Time is the monotonic clock in microseconds, advanced by the            *)
(* environment; u64 arithmetic is taken modulo TimeMod.  The barrier       *)
(* protocol between calibration and the first period is module             *)
(* CyclicDeadline; here it is the single step ThreadStart.                 *)
(***************************************************************************)
EXTENDS Naturals, Sequences

CONSTANTS
  Deadline,   \* sd->deadline_us: the period
  Runtime,    \* sd->runtime_us: the budget the calibration must meet
  MaxTime,    \* bound on the clock
  MaxCycles,  \* bound on recorded cycles
  TimeMod     \* 2^64 for u64, a smaller power of two in a model

ASSUME DeadlineAssumption == Deadline \in Nat \ {0}
ASSUME RuntimeAssumption == Runtime \in Nat
ASSUME BoundsAssumption == MaxTime \in Nat /\ MaxCycles \in Nat
ASSUME TimeModAssumption == TimeMod \in Nat /\ MaxTime + Deadline < TimeMod

VARIABLES
  clock,    \* CLOCK_MONOTONIC_RAW in us (get_time_us)
  pc,       \* "calib0", "calib1", "calib2", "fatal", "start", "loop", "stopped"
  start,    \* main's start_period for the calibration
  period,   \* run_deadline's `period`: the intended start of this period
  stat,     \* struct thread_stat: cycles, min, max, act, avg (as a sum)
  samples,  \* history: every diff handed to the statistics, in order
  anchor    \* history: the instant the current period grid started from

vars == <<clock, pc, start, period, stat, samples, anchor>>

U64(x) == x % TimeMod

Stats == [cycles : Nat, min : Nat, max : Nat, act : Nat, avg : Nat]

\* sched_data is calloc'ed (line 1166): every field starts at zero.
Init ==
  /\ clock = 0
  /\ pc = "calib0"
  /\ start = 0
  /\ period = 0
  /\ stat = [cycles |-> 0, min |-> 0, max |-> 0, act |-> 0, avg |-> 0]
  /\ samples = <<>>
  /\ anchor = 0

(***************************************************************************)
(* do_runtime(tid, sd, p) read at time `now`: a period that has not yet    *)
(* begun is snapped back to now (lines 722-735), the latency is            *)
(* now - period, and the next period starts a deadline later.              *)
(***************************************************************************)
\* Mutant: the early-wakeup branch of do_runtime is missing.
ResyncNever(p, now) == p
\* Mutant: the next period is counted from the wakeup, not the period.
NextPeriodFromNow(p, now) == U64(now + Deadline)

Resync(p, now) == IF now < p THEN now ELSE p
Latency(p, now) == U64(now - Resync(p, now))
NextPeriod(p, now) == U64(Resync(p, now) + Deadline)

\* Mutant: the max update compares against min (copy-paste slip).
RecordMaxVsMin(st, diff) ==
  [cycles |-> st.cycles + 1,
   min    |-> IF st.min = 0 \/ diff < st.min THEN diff ELSE st.min,
   max    |-> IF diff > st.min THEN diff ELSE st.max,
   act    |-> diff,
   avg    |-> st.avg + diff]

\* The statistics update of do_runtime, lines 741-749.  min == 0 means
\* "not set yet".
Record(st, diff) ==
  [cycles |-> st.cycles + 1,
   min    |-> IF st.min = 0 \/ diff < st.min THEN diff ELSE st.min,
   max    |-> IF diff > st.max THEN diff ELSE st.max,
   act    |-> diff,
   avg    |-> st.avg + diff]

\* One call of do_runtime on this thread's sched_data.
DoRuntime(p) ==
  /\ stat' = Record(stat, Latency(p, clock))
  /\ samples' = Append(samples, Latency(p, clock))

\* The clock advances.
Tick ==
  /\ clock < MaxTime
  /\ clock' = clock + 1
  /\ UNCHANGED <<pc, start, period, stat, samples, anchor>>

\* start_period = get_time_us() (line 1202)
CalibStart ==
  /\ pc = "calib0"
  /\ start' = clock
  /\ pc' = "calib1"
  /\ UNCHANGED <<clock, period, stat, samples, anchor>>

\* do_runtime(gettid(), sd, start_period) run by main (line 1203)
CalibRun ==
  /\ pc = "calib1"
  /\ DoRuntime(start)
  /\ pc' = "calib2"
  /\ UNCHANGED <<clock, start, period, anchor>>

\* end_period = get_time_us(); fatal if the run took more than runtime_us.
CalibCheck ==
  /\ pc = "calib2"
  /\ pc' = IF U64(clock - start) > Runtime THEN "fatal" ELSE "start"
  /\ UNCHANGED <<clock, start, period, stat, samples, anchor>>

\* After the barriers: sched_yield(); period = get_time_us() (line 798).
ThreadStart ==
  /\ pc = "start"
  /\ period' = clock
  /\ anchor' = clock
  /\ pc' = "loop"
  /\ UNCHANGED <<clock, start, stat, samples>>

\* period = do_runtime(tid, sd, period); sched_yield();
Cycle ==
  /\ pc = "loop"
  /\ stat.cycles < MaxCycles
  /\ DoRuntime(period)
  /\ period' = NextPeriod(period, clock)
  /\ anchor' = IF clock < period THEN clock ELSE anchor
  /\ UNCHANGED <<clock, pc, start>>

\* The loop observes shutdown.
Stop ==
  /\ pc = "loop"
  /\ pc' = "stopped"
  /\ UNCHANGED <<clock, start, period, stat, samples, anchor>>

Next ==
  \/ Tick
  \/ CalibStart
  \/ CalibRun
  \/ CalibCheck
  \/ ThreadStart
  \/ Cycle
  \/ Stop

Spec == Init /\ [][Next]_vars

-----------------------------------------------------------------------------
TypeOK ==
  /\ clock \in 0..MaxTime
  /\ pc \in {"calib0", "calib1", "calib2", "fatal", "start", "loop", "stopped"}
  /\ start \in 0..MaxTime
  /\ period \in 0..(TimeMod - 1)
  /\ stat \in Stats
  /\ samples \in Seq(0..(TimeMod - 1))
  /\ anchor \in 0..MaxTime

SeqMax(s) == IF s = <<>> THEN 0
             ELSE CHOOSE m \in {s[i] : i \in 1..Len(s)} :
                    \A i \in 1..Len(s) : s[i] <= m
SeqMin(s) == CHOOSE m \in {s[i] : i \in 1..Len(s)} :
               \A i \in 1..Len(s) : m <= s[i]
SeqSum(s) ==
  LET sum[i \in 0..Len(s)] == IF i = 0 THEN 0 ELSE sum[i - 1] + s[i]
  IN  sum[Len(s)]

(***************************************************************************)
(* No recorded latency is negative: a thread woken before its intended    *)
(* period start is resynchronised (spec 8), so no sample is a u64 wrap    *)
(* of a negative difference; every sample is at most the time elapsed.    *)
(***************************************************************************)
NoNegativeLatency ==
  \A i \in 1..Len(samples) : samples[i] <= clock

(***************************************************************************)
(* A late wakeup does not move the period grid: between resyncs, the      *)
(* intended period starts stay a whole number of deadlines after the      *)
(* instant the grid started from.                                         *)
(***************************************************************************)
NoDrift ==
  pc = "loop" => /\ period >= anchor
                 /\ \E k \in 0..(period - anchor) : period - anchor = k * Deadline

(***************************************************************************)
(* cycles, max, act and the running sum behind avg summarise exactly the  *)
(* samples handed to the statistics, including main's calibration run.    *)
(***************************************************************************)
StatsMatchSamples ==
  /\ stat.cycles = Len(samples)
  /\ stat.max = SeqMax(samples)
  /\ stat.avg = SeqSum(samples)
  /\ samples # <<>> => stat.act = samples[Len(samples)]

(***************************************************************************)
(* Spec 4.4/8: min is the smallest latency recorded.                      *)
(***************************************************************************)
MinIsMinimum ==
  samples # <<>> => stat.min = SeqMin(samples)

=============================================================================
