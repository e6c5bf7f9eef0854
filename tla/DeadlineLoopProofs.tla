------------------------- MODULE DeadlineLoopProofs -------------------------
(***************************************************************************)
(* Proofs about DeadlineLoop for every period, budget, clock bound and     *)
(* word size allowed by its assumptions.  The inductive invariant adds to  *)
(* the three properties what they need across a step: the types, that the  *)
(* clock never runs behind a recorded sample, that cycles counts the       *)
(* samples, and that main's calibration sample exists once it has run.     *)
(***************************************************************************)
EXTENDS DeadlineLoop, TLAPS

CyclesCounted == stat.cycles = Len(samples)

CalibrationCounted ==
  pc \notin {"calib0", "calib1"} => stat.cycles >= 1

DInv ==
  /\ TypeOK
  /\ CyclesCounted
  /\ CalibrationCounted
  /\ NoNegativeLatency
  /\ NoDrift

\* max is a recorded sample that no sample exceeds (0 before any sample):
\* the witness SeqMax's CHOOSE needs.
MaxRecorded ==
  /\ samples = <<>> => stat.max = 0
  /\ samples # <<>> =>
        /\ \E i \in 1..Len(samples) : stat.max = samples[i]
        /\ \A i \in 1..Len(samples) : samples[i] <= stat.max

\* f satisfies the recursive equation of SeqSum's running sum over s.
IsSum(f, s) == f = [i \in 0..Len(s) |-> IF i = 0 THEN 0 ELSE f[i - 1] + s[i]]

\* The running sum of the samples exists, is unique, and ends at avg: the
\* recursion of SeqSum is unfolded one sample per step of the run.
SumRecorded ==
  /\ \E f : IsSum(f, samples) /\ f[Len(samples)] = stat.avg
  /\ \A f, g : IsSum(f, samples) /\ IsSum(g, samples) => f = g

\* act is the last sample.
LastRecorded == samples # <<>> => stat.act = samples[Len(samples)]

\* The inductive invariant of StatsMatchSamples.
StatsInv ==
  /\ DInv
  /\ MaxRecorded
  /\ SumRecorded
  /\ LastRecorded
-----------------------------------------------------------------------------
USE DeadlineAssumption, RuntimeAssumption, BoundsAssumption, TimeModAssumption

\* Below the word size, u64 arithmetic is exact.
LEMMA U64Exact ==
  ASSUME NEW x \in 0..(TimeMod - 1)
  PROVE  U64(x) = x
  BY DEF U64

(***************************************************************************)
(* do_runtime's resync keeps the difference now - period non-negative, so *)
(* the latency is an exact number between 0 and now.                      *)
(***************************************************************************)
LEMMA LatencyBound ==
  ASSUME NEW p \in Nat, NEW now \in 0..MaxTime
  PROVE  Latency(p, now) \in 0..now
<1>1. Resync(p, now) \in 0..now
  BY DEF Resync
<1>2. now - Resync(p, now) \in 0..(TimeMod - 1)
  BY <1>1
<1>3. QED
  BY <1>1, <1>2, U64Exact DEF Latency

\* Appending a latency keeps every sample within the current clock.
LEMMA AppendSample ==
  ASSUME NEW S \in Seq(0..(TimeMod - 1)), NEW x \in 0..(TimeMod - 1),
         NEW c \in Nat, \A i \in 1..Len(S) : S[i] <= c, x <= c
  PROVE  /\ Append(S, x) \in Seq(0..(TimeMod - 1))
         /\ Len(Append(S, x)) = Len(S) + 1
         /\ \A i \in 1..Len(Append(S, x)) : Append(S, x)[i] <= c
  OBVIOUS

\* One do_runtime call at the current clock keeps types, count and bound.
LEMMA DoRuntimeStep ==
  ASSUME DInv, NEW p \in 0..(TimeMod - 1), DoRuntime(p), clock' = clock
  PROVE  /\ stat' \in Stats
         /\ samples' \in Seq(0..(TimeMod - 1))
         /\ stat'.cycles = Len(samples')
         /\ stat'.cycles >= 1
         /\ \A i \in 1..Len(samples') : samples'[i] <= clock'
<1>1. clock \in 0..MaxTime /\ stat \in Stats /\ samples \in Seq(0..(TimeMod - 1))
  BY DEF DInv, TypeOK
<1>2. Latency(p, clock) \in 0..clock /\ clock <= TimeMod - 1
  BY <1>1, LatencyBound
<1>3. Record(stat, Latency(p, clock)) \in Stats
      /\ Record(stat, Latency(p, clock)).cycles = stat.cycles + 1
  BY <1>1, <1>2 DEF Record, Stats
<1>4. QED
  BY <1>1, <1>2, <1>3, AppendSample
  DEF DoRuntime, DInv, NoNegativeLatency, CyclesCounted

LEMMA DInvInit == Init => DInv
  BY DEF Init, DInv, TypeOK, Stats, CyclesCounted, CalibrationCounted,
         NoNegativeLatency, NoDrift

LEMMA DInvNext == DInv /\ [Next]_vars => DInv'
<1> SUFFICES ASSUME DInv, [Next]_vars PROVE DInv'
  OBVIOUS
<1>0. /\ clock \in 0..MaxTime /\ start \in 0..MaxTime
      /\ period \in 0..(TimeMod - 1) /\ anchor \in 0..MaxTime
      /\ MaxTime + Deadline < TimeMod
  BY DEF DInv, TypeOK
<1>1. CASE Tick
  BY <1>1 DEF Tick, DInv, TypeOK, CyclesCounted, CalibrationCounted,
     NoNegativeLatency, NoDrift
<1>2. CASE CalibStart
  BY <1>2 DEF CalibStart, DInv, TypeOK, CyclesCounted, CalibrationCounted,
     NoNegativeLatency, NoDrift
<1>3. CASE CalibRun
  <2>1. start \in 0..(TimeMod - 1)
    BY <1>0
  <2>2. /\ stat' \in Stats /\ samples' \in Seq(0..(TimeMod - 1))
        /\ stat'.cycles = Len(samples') /\ stat'.cycles >= 1
        /\ \A i \in 1..Len(samples') : samples'[i] <= clock'
    BY <1>3, <2>1, DoRuntimeStep DEF CalibRun
  <2>3. QED
    BY <1>3, <2>2 DEF CalibRun, DInv, TypeOK, CyclesCounted, CalibrationCounted,
       NoNegativeLatency, NoDrift
<1>4. CASE CalibCheck
  BY <1>4 DEF CalibCheck, DInv, TypeOK, CyclesCounted, CalibrationCounted,
     NoNegativeLatency, NoDrift
<1>5. CASE ThreadStart
  <2>1. clock - clock = 0 * Deadline /\ 0 \in 0..(clock - clock)
    BY <1>0
  <2>2. QED
    BY <1>0, <1>5, <2>1 DEF ThreadStart, DInv, TypeOK, CyclesCounted,
       CalibrationCounted, NoNegativeLatency, NoDrift
<1>6. CASE Cycle
  <2>1. /\ stat' \in Stats /\ samples' \in Seq(0..(TimeMod - 1))
        /\ stat'.cycles = Len(samples') /\ stat'.cycles >= 1
        /\ \A i \in 1..Len(samples') : samples'[i] <= clock'
    BY <1>0, <1>6, DoRuntimeStep DEF Cycle
  <2>2. pc = "loop" /\ period >= anchor
    BY <1>6 DEF Cycle, DInv, NoDrift
  <2>6. PICK k \in 0..(period - anchor) : period - anchor = k * Deadline
    BY <1>6 DEF Cycle, DInv, NoDrift
  <2>3. CASE clock < period
    <3>1. clock + Deadline \in 0..(TimeMod - 1)
      BY <1>0
    <3>2. period' = clock + Deadline /\ anchor' = clock
      BY <1>6, <2>3, <3>1, U64Exact DEF Cycle, NextPeriod, Resync
    <3>3. period' \in 0..(TimeMod - 1) /\ anchor' \in 0..MaxTime
          /\ period' >= anchor'
          /\ period' - anchor' = 1 * Deadline /\ 1 \in 0..(period' - anchor')
      BY <1>0, <3>1, <3>2
    <3>4. QED
      BY <1>6, <2>1, <3>3 DEF Cycle, DInv, TypeOK, CyclesCounted,
         CalibrationCounted, NoNegativeLatency, NoDrift
  <2>4. CASE ~(clock < period)
    <3>1. period + Deadline \in 0..(TimeMod - 1)
      BY <1>0, <2>4
    <3>2. period' = period + Deadline /\ anchor' = anchor
      BY <1>6, <2>4, <3>1, U64Exact DEF Cycle, NextPeriod, Resync
    <3>3. period + Deadline - anchor = (k + 1) * Deadline
          /\ k + 1 \in 0..(period + Deadline - anchor)
      BY <1>0, <2>2, <2>6
    <3>4. period' \in 0..(TimeMod - 1) /\ anchor' \in 0..MaxTime
          /\ period' >= anchor'
          /\ period' - anchor' = (k + 1) * Deadline /\ k + 1 \in 0..(period' - anchor')
      BY <1>0, <2>2, <3>1, <3>2, <3>3
    <3>5. QED
      BY <1>6, <2>1, <3>4 DEF Cycle, DInv, TypeOK, CyclesCounted,
         CalibrationCounted, NoNegativeLatency, NoDrift
  <2>5. QED
    BY <2>3, <2>4
<1>7. CASE Stop
  BY <1>7 DEF Stop, DInv, TypeOK, CyclesCounted, CalibrationCounted,
     NoNegativeLatency, NoDrift
<1>8. CASE UNCHANGED vars
  BY <1>8 DEF vars, DInv, TypeOK, CyclesCounted, CalibrationCounted,
     NoNegativeLatency, NoDrift
<1>9. QED
  BY <1>1, <1>2, <1>3, <1>4, <1>5, <1>6, <1>7, <1>8 DEF Next

(***************************************************************************)
(* For every period, budget and word size, no latency do_runtime records  *)
(* (main's calibration sample or a loop iteration) is the u64 wrap of a   *)
(* negative difference: the early-wakeup resync (lines 722-735) keeps     *)
(* every sample between 0 and the time elapsed.                           *)
(***************************************************************************)
THEOREM LatencyNeverNegative == Spec => []NoNegativeLatency
<1>1. DInv => NoNegativeLatency
  BY DEF DInv
<1>2. QED
  BY <1>1, DInvInit, DInvNext, PTL DEF Spec

(***************************************************************************)
(* For every period: late wakeups never shift the period grid; run_deadline *)
(* advances `period` by whole deadlines from the instant of the last      *)
(* resync (do_runtime lines 734-752).                                     *)
(***************************************************************************)
THEOREM PeriodGridKept == Spec => []NoDrift
<1>1. DInv => NoDrift
  BY DEF DInv
<1>2. QED
  BY <1>1, DInvInit, DInvNext, PTL DEF Spec

-----------------------------------------------------------------------------
(***************************************************************************)
(* The statistics of do_runtime (lines 741-749) against the samples.      *)
(***************************************************************************)

\* A number that is one of the samples and bounds them all is SeqMax.
LEMMA SeqMaxIs ==
  ASSUME NEW S \in Seq(Nat), S # <<>>, NEW m,
         \E i \in 1..Len(S) : m = S[i],
         \A i \in 1..Len(S) : S[i] <= m
  PROVE  SeqMax(S) = m
<1> DEFINE P(x) == \A i \in 1..Len(S) : S[i] <= x
           R == {S[i] : i \in 1..Len(S)}
<1>1. m \in R /\ P(m) /\ m \in Nat
  OBVIOUS
<1>2. \A w \in R : P(w) => w = m
  OBVIOUS
<1>3. (CHOOSE x \in R : P(x)) = m
  BY <1>1, <1>2
<1> QED BY <1>3 DEF SeqMax

\* Appending d to the samples, max becomes the larger of max and d.
LEMMA MaxAppend ==
  ASSUME NEW S \in Seq(Nat), NEW d \in Nat, NEW m \in Nat,
         S = <<>> => m = 0,
         S # <<>> => /\ \E i \in 1..Len(S) : m = S[i]
                     /\ \A i \in 1..Len(S) : S[i] <= m
  PROVE  LET T == Append(S, d)
             M == IF d > m THEN d ELSE m
         IN  /\ \E i \in 1..Len(T) : M = T[i]
             /\ \A i \in 1..Len(T) : T[i] <= M
<1> DEFINE T == Append(S, d)
           M == IF d > m THEN d ELSE m
<1>1. CASE S = <<>>
  BY <1>1
<1>2. CASE S # <<>> /\ d > m
  BY <1>2
<1>3. CASE S # <<>> /\ ~(d > m)
  <2>1. PICK j \in 1..Len(S) : m = S[j]
    BY <1>3
  <2>2. j \in 1..Len(T) /\ T[j] = M
    BY <1>3, <2>1
  <2>3. \A i \in 1..Len(T) : T[i] <= M
    BY <1>3
  <2> QED BY <2>2, <2>3
<1> QED BY <1>1, <1>2, <1>3

\* Appending d extends the running sum by one entry, and the extended sum
\* is again the only function that satisfies the equation.
LEMMA SumAppend ==
  ASSUME NEW S \in Seq(Nat), NEW d \in Nat, NEW v,
         \E f : IsSum(f, S) /\ f[Len(S)] = v,
         \A f, g : IsSum(f, S) /\ IsSum(g, S) => f = g
  PROVE  /\ \E f : IsSum(f, Append(S, d)) /\ f[Len(S) + 1] = v + d
         /\ \A f, g : IsSum(f, Append(S, d)) /\ IsSum(g, Append(S, d)) => f = g
<1> DEFINE n == Len(S)
           T == Append(S, d)
<1>0. n \in Nat /\ Len(T) = n + 1 /\ T[n + 1] = d /\ \A i \in 1..n : T[i] = S[i]
  OBVIOUS
<1>1. PICK f : IsSum(f, S) /\ f[n] = v
  OBVIOUS
<1>2. \A i \in 0..n : f[i] = IF i = 0 THEN 0 ELSE f[i - 1] + S[i]
  BY <1>1 DEF IsSum
<1>3. \E h : IsSum(h, T) /\ h[n + 1] = v + d
  <2> DEFINE h == [i \in 0..(n + 1) |-> IF i <= n THEN f[i] ELSE f[n] + d]
  <2>1. \A i \in 0..(n + 1) : h[i] = IF i = 0 THEN 0 ELSE h[i - 1] + T[i]
    <3> SUFFICES ASSUME NEW i \in 0..(n + 1)
                 PROVE  h[i] = IF i = 0 THEN 0 ELSE h[i - 1] + T[i]
      OBVIOUS
    <3>1. CASE i = 0
      BY <3>1, <1>2, <1>0
    <3>2. CASE i \in 1..n
      BY <3>2, <1>2, <1>0
    <3>3. CASE i = n + 1
      BY <3>3, <1>0
    <3> QED BY <3>1, <3>2, <3>3, <1>0
  <2>2. IsSum(h, T)
    BY <2>1, <1>0 DEF IsSum
  <2>3. h[n + 1] = v + d
    BY <1>1, <1>0
  <2> QED BY <2>2, <2>3
<1>4. ASSUME NEW g1, NEW g2, IsSum(g1, T), IsSum(g2, T)
      PROVE  g1 = g2
  <2> DEFINE r1 == [i \in 0..n |-> g1[i]]
             r2 == [i \in 0..n |-> g2[i]]
  <2>1. \A i \in 0..(n + 1) : /\ g1[i] = IF i = 0 THEN 0 ELSE g1[i - 1] + T[i]
                              /\ g2[i] = IF i = 0 THEN 0 ELSE g2[i - 1] + T[i]
    BY <1>4, <1>0 DEF IsSum
  <2>2. IsSum(r1, S) /\ IsSum(r2, S)
    BY <2>1, <1>0 DEF IsSum
  <2>3. r1 = r2
    BY <2>2
  <2>4. DOMAIN g1 = 0..(n + 1) /\ DOMAIN g2 = 0..(n + 1)
    BY <1>4, <1>0 DEF IsSum
  <2>5. \A i \in 0..n : g1[i] = g2[i]
    BY <2>3
  <2>6. g1[n + 1] = g2[n + 1]
    BY <2>1, <2>5, <1>0
  <2>7. \A i \in 0..(n + 1) : g1[i] = g2[i]
    BY <2>5, <2>6
  <2>8. g1 = [i \in 0..(n + 1) |-> g1[i]] /\ g2 = [i \in 0..(n + 1) |-> g2[i]]
    BY <1>4, <1>0 DEF IsSum
  <2> QED BY <2>7, <2>8
<1> QED BY <1>3, <1>4

\* One do_runtime call keeps max, the running sum and act in step with the
\* samples.
LEMMA StatsStep ==
  ASSUME StatsInv, NEW p \in 0..(TimeMod - 1), DoRuntime(p), clock' = clock
  PROVE  MaxRecorded' /\ SumRecorded' /\ LastRecorded'
<1> DEFINE d == Latency(p, clock)
<1>1. clock \in 0..MaxTime /\ stat \in Stats /\ samples \in Seq(0..(TimeMod - 1))
  BY DEF StatsInv, DInv, TypeOK
<1>2. d \in Nat
  BY <1>1, LatencyBound
<1>3. samples \in Seq(Nat) /\ stat.max \in Nat
  BY <1>1 DEF Stats
<1>4. /\ samples' = Append(samples, d)
      /\ stat'.max = IF d > stat.max THEN d ELSE stat.max
      /\ stat'.avg = stat.avg + d
      /\ stat'.act = d
  BY DEF DoRuntime, Record
<1>5. MaxRecorded'
  <2>1. /\ \E i \in 1..Len(Append(samples, d)) :
              (IF d > stat.max THEN d ELSE stat.max) = Append(samples, d)[i]
        /\ \A i \in 1..Len(Append(samples, d)) :
              Append(samples, d)[i] <= (IF d > stat.max THEN d ELSE stat.max)
    BY <1>2, <1>3, MaxAppend DEF StatsInv, MaxRecorded
  <2>2. samples' # <<>>
    BY <1>3, <1>4
  <2> QED BY <2>1, <2>2, <1>4 DEF MaxRecorded
<1>6. SumRecorded'
  <2>1. /\ \E f : IsSum(f, Append(samples, d)) /\ f[Len(samples) + 1] = stat.avg + d
        /\ \A f, g : IsSum(f, Append(samples, d)) /\ IsSum(g, Append(samples, d)) => f = g
    BY <1>2, <1>3, SumAppend DEF StatsInv, SumRecorded
  <2>2. Len(samples') = Len(samples) + 1
    BY <1>3, <1>4
  <2> QED BY <2>1, <2>2, <1>4 DEF SumRecorded
<1>7. LastRecorded'
  BY <1>3, <1>4 DEF LastRecorded
<1> QED BY <1>5, <1>6, <1>7

\* The statistics start at zero with no sample.
LEMMA StatsInvInit == Init => StatsInv
<1> SUFFICES ASSUME Init PROVE StatsInv
  OBVIOUS
<1>1. DInv
  BY DInvInit
<1>2. MaxRecorded /\ LastRecorded
  BY DEF Init, MaxRecorded, LastRecorded
<1>3. SumRecorded
  <2>1. samples = <<>> /\ stat.avg = 0
    BY DEF Init
  <2>2. IsSum([i \in 0..0 |-> 0], samples) /\ [i \in 0..0 |-> 0][0] = stat.avg
    BY <2>1 DEF IsSum
  <2>3. \A f : IsSum(f, samples) => f = [i \in 0..0 |-> 0]
    BY <2>1 DEF IsSum
  <2> QED BY <2>2, <2>3, <2>1 DEF SumRecorded
<1> QED BY <1>1, <1>2, <1>3 DEF StatsInv

\* Only the two calls of do_runtime change the statistics.
LEMMA StatsInvNext == StatsInv /\ [Next]_vars => StatsInv'
<1> SUFFICES ASSUME StatsInv, [Next]_vars PROVE StatsInv'
  OBVIOUS
<1>0. DInv'
  BY DInvNext DEF StatsInv
<1>1. /\ start \in 0..(TimeMod - 1) /\ period \in 0..(TimeMod - 1)
  BY DEF StatsInv, DInv, TypeOK
<1>2. CASE CalibRun
  BY <1>0, <1>1, <1>2, StatsStep DEF CalibRun, StatsInv
<1>3. CASE Cycle
  BY <1>0, <1>1, <1>3, StatsStep DEF Cycle, StatsInv
<1>4. CASE UNCHANGED <<stat, samples>>
  BY <1>0, <1>4 DEF StatsInv, MaxRecorded, SumRecorded, LastRecorded
<1> QED BY <1>2, <1>3, <1>4
  DEF Next, vars, Tick, CalibStart, CalibCheck, ThreadStart, Stop

(***************************************************************************)
(* For every period and word size, the statistics do_runtime keeps        *)
(* (lines 741-749) agree with the samples it was handed: cycles counts    *)
(* them, max is the largest, avg is their sum and act the last.  The      *)
(* recursion of SeqSum is unfolded one sample per step: the invariant     *)
(* carries the running sum together with its uniqueness.                  *)
(***************************************************************************)
THEOREM StatsExact == Spec => []StatsMatchSamples
<1>1. StatsInv => StatsMatchSamples
  <2> SUFFICES ASSUME StatsInv PROVE StatsMatchSamples
    OBVIOUS
  <2>1. samples \in Seq(Nat) /\ stat.cycles = Len(samples)
    BY DEF StatsInv, DInv, TypeOK, CyclesCounted
  <2>2. stat.max = SeqMax(samples)
    <3>1. CASE samples = <<>>
      BY <3>1 DEF StatsInv, MaxRecorded, SeqMax
    <3>2. CASE samples # <<>>
      BY <2>1, <3>2, SeqMaxIs DEF StatsInv, MaxRecorded
    <3> QED BY <3>1, <3>2
  <2>3. stat.avg = SeqSum(samples)
    <3>1. PICK f : IsSum(f, samples) /\ f[Len(samples)] = stat.avg
      BY DEF StatsInv, SumRecorded
    <3>2. IsSum(CHOOSE h : IsSum(h, samples), samples)
      BY <3>1
    <3>3. (CHOOSE h : IsSum(h, samples)) = f
      BY <3>1, <3>2 DEF StatsInv, SumRecorded
    <3>4. SeqSum(samples) = (CHOOSE h : IsSum(h, samples))[Len(samples)]
      BY DEF SeqSum, IsSum
    <3> QED BY <3>1, <3>3, <3>4
  <2>4. samples # <<>> => stat.act = samples[Len(samples)]
    BY DEF StatsInv, LastRecorded
  <2> QED BY <2>1, <2>2, <2>3, <2>4 DEF StatsMatchSamples
<1> QED BY <1>1, StatsInvInit, StatsInvNext, PTL DEF Spec
=============================================================================
