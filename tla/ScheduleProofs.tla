--------------------------- MODULE ScheduleProofs ---------------------------
EXTENDS Schedule, TLAPS

(***************************************************************************)
(* The bounds on the schedule, for every width of unsigned int.  The      *)
(* inductive invariant says that the inputs stay the ones main was given, *)
(* that the loop works with the scaled percent once scaling is done, and  *)
(* that every entry set up so far satisfies both bounds.                  *)
(***************************************************************************)
SInv ==
  /\ nrThreads \in ThreadCounts
  /\ nrCpus \in CpuCounts
  /\ step \in Steps
  /\ interval \in 0..(2^Width - 1)
  /\ sched \in Seq([runtime : Nat, deadline : Nat])
  /\ phase \in {"scale", "threads", "ready", "fatal"}
  /\ phase = "scale" => sched = <<>>
  /\ phase # "scale" => percent = DutyPercent(nrThreads, nrCpus)
  /\ RuntimeWithinDeadline
  /\ UtilizationCap

USE WidthAssumption, ModulusAssumption, InputsAssumption

\* Reducing modulo 2^Width never increases a natural number.
LEMMA ModBelow ==
  ASSUME NEW x \in Nat
  PROVE  U32(x) \in 0..(2^Width - 1) /\ U32(x) <= x
  BY DEF U32

\* The duty percent is at most 80, and its share of the threads fits 80% of the CPUs.
LEMMA DutyPercentBound ==
  ASSUME NEW t \in Nat \ {0}, NEW c \in Nat \ {0}
  PROVE  /\ DutyPercent(t, c) \in 0..80
         /\ DutyPercent(t, c) * t <= 80 * c
<1>1. CASE t > c
  <2>1. DEFINE q == (c * 80) \div t
  <2>2. q \in Nat /\ q * t <= c * 80
    BY <1>1
  <2>3. q < 80
    BY <1>1, <2>2
  <2>4. QED
    BY <1>1, <2>2, <2>3 DEF DutyPercent
<1>2. CASE ~(t > c)
  BY <1>2 DEF DutyPercent
<1>3. QED
  BY <1>1, <1>2

\* Runtime arithmetic: a number at most iv * p, divided by 100, keeps both bounds.
LEMMA RuntimeArith ==
  ASSUME NEW iv \in Nat, NEW p \in 0..80, NEW t \in Nat \ {0}, NEW c \in Nat \ {0},
         p * t <= 80 * c, NEW u \in Nat, u <= iv * p
  PROVE  /\ u \div 100 \in Nat
         /\ u \div 100 <= iv
         /\ (u \div 100) * 100 * t <= iv * 80 * c
<1> DEFINE r == u \div 100
<1>1. r \in Nat /\ r * 100 <= u
  OBVIOUS
<1>2. iv * (80 - p) \in Nat /\ iv * 80 - iv * p = iv * (80 - p)
  OBVIOUS
<1>3. r <= iv
  BY <1>1, <1>2
<1>4. (u - r * 100) * t \in Nat /\ u * t - r * 100 * t = (u - r * 100) * t
  BY <1>1
<1>5. (iv * p - u) * t \in Nat /\ iv * p * t - u * t = (iv * p - u) * t
  OBVIOUS
<1>6. iv * (80 * c - p * t) \in Nat /\ iv * 80 * c - iv * p * t = iv * (80 * c - p * t)
  OBVIOUS
<1>7. QED
  BY <1>1, <1>3, <1>4, <1>5, <1>6

\* A runtime computed from a wrapped product keeps both bounds.
LEMMA RuntimeBounds ==
  ASSUME NEW iv \in Nat, NEW t \in Nat \ {0}, NEW c \in Nat \ {0}
  PROVE  LET r == U32(iv * DutyPercent(t, c)) \div 100
         IN  /\ r \in Nat
             /\ r <= iv
             /\ r * 100 * t <= iv * 80 * c
<1>1. PICK p \in 0..80 : p = DutyPercent(t, c) /\ p * t <= 80 * c
  BY DutyPercentBound
<1>2. PICK u \in Nat : u = U32(iv * p) /\ u <= iv * p
  BY ModBelow
<1>3. QED
  BY <1>1, <1>2, RuntimeArith

LEMMA SInvInit == Init => SInv
  BY DEF Init, SInv, RuntimeWithinDeadline, UtilizationCap

\* Appending an entry that satisfies both bounds keeps them for the sequence.
LEMMA AppendBounds ==
  ASSUME NEW S \in Seq([runtime : Nat, deadline : Nat]),
         NEW e \in [runtime : Nat, deadline : Nat],
         NEW t \in Nat, NEW c \in Nat,
         \A k \in 1..Len(S) : S[k].runtime <= S[k].deadline,
         \A k \in 1..Len(S) : S[k].runtime * 100 * t <= S[k].deadline * 80 * c,
         e.runtime <= e.deadline,
         e.runtime * 100 * t <= e.deadline * 80 * c
  PROVE  LET S2 == Append(S, e)
         IN  /\ S2 \in Seq([runtime : Nat, deadline : Nat])
             /\ \A k \in 1..Len(S2) : S2[k].runtime <= S2[k].deadline
             /\ \A k \in 1..Len(S2) : S2[k].runtime * 100 * t <= S2[k].deadline * 80 * c
<1> DEFINE S2 == Append(S, e)
<1>1. /\ S2 \in Seq([runtime : Nat, deadline : Nat])
      /\ Len(S2) = Len(S) + 1
      /\ \A k \in 1..Len(S) : S2[k] = S[k]
      /\ S2[Len(S) + 1] = e
  OBVIOUS
<1>2. ASSUME NEW k \in 1..Len(S2)
      PROVE  /\ S2[k].runtime <= S2[k].deadline
             /\ S2[k].runtime * 100 * t <= S2[k].deadline * 80 * c
  <2>1. CASE k \in 1..Len(S)
    BY <1>1, <2>1
  <2>2. CASE k = Len(S) + 1
    BY <1>1, <2>2
  <2>3. QED
    BY <1>1, <2>1, <2>2
<1>3. QED
  BY <1>1, <1>2

LEMMA SInvNext == SInv /\ [Next]_vars => SInv'
<1> SUFFICES ASSUME SInv, [Next]_vars PROVE SInv'
  OBVIOUS
<1>1. CASE Scale
  BY <1>1 DEF Scale, SInv, RuntimeWithinDeadline, UtilizationCap
<1>2. CASE Finish
  BY <1>2 DEF Finish, SInv, RuntimeWithinDeadline, UtilizationCap
<1>3. CASE ConfigureThread
  <2>1. PICK writeOk \in BOOLEAN, elapsed \in CalibTimes :
          LET runtime == U32(interval * percent) \div 100
              probe   == runtime < 2000 /\ ~hrtickSet
          IN  /\ hrtickSet' = (hrtickSet \/ runtime < 2000)
              /\ hrtickOn' = IF probe THEN HrtickAfter(features, writeOk) ELSE hrtickOn
              /\ IF (probe /\ ~SetupHrTick(features, writeOk)) \/ elapsed > runtime
                   THEN /\ phase' = "fatal"
                        /\ UNCHANGED <<interval, i, sched>>
                   ELSE /\ sched' = Append(sched, [runtime |-> runtime, deadline |-> interval])
                        /\ interval' = U32(interval + step)
                        /\ i' = i + 1
                        /\ UNCHANGED phase
    BY <1>3 DEF ConfigureThread
  <2> DEFINE runtime == U32(interval * percent) \div 100
  <2>2. /\ phase = "threads"
        /\ percent = DutyPercent(nrThreads, nrCpus)
        /\ UNCHANGED <<nrThreads, nrCpus, step, percent>>
    BY <1>3 DEF ConfigureThread, SInv
  <2>3. /\ nrThreads \in Nat \ {0} /\ nrCpus \in Nat \ {0}
        /\ interval \in Nat /\ step \in Nat
    BY DEF SInv
  <2>4. /\ runtime \in Nat
        /\ runtime <= interval
        /\ runtime * 100 * nrThreads <= interval * 80 * nrCpus
    BY <2>2, <2>3, RuntimeBounds
  <2>5. CASE sched' = Append(sched, [runtime |-> runtime, deadline |-> interval])
             /\ interval' = U32(interval + step) /\ UNCHANGED phase
    <3>1. interval' \in 0..(2^Width - 1)
      <4>1. interval + step \in Nat
        BY <2>3
      <4>2. U32(interval + step) \in 0..(2^Width - 1)
        BY <4>1, ModBelow, Zenon
      <4> QED BY <4>2, <2>5
    <3>2. /\ sched' \in Seq([runtime : Nat, deadline : Nat])
          /\ RuntimeWithinDeadline'
          /\ UtilizationCap'
      <4> DEFINE e == [runtime |-> runtime, deadline |-> interval]
      <4>1. /\ sched \in Seq([runtime : Nat, deadline : Nat])
            /\ \A k \in 1..Len(sched) : sched[k].runtime <= sched[k].deadline
            /\ \A k \in 1..Len(sched) :
                  sched[k].runtime * 100 * nrThreads <= sched[k].deadline * 80 * nrCpus
        BY DEF SInv, RuntimeWithinDeadline, UtilizationCap
      <4>2. /\ e \in [runtime : Nat, deadline : Nat]
            /\ e.runtime <= e.deadline
            /\ e.runtime * 100 * nrThreads <= e.deadline * 80 * nrCpus
        BY <2>3, <2>4
      <4>3. LET S2 == Append(sched, e)
            IN  /\ S2 \in Seq([runtime : Nat, deadline : Nat])
                /\ \A k \in 1..Len(S2) : S2[k].runtime <= S2[k].deadline
                /\ \A k \in 1..Len(S2) :
                      S2[k].runtime * 100 * nrThreads <= S2[k].deadline * 80 * nrCpus
        <5>1. nrThreads \in Nat /\ nrCpus \in Nat
          BY <2>3
        <5> QED BY <5>1, <4>1, <4>2, AppendBounds, ZenonT(60)
      <4>4. UNCHANGED <<nrThreads, nrCpus>> /\ sched' = Append(sched, e)
        BY <2>2, <2>5
      <4> QED BY <4>3, <4>4 DEF RuntimeWithinDeadline, UtilizationCap
    <3>3. QED
      BY <2>2, <2>5, <3>1, <3>2 DEF SInv
  <2>6. CASE phase' = "fatal" /\ UNCHANGED <<interval, i, sched>>
    BY <2>2, <2>6 DEF SInv, RuntimeWithinDeadline, UtilizationCap
  <2>7. QED
    BY <2>1, <2>5, <2>6
<1>4. CASE UNCHANGED vars
  BY <1>4 DEF vars, SInv, RuntimeWithinDeadline, UtilizationCap
<1>5. QED
  BY <1>1, <1>2, <1>3, <1>4 DEF Next

(***************************************************************************)
(* For every width of unsigned int, every -i, -s, thread and CPU count,    *)
(* main sets up no thread whose runtime exceeds its deadline: a product   *)
(* interval * percent that wraps only gets smaller, and percent is at     *)
(* most 80.                                                               *)
(***************************************************************************)
THEOREM RuntimeNeverExceedsDeadline == Spec => []RuntimeWithinDeadline
<1>1. SInv => RuntimeWithinDeadline
  BY DEF SInv
<1>2. QED
  BY <1>1, SInvInit, SInvNext, PTL DEF Spec

(***************************************************************************)
(* For every width and input, each thread's runtime/deadline is within    *)
(* its share of 80% of the CPUs (main's scaling of percent, spec 2), so   *)
(* the cohort never asks for more than 80% of the CPUs when it has more   *)
(* threads than CPUs.                                                     *)
(***************************************************************************)
THEOREM UtilizationWithinCap == Spec => []UtilizationCap
<1>1. SInv => UtilizationCap
  BY DEF SInv
<1>2. QED
  BY <1>1, SInvInit, SInvNext, PTL DEF Spec

=============================================================================
