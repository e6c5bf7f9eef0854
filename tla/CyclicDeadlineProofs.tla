------------------------ MODULE CyclicDeadlineProofs ------------------------
(***************************************************************************)
(* Proofs about CyclicDeadline, for every number of threads N.             *)
(*                                                                         *)
(* The barrier is what makes MeasureOnlyWhenAllApplied true, so the        *)
(* inductive invariant says what the barrier guarantees: every thread has  *)
(* passed the same number of barriers (Lockstep).  A release needs N+1     *)
(* arrivals, and since there are only N+1 threads, a release moves all of  *)
(* them at once.  With Lockstep, a worker in its measurement loop knows    *)
(* every worker passed the third barrier, i.e. applied SCHED_DEADLINE or   *)
(* failed, and a failure set shutdown, which stops the loop.               *)
(***************************************************************************)
EXTENDS CyclicDeadline, FiniteSetTheorems, TLAPS

WaitingAtBarrier == \A q \in waiting : pc[q] \in BarrierSites

Lockstep == \A q \in Procs : Passed(pc[q]) = Passed(pc[Main])

FailedSetShutdown ==
  \A w \in Workers : pc[w] \in {"w_b1f", "failed1", "w_b3f", "failed3"} => shutdown

AppliedPcs == applied = {w \in Workers : pc[w] \in {"w_b3", "w_loop", "done"}}

CyclesInLoop ==
  \A w \in Workers : cycles[w] > 0 => pc[w] \in {"w_loop", "done"}

TypeInv == TypeOK /\ WaitingAtBarrier

IInv ==
  /\ TypeInv
  /\ Lockstep
  /\ FailedSetShutdown
  /\ AppliedPcs
  /\ CyclesInLoop
  /\ MeasureOnlyWhenAllApplied

-----------------------------------------------------------------------------
USE NAssumption, MaxCyclesAssumption, FlagsAssumption

LEMMA ProcsFacts ==
  /\ Main \in Procs
  /\ Workers \subseteq Procs
  /\ Procs = Workers \cup {Main}
  /\ Main \notin Workers
  /\ IsFiniteSet(Procs)
  /\ Cardinality(Procs) = Parties
<1>1. IsFiniteSet(0..N) /\ Cardinality(0..N) = N - 0 + 1
  BY FS_Interval
<1>2. QED
  BY <1>1 DEF Main, Workers, Procs, Parties

\* A release needs Parties arrivals, so it releases every thread.
LEMMA ReleaseAll ==
  ASSUME NEW p \in Procs, waiting \subseteq Procs, p \notin waiting,
         Cardinality(waiting) + 1 = Parties
  PROVE  waiting \cup {p} = Procs
<1>1. IsFiniteSet(waiting)
  BY ProcsFacts, FS_Subset
<1>2. Cardinality(waiting \cup {p}) = Cardinality(Procs)
  BY <1>1, ProcsFacts, FS_AddElement
<1>3. QED
  BY <1>2, ProcsFacts, FS_Subset

LEMMA AfterBarrierFacts ==
  ASSUME NEW l \in BarrierSites
  PROVE  /\ Passed(AfterBarrier(l)) = Passed(l) + 1
         /\ l \in WorkerLabels => AfterBarrier(l) \in WorkerLabels
         /\ l \in MainLabels => AfterBarrier(l) \in MainLabels
  BY DEF BarrierSites, AfterBarrier, Passed, WorkerLabels, MainLabels

-----------------------------------------------------------------------------
(***************************************************************************)
(* Type correctness: the control points, the barrier's waiting set, the   *)
(* flags and the counters keep their types in every step of the startup,  *)
(* the loop and the shutdown.                                             *)
(***************************************************************************)
LEMMA TypeInvInit == Init => TypeInv
<1> SUFFICES ASSUME Init PROVE TypeInv
  OBVIOUS
<1>1. pc \in [Procs -> WorkerLabels \cup MainLabels]
  BY ProcsFacts DEF Init, WorkerLabels, MainLabels
<1>2. pc[Main] \in MainLabels
  BY ProcsFacts DEF Init, MainLabels
<1>3. \A w \in Workers : pc[w] \in WorkerLabels
  BY ProcsFacts DEF Init, WorkerLabels
<1>4. cycles \in [Workers -> 0..MaxCycles]
  BY DEF Init
<1>5. QED
  BY <1>1, <1>2, <1>3, <1>4 DEF Init, TypeInv, TypeOK, WaitingAtBarrier, Statuses

LEMMA TypeInvNext == TypeInv /\ [Next]_vars => TypeInv'
<1> SUFFICES ASSUME TypeInv, [Next]_vars PROVE TypeInv'
  OBVIOUS
<1> USE ProcsFacts DEF TypeInv, TypeOK, WaitingAtBarrier, WorkerLabels,
                       MainLabels, Statuses
<1>1. ASSUME NEW w \in Workers, CreateThread(w) PROVE TypeInv'
  <2>1. PICK outcome \in {"w_start", "nothread"} :
          pc' = [pc EXCEPT ![w] = outcome,
                           ![Main] = IF w = N THEN "m_b1" ELSE "m_create"]
    BY <1>1 DEF CreateThread
  <2>2. pc'[Main] \in MainLabels /\ \A v \in Workers : pc'[v] \in WorkerLabels
    BY <2>1
  <2>3. \A q \in waiting : q # w /\ q # Main
    BY <1>1 DEF CreateThread, BarrierSites
  <2>4. WaitingAtBarrier'
    BY <1>1, <2>1, <2>3 DEF CreateThread
  <2>5. QED
    BY <1>1, <2>1, <2>2, <2>4 DEF CreateThread
<1>2. ASSUME NEW p \in Procs, BarrierWait(p) PROVE TypeInv'
  <2>1. CASE /\ Cardinality(waiting) + 1 < Parties
             /\ waiting' = waiting \cup {p}
             /\ UNCHANGED pc
    BY <1>2, <2>1 DEF BarrierWait
  <2>2. CASE /\ Cardinality(waiting) + 1 = Parties
             /\ waiting' = {}
             /\ pc' = [q \in Procs |-> IF q \in waiting \cup {p}
                                       THEN AfterBarrier(pc[q]) ELSE pc[q]]
    <3>1. \A q \in waiting \cup {p} : pc[q] \in BarrierSites
      BY <1>2 DEF BarrierWait
    <3>2. pc'[Main] \in MainLabels
      BY <2>2, <3>1, AfterBarrierFacts
    <3>3. \A w \in Workers : pc'[w] \in WorkerLabels
      BY <2>2, <3>1, AfterBarrierFacts
    <3>4. pc' \in [Procs -> WorkerLabels \cup MainLabels]
      BY <2>2, <3>2, <3>3
    <3>5. QED
      BY <1>2, <2>2, <3>2, <3>3, <3>4 DEF BarrierWait
  <2>3. QED
    BY <1>2, <2>1, <2>2 DEF BarrierWait
<1>3. ASSUME NEW w \in Workers, ThreadStart(w) PROVE TypeInv'
  <2>1. pc[w] = "w_start" /\ UNCHANGED <<waiting, applied, cycles, status>>
        /\ tidSet' = tidSet \cup {w}
    BY <1>3 DEF ThreadStart, TidPublish
  <2>2. \A q \in waiting : q # w
    BY <2>1 DEF BarrierSites
  <2>3. CASE pc' = [pc EXCEPT ![w] = "w_b1"] /\ UNCHANGED shutdown
    BY <1>3, <2>1, <2>2, <2>3 DEF ThreadStart
  <2>4. CASE GetattrFailPath(w)
    BY <1>3, <2>1, <2>2, <2>4 DEF ThreadStart, GetattrFailPath
  <2>5. QED
    BY <1>3, <2>3, <2>4 DEF ThreadStart
<1>4. ASSUME NEW w \in Workers, SchedSetattr(w) PROVE TypeInv'
  <2>1. pc[w] = "w_set" /\ UNCHANGED <<waiting, tidSet, cycles, status>>
    BY <1>4 DEF SchedSetattr
  <2>2. \A q \in waiting : q # w
    BY <2>1 DEF BarrierSites
  <2>3. CASE pc' = [pc EXCEPT ![w] = "w_b3"] /\ applied' = applied \cup {w}
             /\ UNCHANGED shutdown
    BY <1>4, <2>1, <2>2, <2>3 DEF SchedSetattr
  <2>4. CASE SetattrFailPath(w)
    BY <1>4, <2>1, <2>2, <2>4 DEF SchedSetattr, SetattrFailPath
  <2>5. QED
    BY <1>4, <2>3, <2>4 DEF SchedSetattr
<1>5. ASSUME NEW w \in Workers, Measure(w) PROVE TypeInv'
  BY <1>5 DEF Measure
<1>6. ASSUME NEW w \in Workers, WorkerLoopExit(w) PROVE TypeInv'
  BY <1>6 DEF WorkerLoopExit, BarrierSites
<1>7. CASE CheckStep1
  <2>1. pc[Main] = "m_chk1" /\ \A q \in waiting : q # Main
    BY <1>7 DEF CheckStep1, BarrierSites
  <2>2. CASE shutdown
    BY <1>7, <2>2 DEF CheckStep1, Exit
  <2>3. CASE ~shutdown
    BY <1>7, <2>1, <2>3 DEF CheckStep1
  <2>4. QED
    BY <2>2, <2>3
<1>8. CASE MakeCpusets
  <2>1. pc[Main] = "m_cpuset" /\ \A q \in waiting : q # Main
    BY <1>8 DEF MakeCpusets, BarrierSites
  <2>2. MovedPids \subseteq Workers
    BY DEF MovedPids
  <2>3. ASSUME NEW ok \in SUBSET MovedPids,
               pc' = [pc EXCEPT ![Main] = "m_b2"],
               cpusets' = TRUE,
               moved' = ok,
               UNCHANGED <<waiting, shutdown, tidSet, applied, cycles, status, alarmArmed>>
        PROVE  TypeInv'
    BY <1>8, <2>1, <2>2, <2>3
  <2>4. CASE Exit("fail")
    BY <2>4 DEF Exit
  <2>5. QED
    BY <1>8, <2>3, <2>4 DEF MakeCpusets
<1>9. CASE CheckStep2
  <2>1. pc[Main] = "m_chk2" /\ \A q \in waiting : q # Main
    BY <1>9 DEF CheckStep2, BarrierSites
  <2>2. CASE shutdown
    BY <1>9, <2>2 DEF CheckStep2, Exit
  <2>3. CASE ~shutdown
    BY <1>9, <2>1, <2>3 DEF CheckStep2
  <2>4. QED
    BY <2>2, <2>3
<1>10. CASE InstallSignals
  BY <1>10 DEF InstallSignals, BarrierSites
<1>11. CASE MainLoopExit
  BY <1>11 DEF MainLoopExit, BarrierSites
<1>12. CASE JoinAll
  BY <1>12 DEF JoinAll, Exit
<1>13. CASE Signal
  BY <1>13 DEF Signal
<1>14. CASE Alarm
  BY <1>14 DEF Alarm
<1>15. CASE UNCHANGED vars
  BY <1>15 DEF vars
<1>16. QED
  BY <1>1, <1>2, <1>3, <1>4, <1>5, <1>6, <1>7, <1>8, <1>9, <1>10, <1>11,
     <1>12, <1>13, <1>14, <1>15 DEF Next, Worker, MainThread

THEOREM TypeCorrect == Spec => []TypeOK
<1>1. Init => TypeInv
  BY TypeInvInit
<1>2. TypeInv /\ [Next]_vars => TypeInv'
  BY TypeInvNext
<1>3. TypeInv => TypeOK
  BY DEF TypeInv
<1>4. QED
  BY <1>1, <1>2, <1>3, PTL DEF Spec

-----------------------------------------------------------------------------
AppliedLabels == {"w_b3", "w_loop", "done"}
FailLabels == {"w_b1f", "failed1", "w_b3f", "failed3"}

\* What a barrier release does to the labels the invariant is about.
LEMMA ReleaseLabels ==
  ASSUME NEW l \in BarrierSites
  PROVE  /\ (AfterBarrier(l) \in AppliedLabels) <=> (l \in AppliedLabels)
         /\ AfterBarrier(l) \in FailLabels => l \in FailLabels
         /\ l \notin {"w_loop", "done"}
  BY DEF BarrierSites, AfterBarrier, AppliedLabels, FailLabels

\* The labels a worker can be at once it has passed all three barriers.
LEMMA PassedThree ==
  ASSUME NEW l \in WorkerLabels, Passed(l) = 3
  PROVE  l \in {"w_loop", "done", "failed3"}
  BY DEF WorkerLabels, Passed

(***************************************************************************)
(* The heart of the argument: a worker in its loop while shutdown is      *)
(* clear means every worker has applied SCHED_DEADLINE.                   *)
(***************************************************************************)
LEMMA LoopImpliesApplied ==
  ASSUME IInv, ~shutdown, NEW w \in Workers, pc[w] = "w_loop"
  PROVE  applied = Workers
<1> USE ProcsFacts
<1>1. Passed(pc[Main]) = 3
  BY DEF IInv, Lockstep, Passed
<1>2. ASSUME NEW v \in Workers PROVE pc[v] \in {"w_loop", "done"}
  <2>1. pc[v] \in WorkerLabels /\ Passed(pc[v]) = 3
    BY <1>1 DEF IInv, Lockstep, TypeInv, TypeOK
  <2>2. pc[v] # "failed3"
    BY DEF IInv, FailedSetShutdown
  <2>3. QED
    BY <2>1, <2>2, PassedThree
<1>3. QED
  BY <1>2 DEF IInv, AppliedPcs, TypeInv, TypeOK

LEMMA IInvInit == Init => IInv
<1> SUFFICES ASSUME Init PROVE IInv
  OBVIOUS
<1>1. TypeInv
  BY TypeInvInit
<1>2. \A q \in Procs : pc[q] \in {"unborn", "m_create"}
  BY ProcsFacts DEF Init
<1>3. QED
  BY <1>1, <1>2, ProcsFacts DEF Init, IInv, Lockstep, Passed, FailedSetShutdown,
     AppliedPcs, CyclesInLoop, MeasureOnlyWhenAllApplied

(***************************************************************************)
(* The inductive step: every action keeps the barrier lockstep, the        *)
(* failure flag, the record of applied workers and the loop counters       *)
(* consistent.                                                             *)
(***************************************************************************)
LEMMA IInvNext == IInv /\ [Next]_vars => IInv'
<1> SUFFICES ASSUME IInv, [Next]_vars PROVE IInv'
  OBVIOUS
<1>0. TypeInv'
  BY TypeInvNext DEF IInv
<1> USE ProcsFacts
<1>1. ASSUME NEW w \in Workers, CreateThread(w) PROVE IInv'
  <2>1. PICK outcome \in {"w_start", "nothread"} :
          pc' = [pc EXCEPT ![w] = outcome,
                           ![Main] = IF w = N THEN "m_b1" ELSE "m_create"]
    BY <1>1 DEF CreateThread
  <2>2. pc[w] = "unborn" /\ pc[Main] = "m_create"
    BY <1>1 DEF CreateThread
  <2>3. \A q \in Procs : Passed(pc'[q]) = 0 \/ q \notin {w, Main}
    BY <2>1, <2>2 DEF Passed, IInv, TypeInv, TypeOK
  <2>4. Lockstep'
    BY <2>1, <2>2, <2>3 DEF IInv, Lockstep, Passed, TypeInv, TypeOK
  <2>5. cycles[w] = 0
    BY <2>2 DEF IInv, CyclesInLoop, TypeInv, TypeOK
  <2>6. QED
    BY <1>0, <1>1, <2>1, <2>4, <2>5
    DEF CreateThread, IInv, TypeInv, TypeOK, FailedSetShutdown, AppliedPcs,
        CyclesInLoop, MeasureOnlyWhenAllApplied
<1>2. ASSUME NEW p \in Procs, BarrierWait(p) PROVE IInv'
  <2>1. CASE /\ Cardinality(waiting) + 1 < Parties
             /\ waiting' = waiting \cup {p}
             /\ UNCHANGED pc
    BY <1>0, <1>2, <2>1 DEF BarrierWait, IInv, Lockstep, FailedSetShutdown,
                           AppliedPcs, CyclesInLoop, MeasureOnlyWhenAllApplied
  <2>2. CASE /\ Cardinality(waiting) + 1 = Parties
             /\ waiting' = {}
             /\ pc' = [q \in Procs |-> IF q \in waiting \cup {p}
                                       THEN AfterBarrier(pc[q]) ELSE pc[q]]
    <3>1. waiting \cup {p} = Procs
      BY <1>2, <2>2, ReleaseAll DEF BarrierWait, IInv, TypeInv, TypeOK
    <3>2. \A q \in Procs : pc[q] \in BarrierSites /\ pc'[q] = AfterBarrier(pc[q])
      BY <1>2, <2>2, <3>1 DEF BarrierWait, IInv, TypeInv, WaitingAtBarrier
    <3>3. UNCHANGED <<shutdown, applied, cycles>>
      BY <1>2 DEF BarrierWait
    <3>4. Lockstep'
      BY <3>2, AfterBarrierFacts DEF IInv, Lockstep
    <3>5. FailedSetShutdown'
      BY <3>2, <3>3, ReleaseLabels DEF IInv, FailedSetShutdown, FailLabels
    <3>6. AppliedPcs'
      BY <3>2, <3>3, ReleaseLabels DEF IInv, AppliedPcs, AppliedLabels
    <3>7. \A v \in Workers : cycles[v] = 0
      BY <3>2, ReleaseLabels DEF IInv, CyclesInLoop, TypeInv, TypeOK
    <3>8. QED
      BY <1>0, <3>3, <3>4, <3>5, <3>6, <3>7
      DEF IInv, CyclesInLoop, MeasureOnlyWhenAllApplied
  <2>3. QED
    BY <1>2, <2>1, <2>2 DEF BarrierWait
<1>3. ASSUME NEW w \in Workers, ThreadStart(w) PROVE IInv'
  BY <1>0, <1>3
  DEF ThreadStart, TidPublish, GetattrFailPath, IInv, TypeInv, TypeOK, Lockstep,
      Passed, FailedSetShutdown, AppliedPcs, CyclesInLoop, MeasureOnlyWhenAllApplied
<1>4. ASSUME NEW w \in Workers, SchedSetattr(w) PROVE IInv'
  BY <1>0, <1>4
  DEF SchedSetattr, SetattrFailPath, IInv, TypeInv, TypeOK, Lockstep,
      Passed, FailedSetShutdown, AppliedPcs, CyclesInLoop, MeasureOnlyWhenAllApplied
<1>5. ASSUME NEW w \in Workers, Measure(w) PROVE IInv'
  <2>1. applied = Workers
    BY <1>5, LoopImpliesApplied DEF Measure
  <2>2. QED
    BY <1>0, <1>5, <2>1
    DEF Measure, IInv, TypeInv, TypeOK, Lockstep, FailedSetShutdown, AppliedPcs,
        CyclesInLoop, MeasureOnlyWhenAllApplied
<1>6. ASSUME NEW w \in Workers, WorkerLoopExit(w) PROVE IInv'
  BY <1>0, <1>6
  DEF WorkerLoopExit, IInv, TypeInv, TypeOK, Lockstep, Passed,
      FailedSetShutdown, AppliedPcs, CyclesInLoop, MeasureOnlyWhenAllApplied
<1>7. ASSUME UNCHANGED <<applied, cycles>>,
             \A w \in Workers : pc'[w] = pc[w],
             Passed(pc'[Main]) = Passed(pc[Main]),
             shutdown => shutdown'
      PROVE  IInv'
  <2>1. Lockstep'
    BY <1>7 DEF IInv, Lockstep
  <2>2. FailedSetShutdown'
    BY <1>7 DEF IInv, FailedSetShutdown
  <2>3. QED
    BY <1>0, <1>7, <2>1, <2>2 DEF IInv, AppliedPcs, CyclesInLoop,
                                  MeasureOnlyWhenAllApplied
<1>8. ASSUME NEW a, NEW b, pc[Main] = a, Passed(a) = Passed(b),
             pc' = [pc EXCEPT ![Main] = b], UNCHANGED <<applied, cycles, shutdown>>
      PROVE  IInv'
  <2>1. \A w \in Workers : pc'[w] = pc[w]
    BY <1>8 DEF IInv, TypeInv, TypeOK
  <2>2. Passed(pc'[Main]) = Passed(pc[Main])
    BY <1>8 DEF IInv, TypeInv, TypeOK
  <2>3. QED
    BY <1>7, <1>8, <2>1, <2>2
<1>9. CASE UNCHANGED <<pc, applied, cycles, shutdown>>
  BY <1>7, <1>9
<1>10. CASE CheckStep1
  <2>1. CASE shutdown
    BY <1>9, <1>10, <2>1 DEF CheckStep1, Exit
  <2>2. CASE ~shutdown /\ AllCpus
    BY <1>8, <1>10, <2>2 DEF CheckStep1, Passed
  <2>3. CASE ~shutdown /\ ~AllCpus
    BY <1>8, <1>10, <2>3 DEF CheckStep1, Passed
  <2>4. QED
    BY <2>1, <2>2, <2>3
<1>11. CASE MakeCpusets
  BY <1>8, <1>9, <1>11 DEF MakeCpusets, Exit, Passed
<1>12. CASE CheckStep2
  <2>1. CASE shutdown
    BY <1>9, <1>12, <2>1 DEF CheckStep2, Exit
  <2>2. CASE ~shutdown
    BY <1>8, <1>12, <2>2 DEF CheckStep2, Passed
  <2>3. QED
    BY <2>1, <2>2
<1>13. CASE InstallSignals
  <2>1. Passed("m_sig") = Passed("m_loop")
    BY DEF Passed
  <2>2. QED
    BY <1>8, <1>13, <2>1 DEF InstallSignals
<1>14. CASE MainLoopExit
  <2>1. Passed("m_loop") = Passed("m_join")
    BY DEF Passed
  <2>2. QED
    BY <1>8, <1>14, <2>1 DEF MainLoopExit
<1>15. CASE JoinAll
  BY <1>9, <1>15 DEF JoinAll, Exit
<1>20. CASE Signal
  BY <1>7, <1>9, <1>20 DEF Signal
<1>21. CASE Alarm
  BY <1>7, <1>21 DEF Alarm
<1>22. CASE UNCHANGED vars
  BY <1>9, <1>22 DEF vars
<1>23. QED
  BY <1>1, <1>2, <1>3, <1>4, <1>5, <1>6, <1>10, <1>11, <1>12, <1>13, <1>14,
     <1>15, <1>20, <1>21, <1>22 DEF Next, Worker, MainThread

(***************************************************************************)
(* No worker measures a period (do_runtime in run_deadline's loop) before  *)
(* every worker has applied SCHED_DEADLINE, for every number of threads:   *)
(* the three barriers keep the threads in lockstep and a failed            *)
(* sched_setattr sets shutdown before the third barrier.                   *)
(***************************************************************************)
THEOREM MeasureAfterAllApplied == Spec => []MeasureOnlyWhenAllApplied
<1>1. Init => IInv
  BY IInvInit
<1>2. IInv /\ [Next]_vars => IInv'
  BY IInvNext
<1>3. IInv => MeasureOnlyWhenAllApplied
  BY DEF IInv
<1>4. QED
  BY <1>1, <1>2, <1>3, PTL DEF Spec

-----------------------------------------------------------------------------
(***************************************************************************)
(* Refinement of StartupAbstract.  Besides IInv it needs one more fact:    *)
(* main reaches join only through loop(), which left on shutdown, and      *)
(* shutdown is never cleared.                                              *)
(***************************************************************************)
MainJoinShutdown == pc[Main] = "m_join" => shutdown

LEMMA JoinInit == Init => MainJoinShutdown
  BY ProcsFacts DEF Init, MainJoinShutdown

LEMMA JoinNext ==
  TypeInv /\ MainJoinShutdown /\ [Next]_vars => MainJoinShutdown'
<1> SUFFICES ASSUME TypeInv, MainJoinShutdown, [Next]_vars
             PROVE  MainJoinShutdown'
  OBVIOUS
<1> USE ProcsFacts
<1>0. pc \in [Procs -> WorkerLabels \cup MainLabels]
  BY DEF TypeInv, TypeOK
<1>1. ASSUME NEW w \in Workers, CreateThread(w) PROVE MainJoinShutdown'
  BY <1>0, <1>1 DEF CreateThread, MainJoinShutdown
<1>2. ASSUME NEW p \in Procs, BarrierWait(p) PROVE MainJoinShutdown'
  <2>1. CASE UNCHANGED pc
    BY <1>2, <2>1 DEF BarrierWait, MainJoinShutdown
  <2>2. CASE /\ Cardinality(waiting) + 1 = Parties
             /\ pc' = [q \in Procs |-> IF q \in waiting \cup {p}
                                       THEN AfterBarrier(pc[q]) ELSE pc[q]]
    <3>1. waiting \cup {p} = Procs
      BY <1>2, <2>2, ReleaseAll DEF BarrierWait, TypeInv, TypeOK
    <3>2. pc[Main] \in BarrierSites /\ pc'[Main] = AfterBarrier(pc[Main])
      BY <1>2, <2>2, <3>1 DEF BarrierWait, TypeInv, WaitingAtBarrier
    <3>3. QED
      BY <3>2 DEF BarrierSites, AfterBarrier, MainJoinShutdown
  <2>3. QED
    BY <1>2, <2>1, <2>2 DEF BarrierWait
<1>3. ASSUME NEW w \in Workers,
             ThreadStart(w) \/ SchedSetattr(w) \/ Measure(w) \/ WorkerLoopExit(w)
      PROVE  MainJoinShutdown'
  <2>1. w # Main
    OBVIOUS
  <2>2. CASE ThreadStart(w)
    BY <1>0, <2>1, <2>2 DEF ThreadStart, TidPublish, GetattrFailPath, MainJoinShutdown
  <2>3. CASE SchedSetattr(w)
    BY <1>0, <2>1, <2>3 DEF SchedSetattr, SetattrFailPath, MainJoinShutdown
  <2>4. CASE Measure(w) \/ WorkerLoopExit(w)
    BY <1>0, <2>1, <2>4 DEF Measure, WorkerLoopExit, MainJoinShutdown
  <2>5. QED
    BY <1>3, <2>2, <2>3, <2>4
<1>4. CASE CheckStep1
  BY <1>0, <1>4 DEF CheckStep1, Exit, MainJoinShutdown
<1>5. CASE CheckStep2
  BY <1>0, <1>5 DEF CheckStep2, Exit, MainJoinShutdown
<1>6. CASE MakeCpusets
  BY <1>0, <1>6 DEF MakeCpusets, Exit, MainJoinShutdown
<1>7. CASE InstallSignals \/ JoinAll
  BY <1>0, <1>7 DEF InstallSignals, JoinAll, Exit, MainJoinShutdown
<1>8. CASE MainLoopExit
  BY <1>0, <1>8 DEF MainLoopExit, MainJoinShutdown
<1>10. CASE Signal \/ Alarm
  BY <1>10 DEF Signal, Alarm, MainJoinShutdown
<1>11. CASE UNCHANGED vars
  BY <1>11 DEF vars, MainJoinShutdown
<1>12. QED
  BY <1>1, <1>2, <1>3, <1>4, <1>5, <1>6, <1>7, <1>8, <1>10, <1>11
  DEF Next, MainThread, Worker


\* Main has left the third barrier exactly when it has passed three releases.
LEMMA ReleasedPassed ==
  ASSUME NEW l \in MainLabels
  PROVE  (l \in {"m_sig", "m_loop", "m_join"}) <=> Passed(l) = 3
  BY DEF MainLabels, Passed

\* The abstract step an unchanged cohort state maps to: a stutter.
AbsStutter ==
  /\ UNCHANGED <<applied, shutdown, cycles, status>>
  /\ Released' = Released

(***************************************************************************)
(* Every step of the threads maps to a step of StartupAbstract or to a     *)
(* stutter: a successful sched_setattr is Apply, any failure path, handled *)
(* signal or alarm is RaiseShutdown, the release of the third barrier is   *)
(* Release, a loop iteration is Measure and every exit is End.             *)
(***************************************************************************)
LEMMA RefineNext ==
  IInv /\ MainJoinShutdown /\ [Next]_vars => [Abs!Next]_(Abs!vars)
<1> SUFFICES ASSUME IInv, MainJoinShutdown, [Next]_vars
             PROVE  [Abs!Next]_(Abs!vars)
  OBVIOUS
<1> USE ProcsFacts
<1>0. /\ pc \in [Procs -> WorkerLabels \cup MainLabels]
      /\ pc[Main] \in MainLabels
      /\ \A w \in Workers : pc[w] \in WorkerLabels
  BY DEF IInv, TypeInv, TypeOK
<1>a. AbsStutter => [Abs!Next]_(Abs!vars)
  BY DEF AbsStutter, Abs!vars
<1>b. (Running /\ shutdown' = TRUE /\ UNCHANGED <<applied, cycles, status>>
       /\ Released' = Released) => [Abs!Next]_(Abs!vars)
  BY DEF Abs!Next, Abs!RaiseShutdown, Abs!Running, Running
<1>c. ASSUME NEW s \in {"ok", "fail", "killed"},
             Running, s = "ok" => Released /\ shutdown, status' = s,
             UNCHANGED <<applied, shutdown, cycles>>, Released' = Released
      PROVE  [Abs!Next]_(Abs!vars)
  BY <1>c DEF Abs!Next, Abs!End, Abs!Running, Running
<1>1. ASSUME NEW w \in Workers, CreateThread(w) PROVE [Abs!Next]_(Abs!vars)
  <2>1. pc[Main] = "m_create" /\ pc'[Main] \in {"m_b1", "m_create"}
    BY <1>0, <1>1 DEF CreateThread
  <2>2. AbsStutter
    BY <1>1, <2>1 DEF CreateThread, AbsStutter, Released
  <2>3. QED
    BY <1>a, <2>2
<1>2. ASSUME NEW p \in Procs, BarrierWait(p) PROVE [Abs!Next]_(Abs!vars)
  <2>1. CASE UNCHANGED pc
    BY <1>a, <1>2, <2>1 DEF BarrierWait, AbsStutter, Released
  <2>2. CASE /\ Cardinality(waiting) + 1 = Parties
             /\ pc' = [q \in Procs |-> IF q \in waiting \cup {p}
                                       THEN AfterBarrier(pc[q]) ELSE pc[q]]
    <3>1. waiting \cup {p} = Procs
      BY <1>2, <2>2, ReleaseAll DEF BarrierWait, IInv, TypeInv, TypeOK
    <3>2. \A q \in Procs : pc[q] \in BarrierSites /\ pc'[q] = AfterBarrier(pc[q])
      BY <1>2, <2>2, <3>1 DEF BarrierWait, IInv, TypeInv, WaitingAtBarrier
    <3>3. UNCHANGED <<applied, shutdown, cycles, status>> /\ Running
      BY <1>2 DEF BarrierWait, Running
    <3>4. CASE pc[Main] = "m_b3"
      <4>1. ASSUME NEW w \in Workers PROVE pc[w] \in {"w_b3", "w_b3f"}
        <5>1. Passed(pc[w]) = 2 /\ pc[w] \in WorkerLabels
          BY <1>0, <3>4 DEF IInv, Lockstep, Passed
        <5>2. QED
          BY <3>2, <5>1 DEF BarrierSites, WorkerLabels, Passed
      <4>2. applied = Workers \/ shutdown
        BY <4>1 DEF IInv, AppliedPcs, FailedSetShutdown
      <4>3. ~Released /\ Released'
        BY <3>2, <3>4 DEF Released, AfterBarrier
      <4>4. Abs!Release
        BY <3>3, <4>2, <4>3 DEF Abs!Release, Abs!Running, Abs!Workers, Running, Workers
      <4>5. QED
        BY <4>4 DEF Abs!Next
    <3>5. CASE pc[Main] # "m_b3"
      <4>1. pc[Main] \in {"m_b1", "m_b2"}
        BY <1>0, <3>2, <3>5 DEF BarrierSites, MainLabels
      <4>2. pc'[Main] \in {"m_chk1", "m_chk2"}
        BY <3>2, <4>1 DEF AfterBarrier
      <4>3. AbsStutter
        BY <3>3, <4>1, <4>2 DEF AbsStutter, Released
      <4>4. QED
        BY <1>a, <4>3
    <3>6. QED
      BY <3>4, <3>5
  <2>3. QED
    BY <1>2, <2>1, <2>2 DEF BarrierWait
<1>3. ASSUME NEW w \in Workers, ThreadStart(w) PROVE [Abs!Next]_(Abs!vars)
  <2>1. pc'[Main] = pc[Main] /\ Running /\ UNCHANGED <<applied, cycles, status>>
    BY <1>0, <1>3 DEF ThreadStart, GetattrFailPath
  <2>2. Released' = Released
    BY <2>1 DEF Released
  <2>3. CASE UNCHANGED shutdown
    BY <1>a, <2>1, <2>2, <2>3 DEF AbsStutter
  <2>4. CASE shutdown' = TRUE
    BY <1>b, <2>1, <2>2, <2>4
  <2>5. UNCHANGED shutdown \/ shutdown' = TRUE
    BY <1>3 DEF ThreadStart, GetattrFailPath
  <2>6. QED
    BY <2>3, <2>4, <2>5
<1>4. ASSUME NEW w \in Workers, SchedSetattr(w) PROVE [Abs!Next]_(Abs!vars)
  <2>1. pc'[Main] = pc[Main] /\ Running /\ UNCHANGED <<cycles, status>>
        /\ pc[w] = "w_set"
    BY <1>0, <1>4 DEF SchedSetattr, SetattrFailPath
  <2>2. Released' = Released
    BY <2>1 DEF Released
  <2>3. CASE applied' = applied \cup {w} /\ UNCHANGED shutdown
    <3>1. Passed(pc[Main]) = 2
      BY <2>1 DEF IInv, Lockstep, Passed
    <3>2. ~Released
      BY <1>0, <3>1, ReleasedPassed DEF Released
    <3>3. w \notin applied
      BY <2>1 DEF IInv, AppliedPcs
    <3>4. Abs!Apply(w)
      BY <2>1, <2>2, <2>3, <3>2, <3>3 DEF Abs!Apply, Abs!Running, Running
    <3>5. QED
      BY <3>4 DEF Abs!Next, Abs!Workers, Workers
  <2>4. CASE shutdown' = TRUE /\ UNCHANGED applied
    BY <1>b, <2>1, <2>2, <2>4
  <2>5. \/ applied' = applied \cup {w} /\ UNCHANGED shutdown
        \/ shutdown' = TRUE /\ UNCHANGED applied
    BY <1>4 DEF SchedSetattr, SetattrFailPath
  <2>6. QED
    BY <2>3, <2>4, <2>5
<1>5. ASSUME NEW w \in Workers, Measure(w) PROVE [Abs!Next]_(Abs!vars)
  <2>1. Passed(pc[Main]) = 3
    BY <1>5 DEF Measure, IInv, Lockstep, Passed
  <2>2. Released /\ Released' = Released
    BY <1>0, <1>5, <2>1, ReleasedPassed DEF Measure, Released
  <2>3. Abs!Measure(w)
    BY <1>5, <2>2 DEF Measure, Abs!Measure, Abs!Running, Running
  <2>4. QED
    BY <2>3 DEF Abs!Next, Abs!Workers, Workers
<1>6. ASSUME NEW w \in Workers, WorkerLoopExit(w) PROVE [Abs!Next]_(Abs!vars)
  BY <1>a, <1>0, <1>6 DEF WorkerLoopExit, AbsStutter, Released
<1>7. CASE CheckStep1 \/ CheckStep2 \/ MakeCpusets
  <2>1. CASE UNCHANGED pc
    <3>1. Released' = Released
      BY <2>1 DEF Released
    <3>2. QED
      BY <1>a, <1>c, <1>7, <2>1, <3>1
      DEF CheckStep1, CheckStep2, MakeCpusets, Exit, AbsStutter
  <2>2. CASE pc' # pc
    <3>1. pc[Main] \in {"m_chk1", "m_chk2", "m_cpuset"}
          /\ pc'[Main] \in {"m_b2", "m_cpuset", "m_b3"}
      BY <1>0, <1>7, <2>2 DEF CheckStep1, CheckStep2, MakeCpusets, Exit
    <3>2. AbsStutter
      BY <1>7, <2>2, <3>1 DEF CheckStep1, CheckStep2, MakeCpusets, Exit,
         AbsStutter, Released
    <3>3. QED
      BY <1>a, <3>2
  <2>3. QED
    BY <2>1, <2>2
<1>8. CASE InstallSignals \/ MainLoopExit
  BY <1>a, <1>0, <1>8 DEF InstallSignals, MainLoopExit, AbsStutter, Released
<1>9. CASE JoinAll
  <2>1. Released /\ Released' = Released /\ shutdown
    BY <1>9 DEF JoinAll, Exit, Released, MainJoinShutdown
  <2>2. QED
    BY <1>c, <1>9, <2>1 DEF JoinAll, Exit
<1>10. CASE Signal
  <2>1. Released' = Released /\ Running
    BY <1>10 DEF Signal, Released
  <2>2. QED
    BY <1>b, <1>c, <1>10, <2>1 DEF Signal
<1>11. CASE Alarm
  BY <1>b, <1>11 DEF Alarm, Released
<1>12. CASE UNCHANGED vars
  BY <1>a, <1>12 DEF vars, AbsStutter, Released
<1>13. QED
  BY <1>1, <1>2, <1>3, <1>4, <1>5, <1>6, <1>7, <1>8, <1>9, <1>10, <1>11, <1>12
  DEF Next, MainThread, Worker

(***************************************************************************)
(* The detailed startup implements StartupAbstract under the mapping       *)
(* go <- Released: main's thread creation, the three barriers, the worker  *)
(* sched_setattr calls, the loops, signals, alarm and exits never do what  *)
(* the abstract startup forbids (apply after release, release an          *)
(* unapplied cohort without shutdown, measure before release, return 0    *)
(* before a shutdown).                                                    *)
(***************************************************************************)
THEOREM StartupRefinement == Spec => AbstractStartup
<1>1. Init => IInv /\ MainJoinShutdown
  BY IInvInit, JoinInit
<1>2. IInv /\ MainJoinShutdown /\ [Next]_vars => (IInv /\ MainJoinShutdown)'
  BY IInvNext, JoinNext DEF IInv
<1>3. Init => Abs!Init
  BY ProcsFacts DEF Init, Abs!Init, Released, Abs!Workers, Workers
<1>4. IInv /\ MainJoinShutdown /\ [Next]_vars => [Abs!Next]_(Abs!vars)
  BY RefineNext
<1>5. QED
  BY <1>1, <1>2, <1>3, <1>4, PTL DEF Spec, AbstractStartup, Abs!Spec

-----------------------------------------------------------------------------
(***************************************************************************)
(* PidListComplete.  make_cpuset stops at the first pids[i] that is still  *)
(* 0, so the list is complete exactly when every tid is published.  A     *)
(* worker publishes its tid in its first step, before barrier 1, and main  *)
(* builds the list after barrier 1; by Lockstep every worker is then past  *)
(* its first step.  Once published, a tid stays published.                 *)
(***************************************************************************)
Unstarted == {"unborn", "nothread", "w_start"}

TidPublished == tidSet = {w \in Workers : pc[w] \notin Unstarted}

TidsBeforeCpusets == cpusets => Workers \subseteq tidSet

MovedInv == TidPublished /\ TidsBeforeCpusets

LEMMA MovedInit == Init => MovedInv
  BY ProcsFacts DEF Init, MovedInv, TidPublished, TidsBeforeCpusets, Unstarted

\* A step that keeps the tids and whether each worker started keeps TidPublished.
LEMMA TidSame ==
  ASSUME TidPublished, tidSet' = tidSet,
         \A w \in Workers : (pc'[w] \in Unstarted) <=> (pc[w] \in Unstarted)
  PROVE  TidPublished'
  BY DEF TidPublished

\* With every tid published, the list cut at the first 0 names every worker.
LEMMA PidListFull ==
  ASSUME Workers \subseteq tidSet
  PROVE  MovedPids = Workers
  BY DEF MovedPids, Workers

\* At main's cpuset step every worker has published its tid.
LEMMA TidsAtCpuset ==
  ASSUME IInv, TidPublished, pc[Main] = "m_cpuset"
  PROVE  Workers \subseteq tidSet
<1>1. ASSUME NEW w \in Workers PROVE pc[w] \notin Unstarted
  <2>1. Passed(pc[w]) = 1
    BY ProcsFacts DEF IInv, Lockstep, Passed
  <2>2. QED
    BY <2>1 DEF Passed, Unstarted
<1>2. QED
  BY <1>1 DEF TidPublished

\* A step that keeps cpusets or removes them, and loses no tid, keeps
\* TidsBeforeCpusets.
LEMMA TidsKept ==
  ASSUME TidsBeforeCpusets, tidSet \subseteq tidSet',
         cpusets' = cpusets \/ cpusets' = FALSE
  PROVE  TidsBeforeCpusets'
  BY DEF TidsBeforeCpusets

LEMMA MovedNext ==
  IInv /\ MovedInv /\ [Next]_vars => MovedInv'
<1> SUFFICES ASSUME IInv, MovedInv, [Next]_vars PROVE MovedInv'
  OBVIOUS
<1> USE ProcsFacts
<1>0. pc \in [Procs -> WorkerLabels \cup MainLabels]
  BY DEF IInv, TypeInv, TypeOK
<1>1. ASSUME NEW v \in Workers, CreateThread(v) PROVE MovedInv'
  <2>1. TidPublished'
    BY <1>0, <1>1, TidSame DEF CreateThread, MovedInv, Unstarted
  <2>2. TidsBeforeCpusets'
    BY <1>1, TidsKept DEF CreateThread, MovedInv
  <2>3. QED
    BY <2>1, <2>2 DEF MovedInv
<1>2. ASSUME NEW p \in Procs, BarrierWait(p) PROVE MovedInv'
  <2>1. TidsBeforeCpusets'
    BY <1>2, TidsKept DEF BarrierWait, MovedInv
  <2>2. CASE UNCHANGED pc
    BY <1>2, <2>1, <2>2 DEF BarrierWait, MovedInv, TidPublished
  <2>3. CASE /\ Cardinality(waiting) + 1 = Parties
             /\ pc' = [q \in Procs |-> IF q \in waiting \cup {p}
                                       THEN AfterBarrier(pc[q]) ELSE pc[q]]
    <3>1. waiting \cup {p} = Procs
      BY <1>2, <2>3, ReleaseAll DEF BarrierWait, IInv, TypeInv, TypeOK
    <3>2. \A q \in Procs : pc[q] \in BarrierSites /\ pc'[q] = AfterBarrier(pc[q])
      BY <1>2, <2>3, <3>1 DEF BarrierWait, IInv, TypeInv, WaitingAtBarrier
    <3>3. \A w \in Workers : pc[w] \notin Unstarted /\ pc'[w] \notin Unstarted
      BY <3>2 DEF BarrierSites, AfterBarrier, Unstarted
    <3>4. TidPublished'
      BY <1>2, <3>3, TidSame DEF BarrierWait, MovedInv
    <3>5. QED
      BY <2>1, <3>4 DEF MovedInv
  <2>4. QED
    BY <1>2, <2>2, <2>3 DEF BarrierWait
<1>3. ASSUME NEW v \in Workers, ThreadStart(v) PROVE MovedInv'
  <2>1. pc[v] = "w_start" /\ tidSet' = tidSet \cup {v}
        /\ pc'[v] \in {"w_b1", "w_b1f"}
        /\ \A w \in Workers \ {v} : pc'[w] = pc[w]
    BY <1>0, <1>3 DEF ThreadStart, TidPublish, GetattrFailPath
  <2>2. TidPublished'
    BY <2>1 DEF MovedInv, TidPublished, Unstarted
  <2>3. TidsBeforeCpusets'
    BY <1>3, <2>1, TidsKept DEF ThreadStart, MovedInv
  <2>4. QED
    BY <2>2, <2>3 DEF MovedInv
<1>4. ASSUME NEW v \in Workers,
             SchedSetattr(v) \/ Measure(v) \/ WorkerLoopExit(v)
      PROVE  MovedInv'
  <2>1. /\ pc[v] \in {"w_set", "w_loop"}
        /\ pc'[v] \in {"w_b3", "w_b3f", "w_loop", "done"}
        /\ \A w \in Workers \ {v} : pc'[w] = pc[w]
        /\ UNCHANGED <<tidSet, moved, cpusets>>
    BY <1>0, <1>4 DEF SchedSetattr, SetattrFailPath, Measure, WorkerLoopExit
  <2>2. TidPublished'
    BY <2>1, TidSame DEF MovedInv, Unstarted
  <2>3. TidsBeforeCpusets'
    BY <2>1, TidsKept DEF MovedInv
  <2>4. QED
    BY <2>2, <2>3 DEF MovedInv
<1>5. CASE MakeCpusets
  <2>1. pc[Main] = "m_cpuset" /\ pc' \in {pc, [pc EXCEPT ![Main] = "m_b2"]}
        /\ tidSet' = tidSet
    BY <1>5 DEF MakeCpusets, Exit
  <2>2. TidPublished'
    BY <1>0, <2>1, TidSame DEF MovedInv
  <2>3. Workers \subseteq tidSet
    BY <2>1, TidsAtCpuset DEF MovedInv
  <2>4. TidsBeforeCpusets'
    BY <2>1, <2>3 DEF TidsBeforeCpusets
  <2>5. QED
    BY <2>2, <2>4 DEF MovedInv
<1>6. CASE \/ CheckStep1 \/ CheckStep2 \/ InstallSignals \/ MainLoopExit
           \/ JoinAll \/ Signal \/ Alarm \/ UNCHANGED vars
  <2>1. /\ \A w \in Workers : pc'[w] = pc[w]
        /\ UNCHANGED <<tidSet, moved>>
        /\ cpusets' = cpusets \/ cpusets' = FALSE
    BY <1>0, <1>6 DEF CheckStep1, CheckStep2, InstallSignals, MainLoopExit,
       JoinAll, Signal, Alarm, Exit, vars
  <2>2. TidPublished'
    BY <2>1, TidSame DEF MovedInv
  <2>3. TidsBeforeCpusets'
    BY <2>1, TidsKept DEF MovedInv
  <2>4. QED
    BY <2>2, <2>3 DEF MovedInv
<1>7. QED
  BY <1>1, <1>2, <1>3, <1>4, <1>5, <1>6 DEF Next, MainThread, Worker

(***************************************************************************)
(* Whenever the cpusets exist, the pid list main handed to make_cpuset    *)
(* named every worker: main builds it only after barrier 1, and every     *)
(* worker writes its tid before it waits there.                           *)
(***************************************************************************)
THEOREM PidListCorrect == Spec => []PidListComplete
<1>1. Init => IInv /\ MovedInv
  BY IInvInit, MovedInit
<1>2. IInv /\ MovedInv /\ [Next]_vars => (IInv /\ MovedInv)'
  BY IInvNext, MovedNext
<1>3. MovedInv => PidListComplete
  BY PidListFull DEF MovedInv, TidsBeforeCpusets, PidListComplete
<1>4. QED
  BY <1>1, <1>2, <1>3, PTL DEF Spec

-----------------------------------------------------------------------------
(***************************************************************************)
(* BarrierLockstep.  Every step other than a barrier release moves a      *)
(* thread between two control points of the same phase; a release moves   *)
(* all N+1 threads, each past one barrier (ReleaseAll).                    *)
(***************************************************************************)
LockstepStep ==
  \A p \in Procs :
    Passed(pc'[p]) # Passed(pc[p]) =>
      \A q \in Procs : Passed(pc'[q]) = Passed(pc[q]) + 1

NoPhaseChange == \A p \in Procs : Passed(pc'[p]) = Passed(pc[p])

\* A step that moves one thread to a control point of the same phase.
LEMMA SamePhase ==
  ASSUME NEW x \in Procs, NEW l, pc \in [Procs -> WorkerLabels \cup MainLabels],
         pc' = [pc EXCEPT ![x] = l], Passed(l) = Passed(pc[x])
  PROVE  NoPhaseChange
  BY DEF NoPhaseChange

\* The same for a step that moves a worker and main (thread creation).
LEMMA SamePhase2 ==
  ASSUME NEW x \in Procs, NEW y \in Procs, NEW l, NEW m,
         pc \in [Procs -> WorkerLabels \cup MainLabels],
         pc' = [pc EXCEPT ![x] = l, ![y] = m],
         Passed(l) = Passed(pc[x]), Passed(m) = Passed(pc[y])
  PROVE  NoPhaseChange
  BY DEF NoPhaseChange

LEMMA LockstepNext == TypeInv /\ [Next]_vars => [LockstepStep]_vars
<1> SUFFICES ASSUME TypeInv, [Next]_vars PROVE [LockstepStep]_vars
  OBVIOUS
<1> USE ProcsFacts
<1>0. /\ pc \in [Procs -> WorkerLabels \cup MainLabels]
      /\ NoPhaseChange => LockstepStep
  BY DEF TypeInv, TypeOK, NoPhaseChange, LockstepStep
<1>1. ASSUME NEW w \in Workers, CreateThread(w) PROVE NoPhaseChange
  <2>1. PICK outcome \in {"w_start", "nothread"} :
          pc' = [pc EXCEPT ![w] = outcome,
                           ![Main] = IF w = N THEN "m_b1" ELSE "m_create"]
    BY <1>1 DEF CreateThread
  <2>2. pc[w] = "unborn" /\ pc[Main] = "m_create"
    BY <1>1 DEF CreateThread
  <2>3. Passed(outcome) = 0 /\ Passed(pc[w]) = 0 /\ Passed(pc[Main]) = 0
        /\ Passed(IF w = N THEN "m_b1" ELSE "m_create") = 0
    BY <2>2 DEF Passed
  <2>4. QED
    BY <1>0, <2>1, <2>3, SamePhase2
<1>2. ASSUME NEW p \in Procs, BarrierWait(p) PROVE LockstepStep
  <2>1. CASE UNCHANGED pc
    BY <2>1 DEF LockstepStep
  <2>2. CASE /\ Cardinality(waiting) + 1 = Parties
             /\ pc' = [q \in Procs |-> IF q \in waiting \cup {p}
                                       THEN AfterBarrier(pc[q]) ELSE pc[q]]
    <3>1. waiting \cup {p} = Procs
      BY <1>2, <2>2, ReleaseAll DEF BarrierWait, TypeInv, TypeOK
    <3>2. \A q \in Procs : pc[q] \in BarrierSites /\ pc'[q] = AfterBarrier(pc[q])
      BY <1>2, <2>2, <3>1 DEF BarrierWait, TypeInv, WaitingAtBarrier
    <3>3. \A q \in Procs : Passed(pc'[q]) = Passed(pc[q]) + 1
      BY <3>2, AfterBarrierFacts
    <3>4. QED
      BY <3>3 DEF LockstepStep
  <2>3. QED
    BY <1>2, <2>1, <2>2 DEF BarrierWait
<1>3. ASSUME NEW w \in Workers, ThreadStart(w) PROVE NoPhaseChange
  <2>1. pc[w] = "w_start"
    BY <1>3 DEF ThreadStart
  <2>2. PICK l \in {"w_b1", "w_b1f"} : pc' = [pc EXCEPT ![w] = l]
    BY <1>3 DEF ThreadStart, GetattrFailPath
  <2>3. Passed(l) = Passed(pc[w])
    BY <2>1 DEF Passed
  <2>4. QED
    BY <1>0, <2>2, <2>3, SamePhase
<1>4. ASSUME NEW w \in Workers, SchedSetattr(w) PROVE NoPhaseChange
  <2>1. pc[w] = "w_set"
    BY <1>4 DEF SchedSetattr
  <2>2. PICK l \in {"w_b3", "w_b3f"} : pc' = [pc EXCEPT ![w] = l]
    BY <1>4 DEF SchedSetattr, SetattrFailPath
  <2>3. Passed(l) = Passed(pc[w])
    BY <2>1 DEF Passed
  <2>4. QED
    BY <1>0, <2>2, <2>3, SamePhase
<1>5. ASSUME NEW w \in Workers, WorkerLoopExit(w) PROVE NoPhaseChange
  <2>1. pc[w] = "w_loop" /\ pc' = [pc EXCEPT ![w] = "done"]
    BY <1>5 DEF WorkerLoopExit
  <2>2. Passed("done") = 3 /\ Passed("w_loop") = 3
    BY DEF Passed
  <2>3. QED
    BY <1>0, <2>1, <2>2, SamePhase
<1>6. CASE CheckStep1
  <2>1. CASE shutdown
    BY <1>0, <1>6, <2>1 DEF CheckStep1, Exit, NoPhaseChange
  <2>2. CASE ~shutdown
    <3>1. pc[Main] = "m_chk1"
          /\ pc' = [pc EXCEPT ![Main] = IF AllCpus THEN "m_b2" ELSE "m_cpuset"]
      BY <1>6, <2>2 DEF CheckStep1
    <3>2. Passed(IF AllCpus THEN "m_b2" ELSE "m_cpuset") = Passed("m_chk1")
      BY DEF Passed
    <3>3. QED
      BY <1>0, <3>1, <3>2, SamePhase
  <2>3. QED
    BY <2>1, <2>2
<1>7. CASE MakeCpusets
  <2>1. CASE UNCHANGED pc
    BY <1>0, <2>1 DEF NoPhaseChange
  <2>2. CASE pc' = [pc EXCEPT ![Main] = "m_b2"]
    <3>1. pc[Main] = "m_cpuset" /\ Passed("m_b2") = Passed("m_cpuset")
      BY <1>7 DEF MakeCpusets, Passed
    <3>2. QED
      BY <1>0, <2>2, <3>1, SamePhase
  <2>3. QED
    BY <1>7, <2>1, <2>2 DEF MakeCpusets, Exit
<1>8. CASE CheckStep2
  <2>1. CASE shutdown
    BY <1>0, <1>8, <2>1 DEF CheckStep2, Exit, NoPhaseChange
  <2>2. CASE ~shutdown
    <3>1. pc[Main] = "m_chk2" /\ pc' = [pc EXCEPT ![Main] = "m_b3"]
      BY <1>8, <2>2 DEF CheckStep2
    <3>2. Passed("m_b3") = Passed("m_chk2")
      BY DEF Passed
    <3>3. QED
      BY <1>0, <3>1, <3>2, SamePhase
  <2>3. QED
    BY <2>1, <2>2
<1>9. CASE InstallSignals
  <2>1. pc[Main] = "m_sig" /\ pc' = [pc EXCEPT ![Main] = "m_loop"]
    BY <1>9 DEF InstallSignals
  <2>2. Passed("m_loop") = 3 /\ Passed("m_sig") = 3
    BY DEF Passed
  <2>3. QED
    BY <1>0, <2>1, <2>2, SamePhase
<1>10. CASE MainLoopExit
  <2>1. pc[Main] = "m_loop" /\ pc' = [pc EXCEPT ![Main] = "m_join"]
    BY <1>10 DEF MainLoopExit
  <2>2. Passed("m_join") = 3 /\ Passed("m_loop") = 3
    BY DEF Passed
  <2>3. QED
    BY <1>0, <2>1, <2>2, SamePhase
<1>11. CASE \/ \E w \in Workers : Measure(w)
            \/ JoinAll \/ Signal \/ Alarm \/ UNCHANGED vars
  <2>1. UNCHANGED pc
    BY <1>11 DEF Measure, JoinAll, Exit, Signal, Alarm, vars
  <2>2. QED
    BY <1>0, <2>1 DEF NoPhaseChange
<1>12. QED
  BY <1>0, <1>1, <1>2, <1>3, <1>4, <1>5, <1>6, <1>7, <1>8, <1>9, <1>10, <1>11
  DEF Next, MainThread, Worker

(***************************************************************************)
(* For every number of threads, the barrier of N+1 parties moves all      *)
(* threads together: no step takes one thread into its next phase while   *)
(* another stays in the previous one.                                     *)
(***************************************************************************)
THEOREM BarrierMovesAll == Spec => BarrierLockstep
<1>1. TypeInv /\ [Next]_vars => [LockstepStep]_vars
  BY LockstepNext
<1>2. QED
  BY <1>1, TypeInvInit, TypeInvNext, PTL DEF Spec, BarrierLockstep, LockstepStep

=============================================================================
