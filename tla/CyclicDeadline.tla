--------------------------- MODULE CyclicDeadline ---------------------------
(***************************************************************************)
(* The startup protocol, steady-state loop and shutdown of cyclicdeadline  *)
(* (src/src/sched_deadline/cyclicdeadline.c): the main thread creates N    *)
(* deadline threads (run_deadline), all N+1 threads meet three times at a  *)
(* pthread barrier of N+1 parties, every worker switches itself to         *)
(* SCHED_DEADLINE between the second and the third meeting, and the       *)
(* global flag `shutdown` is the only cancellation signal.                 *)
(*                                                                         *)
(* Data is abstracted: a worker's measurement loop is the count of cycles  *)
(* it has recorded (module DeadlineLoop models what one cycle computes),   *)
(* the cpuset files are one flag, and each OS call that can fail is a      *)
(* nondeterministic choice between its success and its failure.           *)
(***************************************************************************)
EXTENDS Naturals, FiniteSets

CONSTANTS
  N,          \* nr_threads: the number of deadline threads
  MaxCycles,  \* bound on the measurement cycles of one worker
  AllCpus,    \* all_cpus: TRUE when no cpuset is set up (line 1142)
  HasDuration \* TRUE when -D was given, so that alarm() is armed (line 1267)

ASSUME NAssumption == N \in Nat \ {0}
ASSUME MaxCyclesAssumption == MaxCycles \in Nat
ASSUME FlagsAssumption == AllCpus \in BOOLEAN /\ HasDuration \in BOOLEAN

Main == 0
Workers == 1..N
Procs == 0..N

\* Mutant: the barrier is initialised for nr_threads parties.
PartiesOneShort == N

\* pthread_barrier_init(&barrier, NULL, nr_threads + 1), line 1216
Parties == N + 1

VARIABLES
  pc,        \* control point of every thread (Main and the workers)
  waiting,   \* threads blocked inside pthread_barrier_wait
  shutdown,  \* the global `shutdown` flag, line 82
  tidSet,    \* workers whose stat->tid has been written (line 765)
  applied,   \* workers whose sched_setattr(SCHED_DEADLINE) succeeded
  cycles,    \* stat->cycles counted by run_deadline's loop (line 801)
  moved,     \* workers whose tid was written to my_cpuset/tasks
  cpusets,   \* the cpusets exist and the root cpuset is modified
  status,    \* "running", or how the process ended
  alarmArmed \* alarm(duration) is pending in the kernel (line 1268)

vars == <<pc, waiting, shutdown, tidSet, applied, cycles, moved, cpusets, status,
          alarmArmed>>

WorkerLabels == {"unborn", "nothread", "w_start", "w_b1", "w_b1f", "w_b2",
                 "w_set", "w_b3", "w_b3f", "w_loop", "done", "failed1",
                 "failed3"}
MainLabels == {"m_create", "m_b1", "m_chk1", "m_cpuset", "m_b2", "m_chk2",
               "m_b3", "m_sig", "m_loop", "m_join"}
Statuses == {"running", "ok", "fail", "killed"}

(***************************************************************************)
(* The barrier call sites, and where each thread continues once the       *)
(* barrier releases it (run_deadline lines 771-796, main 1225-1261).  The *)
(* failing paths w_b1f/w_b3f wait once and then pthread_exit.             *)
(***************************************************************************)
BarrierSites == {"w_b1", "w_b1f", "w_b2", "w_b3", "w_b3f", "m_b1", "m_b2", "m_b3"}
\* Mutant: a worker's wait between barrier 1 and sched_setattr is missing.
AfterBarrierNoSecondWait(l) ==
  CASE l = "w_b1"  -> "w_set"
    [] l = "w_b1f" -> "failed1"
    [] l = "w_b2"  -> "w_set"
    [] l = "w_b3"  -> "w_loop"
    [] l = "w_b3f" -> "failed3"
    [] l = "m_b1"  -> "m_chk1"
    [] l = "m_b2"  -> "m_chk2"
    [] l = "m_b3"  -> "m_sig"

AfterBarrier(l) ==
  CASE l = "w_b1"  -> "w_b2"       \* prepare attr, printf, wait again
    [] l = "w_b1f" -> "failed1"    \* pthread_exit("Failed sched_getattr")
    [] l = "w_b2"  -> "w_set"
    [] l = "w_b3"  -> "w_loop"
    [] l = "w_b3f" -> "failed3"    \* pthread_exit("Failed sched_setattr")
    [] l = "m_b1"  -> "m_chk1"
    [] l = "m_b2"  -> "m_chk2"
    [] l = "m_b3"  -> "m_sig"

Exited == {"done", "failed1", "failed3"}
Running == status = "running"
HandlersInstalled == pc[Main] \in {"m_loop", "m_join"}

Init ==
  /\ pc = [p \in Procs |-> IF p = Main THEN "m_create" ELSE "unborn"]
  /\ waiting = {}
  /\ shutdown = FALSE
  /\ tidSet = {}
  /\ applied = {}
  /\ cycles = [w \in Workers |-> 0]
  /\ moved = {}
  /\ cpusets = FALSE
  /\ status = "running"
  /\ alarmArmed = FALSE

(***************************************************************************)
(* exit(): the atexit handler teardown() removes the cpusets unless       *)
(* all_cpus; threads still alive die with the process.                    *)
(***************************************************************************)
Exit(s) ==
  /\ status' = s
  /\ cpusets' = FALSE
  /\ UNCHANGED <<pc, waiting, shutdown, tidSet, applied, cycles, moved, alarmArmed>>

\* pthread_create(&thread[i], ...) for i = 0..nr_threads-1; its result is
\* never checked, so a failed creation leaves thread i absent.
CreateThread(w) ==
  /\ Running
  /\ pc[Main] = "m_create"
  /\ pc[w] = "unborn"
  /\ \A v \in 1..(w - 1) : pc[v] # "unborn"
  /\ \E outcome \in {"w_start", "nothread"} :
       pc' = [pc EXCEPT ![w] = outcome,
                        ![Main] = IF w = N THEN "m_b1" ELSE "m_create"]
  /\ UNCHANGED <<waiting, shutdown, tidSet, applied, cycles, moved, cpusets, status, alarmArmed>>

\* pthread_barrier_wait: the last of Parties arrivals releases everyone.
BarrierWait(p) ==
  /\ Running
  /\ pc[p] \in BarrierSites
  /\ p \notin waiting
  /\ \/ /\ Cardinality(waiting) + 1 < Parties
        /\ waiting' = waiting \cup {p}
        /\ UNCHANGED pc
     \/ /\ Cardinality(waiting) + 1 = Parties
        /\ waiting' = {}
        /\ pc' = [q \in Procs |-> IF q \in waiting \cup {p}
                                  THEN AfterBarrier(pc[q]) ELSE pc[q]]
  /\ UNCHANGED <<shutdown, tidSet, applied, cycles, moved, cpusets, status, alarmArmed>>

\* Mutant: stat->tid written only after the first barrier (too late).
TidPublishLate(w) == tidSet' = tidSet

\* stat->tid = tid
TidPublish(w) == tidSet' = tidSet \cup {w}

\* Mutant: the sched_getattr error path exits without the barrier wait.
GetattrFailNoBarrier(w) ==
  /\ pc' = [pc EXCEPT ![w] = "failed1"]
  /\ shutdown' = TRUE

\* sched_getattr failed: set shutdown, wait once at the barrier, exit.
GetattrFailPath(w) ==
  /\ pc' = [pc EXCEPT ![w] = "w_b1f"]
  /\ shutdown' = TRUE

\* run_deadline up to the first barrier: tid, then sched_getattr.
ThreadStart(w) ==
  /\ Running
  /\ pc[w] = "w_start"
  /\ TidPublish(w)
  /\ \/ pc' = [pc EXCEPT ![w] = "w_b1"] /\ UNCHANGED shutdown
     \/ GetattrFailPath(w)
  /\ UNCHANGED <<waiting, applied, cycles, moved, cpusets, status, alarmArmed>>

\* Mutant: the sched_setattr error path forgets to set shutdown.
SetattrFailNoFlag(w) ==
  /\ pc' = [pc EXCEPT ![w] = "w_b3f"]
  /\ UNCHANGED <<shutdown, applied>>

\* sched_setattr failed: set shutdown, wait at the barrier, exit.
SetattrFailPath(w) ==
  /\ pc' = [pc EXCEPT ![w] = "w_b3f"]
  /\ shutdown' = TRUE
  /\ UNCHANGED applied

\* sched_setattr(0, &attr, 0) with SCHED_DEADLINE, between barriers 2 and 3.
SchedSetattr(w) ==
  /\ Running
  /\ pc[w] = "w_set"
  /\ \/ /\ pc' = [pc EXCEPT ![w] = "w_b3"]
        /\ applied' = applied \cup {w}
        /\ UNCHANGED shutdown
     \/ SetattrFailPath(w)
  /\ UNCHANGED <<waiting, tidSet, cycles, moved, cpusets, status, alarmArmed>>

\* One iteration of `while (!shutdown) { do_runtime(); sched_yield(); }`.
Measure(w) ==
  /\ Running
  /\ pc[w] = "w_loop"
  /\ ~shutdown
  /\ cycles[w] < MaxCycles
  /\ cycles' = [cycles EXCEPT ![w] = @ + 1]
  /\ UNCHANGED <<pc, waiting, shutdown, tidSet, applied, moved, cpusets, status, alarmArmed>>

\* The loop sees shutdown; the final sched_getattr only chooses the
\* thread's exit string, so both of its outcomes end in "done".
WorkerLoopExit(w) ==
  /\ Running
  /\ pc[w] = "w_loop"
  /\ shutdown
  /\ pc' = [pc EXCEPT ![w] = "done"]
  /\ UNCHANGED <<waiting, shutdown, tidSet, applied, cycles, moved, cpusets, status, alarmArmed>>

\* if (shutdown) fatal("failed to setup child threads at step 1")
CheckStep1 ==
  /\ Running
  /\ pc[Main] = "m_chk1"
  /\ IF shutdown
       THEN Exit("fail")
       ELSE /\ pc' = [pc EXCEPT ![Main] = IF AllCpus THEN "m_b2" ELSE "m_cpuset"]
            /\ UNCHANGED <<waiting, shutdown, tidSet, applied, cycles, moved, cpusets, status, alarmArmed>>

(***************************************************************************)
(* The pids list is calloc'ed and filled with stat.tid; make_cpuset writes *)
(* pids[i] while pids[i] != 0, so a tid not yet written ends the list.     *)
(***************************************************************************)
MovedPids == {w \in Workers : \A v \in 1..w : v \in tidSet}

(***************************************************************************)
(* make_cpuset's tasks loop (lines 523-526) writes pids[i] into            *)
(* my_cpuset/tasks one at a time and keeps only the last write's result    *)
(* in ret, so only that write's failure is fatal (529-530).  `ok` is the   *)
(* set of workers whose write took effect; an empty list leaves ret = 0.   *)
(***************************************************************************)
LastTidWriteOk(ok) ==
  \A w \in MovedPids : w + 1 \notin MovedPids => w \in ok

\* make_cpuset(CPUSET_ALL, ...), then make_cpuset(CPUSET_LOCAL, ..., pids)
\* (lines 1232-1249): every failed mkdir, open or flag write inside is
\* fatal(), as is a failed last tid write; an earlier tid write may fail
\* silently and leave that worker outside my_cpuset.
MakeCpusets ==
  /\ Running
  /\ pc[Main] = "m_cpuset"
  /\ \/ \E ok \in SUBSET MovedPids :
          /\ LastTidWriteOk(ok)
          /\ pc' = [pc EXCEPT ![Main] = "m_b2"]
          /\ cpusets' = TRUE
          /\ moved' = ok
          /\ UNCHANGED <<waiting, shutdown, tidSet, applied, cycles, status, alarmArmed>>
     \/ Exit("fail")

\* if (shutdown) fatal("failed to setup child threads at step 2")
CheckStep2 ==
  /\ Running
  /\ pc[Main] = "m_chk2"
  /\ IF shutdown
       THEN Exit("fail")
       ELSE /\ pc' = [pc EXCEPT ![Main] = "m_b3"]
            /\ UNCHANGED <<waiting, shutdown, tidSet, applied, cycles, moved, cpusets, status, alarmArmed>>

\* signal(SIGINT/SIGTERM/SIGALRM, sighand); if (duration) alarm(duration)
InstallSignals ==
  /\ Running
  /\ pc[Main] = "m_sig"
  /\ pc' = [pc EXCEPT ![Main] = "m_loop"]
  /\ alarmArmed' = HasDuration
  /\ UNCHANGED <<waiting, shutdown, tidSet, applied, cycles, moved, cpusets, status>>

\* loop(): polls shutdown, printing the statistics between polls.
MainLoopExit ==
  /\ Running
  /\ pc[Main] = "m_loop"
  /\ shutdown
  /\ pc' = [pc EXCEPT ![Main] = "m_join"]
  /\ UNCHANGED <<waiting, shutdown, tidSet, applied, cycles, moved, cpusets, status, alarmArmed>>

\* join_thread for every thread (a failed one only warns), then return 0.
JoinAll ==
  /\ Running
  /\ pc[Main] = "m_join"
  /\ \A w \in Workers : pc[w] \in Exited
  /\ Exit("ok")

(***************************************************************************)
(* SIGINT/SIGTERM: sighand sets shutdown once installed; before that the  *)
(* default action kills the process and no atexit handler runs.           *)
(***************************************************************************)
Signal ==
  /\ Running
  /\ IF HandlersInstalled
       THEN /\ shutdown' = TRUE
            /\ UNCHANGED <<pc, waiting, tidSet, applied, cycles, moved, cpusets, status, alarmArmed>>
       ELSE /\ status' = "killed"
            /\ UNCHANGED <<pc, waiting, shutdown, tidSet, applied, cycles, moved, cpusets, alarmArmed>>

\* SIGALRM from alarm(duration), handled by sighand: the one-shot timer
\* expires whatever shutdown already is.
Alarm ==
  /\ Running
  /\ alarmArmed
  /\ shutdown' = TRUE
  /\ alarmArmed' = FALSE
  /\ UNCHANGED <<pc, waiting, tidSet, applied, cycles, moved, cpusets, status>>

Worker(w) ==
  \/ ThreadStart(w)
  \/ BarrierWait(w)
  \/ SchedSetattr(w)
  \/ Measure(w)
  \/ WorkerLoopExit(w)

MainThread ==
  \/ \E w \in Workers : CreateThread(w)
  \/ BarrierWait(Main)
  \/ CheckStep1
  \/ MakeCpusets
  \/ CheckStep2
  \/ InstallSignals
  \/ MainLoopExit
  \/ JoinAll

Next ==
  \/ \E w \in Workers : Worker(w)
  \/ MainThread
  \/ Signal
  \/ Alarm

\* Every thread is scheduled eventually; the alarm, once armed, fires.
\* Signals from outside are not fair: nobody has to press Ctrl-C.
Fairness ==
  /\ \A w \in Workers : WF_vars(Worker(w))
  /\ WF_vars(MainThread)
  /\ WF_vars(Alarm)

Spec == Init /\ [][Next]_vars
FairSpec == Spec /\ Fairness

-----------------------------------------------------------------------------
TypeOK ==
  /\ pc \in [Procs -> WorkerLabels \cup MainLabels]
  /\ pc[Main] \in MainLabels
  /\ \A w \in Workers : pc[w] \in WorkerLabels
  /\ waiting \subseteq Procs
  /\ shutdown \in BOOLEAN
  /\ tidSet \subseteq Workers
  /\ applied \subseteq Workers
  /\ cycles \in [Workers -> 0..MaxCycles]
  /\ moved \subseteq Workers
  /\ cpusets \in BOOLEAN
  /\ status \in Statuses
  /\ alarmArmed \in BOOLEAN

(***************************************************************************)
(* No worker records a measurement cycle before every worker has switched *)
(* itself to SCHED_DEADLINE (spec 5): the third barrier and the shutdown  *)
(* flag, set by a failing sched_setattr before it waits, must keep every  *)
(* worker out of do_runtime unless the whole cohort is configured.        *)
(***************************************************************************)
MeasureOnlyWhenAllApplied ==
  \A w \in Workers : cycles[w] > 0 => applied = Workers

(***************************************************************************)
(* When the cpusets exist, the pid list main built after the first        *)
(* barrier (lines 1238-1243) named every worker: each worker writes its   *)
(* stat.tid before it waits at barrier 1 (line 765), and make_cpuset       *)
(* stops at the first pids[i] still 0, so one late tid would leave that    *)
(* worker and all after it out of my_cpuset.                              *)
(***************************************************************************)
PidListComplete ==
  cpusets => MovedPids = Workers

(***************************************************************************)
(* With -D given and every pthread_create succeeding, the process ends:   *)
(* no thread is left waiting at a barrier that can never fill.            *)
(***************************************************************************)
TerminationIfCreated ==
  [](\A w \in Workers : pc[w] # "nothread") => <>(~Running)

\* The process ends (whatever pthread_create returns).
Termination == <>(~Running)

(***************************************************************************)
(* Spec 6/7: a failed sched_setattr on any worker terminates the run with *)
(* a non-zero status; so an exit with status 0 means all were applied.    *)
(***************************************************************************)
SetupFailureIsFatal ==
  status = "ok" => applied = Workers

\* Every way the process ends restores the cpusets (teardown, line 624).
CleanupOnExit ==
  ~Running => ~cpusets

(***************************************************************************)
(* Spec 6: worker tids are handed to the cpuset collaborator only after   *)
(* the barrier phase that confirms attribute application.                 *)
(***************************************************************************)
IsolationAfterApply ==
  moved # {} => applied = Workers

\* The number of barrier releases a thread at control point l has passed.
Passed(l) ==
  CASE l \in {"unborn", "nothread", "w_start", "w_b1", "w_b1f",
              "m_create", "m_b1"}                              -> 0
    [] l \in {"w_b2", "failed1", "m_chk1", "m_cpuset", "m_b2"} -> 1
    [] l \in {"w_set", "w_b3", "w_b3f", "m_chk2", "m_b3"}      -> 2
    [] OTHER                                                   -> 3

(***************************************************************************)
(* The barrier of N+1 parties moves the threads in lockstep: a step that  *)
(* takes one thread past a barrier (pthread_barrier_wait returning, lines *)
(* 771-796, 1225, 1256, 1261) takes every thread past that barrier,     *)
(* so no thread runs its next phase while another is still in the last.   *)
(***************************************************************************)
BarrierLockstep ==
  [][\A p \in Procs :
       Passed(pc'[p]) # Passed(pc[p]) =>
         \A q \in Procs : Passed(pc'[q]) = Passed(pc[q]) + 1]_vars

-----------------------------------------------------------------------------
(***************************************************************************)
(* Refinement: the cohort counts as released once main has left the third *)
(* barrier; applied, shutdown, cycles and status map to themselves.        *)
(***************************************************************************)
Released == pc[Main] \in {"m_sig", "m_loop", "m_join"}

Abs == INSTANCE StartupAbstract WITH go <- Released

(***************************************************************************)
(* The threads, barriers, signals and cpuset steps implement the abstract *)
(* startup: SCHED_DEADLINE is applied only before the release, the third  *)
(* barrier releases only a fully applied cohort or one with shutdown set, *)
(* workers measure only after it, and main returns 0 only after loop()    *)
(* has seen shutdown.                                                     *)
(***************************************************************************)
AbstractStartup == Abs!Spec

=============================================================================
