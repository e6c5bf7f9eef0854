# Formal models of cyclicdeadline

This directory holds TLA+ models of `src/src/sched_deadline/cyclicdeadline.c`,
the rt-tests program that measures SCHED_DEADLINE wake-up latency. It contains
TLC configurations that model-check the models on small instances, and TLAPS
proofs, for every value of the constants, of:
- the startup invariants and the barrier lockstep;
- the refinement of an abstract startup specification;
- the schedule bounds;
- the latency and period-grid invariants of the deadline loop.
`PROJECT.json` maps every modelled definition to the source lines it translates.
It also lists the runs, the mutants, the findings and the hazards.

## The system

cyclicdeadline is one process made of a main thread and `nr_threads` deadline
threads (`run_deadline`).

1. **Configuration.** `main` parses the options and the `-a` CPU list
   (`calc_nr_cpus`, `add_cpus`, `count_cpus`, `make_new_list`). It computes
   the complement CPU list (`make_other_cpu_list`), and it computes each
   thread's deadline and runtime.
2. **Calibration.** For each thread, main calls `do_runtime` once on the
   thread's `sched_data` and checks that the call fits in the runtime.
3. **Startup protocol.** main creates the threads. Then all `nr_threads+1`
   threads meet three times at a pthread barrier:
   - Each worker publishes its tid and calls `sched_getattr` before barrier 1.
   - After barrier 1, main checks `shutdown`. Unless all CPUs are used, it
     builds two cpusets (`make_cpuset`) and moves the worker tids into
     `my_cpuset`.
   - Between barriers 2 and 3, each worker switches itself to SCHED_DEADLINE
     (`sched_setattr`). main checks `shutdown` after barrier 2.
   - A worker whose OS call fails sets `shutdown`, waits once and exits.
4. **Measurement.** After barrier 3, main installs `sighand` for
   SIGINT/SIGTERM/SIGALRM and arms `alarm(duration)`. It then polls
   `shutdown` in `loop()`. Each worker runs `do_runtime` every period until
   `shutdown` is set.
5. **Exit.** main joins the threads and returns. `atexit(teardown)` restores
   the root cpuset and removes the two cpusets.

## Modules

| module | models | source |
|---|---|---|
| `CyclicDeadline` | the startup protocol, barriers, shutdown flag, signals, alarm, join and teardown | `run_deadline`, `main` lines 1216-1291, `loop`, `sighand`, `make_cpuset` (as one step), `teardown` |
| `DeadlineLoop` | one thread's period tracking and statistics, including main's calibration call | `do_runtime`, `run_deadline` 798-804, `main` 1202-1207, `get_time_us` |
| `CpuList` | the `-a` list: parse, merge, render, count, complement | `add_cpus`, `calc_nr_cpus`, `count_cpus`, `append_cpus`, `make_new_list`, `make_other_cpu_list`, `main` 1135-1158 |
| `Schedule` | the duty percent, runtime and deadline of each thread in unsigned int, the HRTICK probe and the calibration check | `main` 1055-1057, 1170-1216, `setup_hr_tick` |
| `StartupAbstract` | what the startup promises, without threads or barriers | spec 5-7 (no code of its own) |
| `CyclicDeadlineProofs` | TLAPS proofs about `CyclicDeadline`, including its refinement of `StartupAbstract` | |
| `ScheduleProofs` | TLAPS proofs of the schedule bounds for every width | |
| `DeadlineLoopProofs` | TLAPS proofs of the latency, period-grid and statistics invariants | |
| `CpuListProofs` | TLAPS proofs that the `-a` list stays canonical and that its complement is exact | |
| `MC*` | TLC instances: constants for the runs | |

### CyclicDeadline

**State:**
- `pc`: a control point for main (`Main = 0`) and each worker `1..N`.
- `waiting`: the threads blocked in `pthread_barrier_wait`.
- `shutdown`: the global flag.
- `tidSet`: the workers whose `stat->tid` has been written.
- `applied`: the workers whose `sched_setattr` succeeded.
- `cycles`: each worker's `do_runtime` count.
- `moved`: the workers whose tid write to `my_cpuset/tasks` took effect.
- `cpusets`: whether the cpuset changes exist.
- `status`: running, or how the process ended.
- `alarmArmed`: whether the one-shot `alarm()` timer is pending.

**Actions.** Each action is one uninterrupted stretch of one thread's code, up
to the next point where another thread can observe a difference:
- `CreateThread(w)`: `pthread_create`, whose result is ignored. A failure
  leaves thread `w` absent ("nothread").
- `BarrierWait(p)`: the last of `N+1` arrivals releases everyone.
- `ThreadStart(w)`: publish the tid, then `sched_getattr`, which succeeds or
  fails.
- `SchedSetattr(w)`: succeeds or fails.
- `Measure(w)` and `WorkerLoopExit(w)`: the worker's loop.
- `CheckStep1` and `CheckStep2`: main's `shutdown` checks.
- `MakeCpusets`: both `make_cpuset` calls and the pid list. Any of their
  `fatal()` exits is one failure outcome. The tasks loop (lines 523-530)
  writes the tids one at a time and checks only the last write's result,
  so `moved` becomes any subset of the pid list that holds its last tid
  (`LastTidWriteOk`): an earlier failed write silently leaves that worker
  outside `my_cpuset`.
- `InstallSignals`, `MainLoopExit`, `JoinAll`: main's remaining steps.
- `Signal`: SIGINT/SIGTERM. Before the handlers are installed, the default
  action kills the process without teardown. After, it sets `shutdown`.
- `Alarm`: SIGALRM.
- `Exit(s)`: `exit`/`fatal` running the atexit teardown. It is part of every
  action that ends the process.

### DeadlineLoop

**State:**
- `clock`: `CLOCK_MONOTONIC_RAW` in µs, advanced by `Tick`.
- `start` and `period`.
- `stat`: the `thread_stat` fields cycles, min, max, act and avg. avg is kept
  as the sum it really is before the division in the report.
- Two history variables:
  - `samples`: every latency handed to the statistics.
  - `anchor`: where the period grid last restarted.

u64 arithmetic is taken modulo `TimeMod`.

**Actions:**
- `CalibStart`, `CalibRun`, `CalibCheck`: main's calibration.
- `ThreadStart`: the first `get_time_us` after barrier 3.
- `Cycle`: one `do_runtime` call.
- `Stop`: the loop sees `shutdown`.

### Schedule

`main` computes every thread's parameters before any thread exists.
`interval`, `step` and the product `interval * percent` are C `unsigned int`,
so the module takes them modulo `2^Width`.

**State:**
- the inputs `nrThreads`, `nrCpus`, `base` (`-i`) and `step` (`-s`);
- `interval`, `percent` and the loop index `i`;
- `sched`: the `runtime_us`/`deadline_us` pairs set so far;
- `features`: the sched_features file, abstracted to whether it can be read
  and how it lists `HRTICK_DL` and `HRTICK` (on, `NO_...`, or absent);
- `hrtickSet`: `setup_hr_tick`'s static `set`;
- `hrtickOn`: a history variable saying whether the kernel has HRTICK on.

**Actions:**
- `Scale`: the `nr_threads > nr_cpus` scaling of `percent`.
- `ConfigureThread`: one loop iteration. It computes the runtime, calls the
  HRTICK probe when the runtime is under 2000 us (`SetupHrTick`, with the
  outcome of its `write` as an input) and checks the calibration time (an
  input; `DeadlineLoop` models the run itself). It then fails fatally or
  records the pair and advances `interval`.
- `Finish`: the loop ends.

### StartupAbstract and the refinement

`StartupAbstract` states the startup's promise with five variables: `applied`,
`shutdown`, `go`, `cycles` and `status`. Its actions:
- `Apply(w)` happens only before `go`.
- `Release` sets `go`, but only when every worker applied or `shutdown` is set.
- `Measure(w)` happens only after `go` and while `shutdown` is clear.
- `End("ok")` happens only after `go` and `shutdown`.

`CyclicDeadline` instantiates it with `go <- Released` (main has left
barrier 3; every other variable maps to itself). The run checks
`AbstractStartup == Abs!Spec` as a PROPERTY. Each detailed step maps to one
abstract step or to a stutter:
- a successful `sched_setattr` is `Apply`;
- every failure path, a handled signal and the alarm are `RaiseShutdown`;
- the release of barrier 3 is `Release`;
- a loop iteration is `Measure`;
- `Exit`, `JoinAll` and a kill are `End`;
- everything else is a stutter.

### CpuList

The `-a` text is abstracted to tokens:
- a pair `[start, end]`, which is what `atoi` reads from `N` or `N-M`;
- `Malformed`, for text the parser rejects.

**State:**
- `list`: the linked list as a sequence of intervals.
- `buf`: the rendered `setcpu_buf`, as tokens.
- `nrCpus` and `allCpus`.
- `otherIn`, `curr` and `other`: `make_other_cpu_list`'s cursor, its
  `curr_cpu` and its output.
- `selected`: a history variable holding the CPUs named so far.

**Actions:**
- `AddToken`: one iteration of the parse loop, including `add_cpus`.
- `FinishParse`: render, count, range check and `all_cpus`.
- `OtherStep` and `OtherEnd`: `make_other_cpu_list`'s loop and tail.

## Runs

| run | expect | shows |
|---|---|---|
| `startup_safety_liveness` | pass | With 3 workers, every OS-call failure and signals at any time: **MeasureOnlyWhenAllApplied** (no worker measures before the whole cohort is on SCHED_DEADLINE), **PidListComplete** (when the cpusets exist, the pid list handed to `make_cpuset` named every worker), **TerminationIfCreated** (if every `pthread_create` succeeds, the process ends). |
| `deadline_loop_stats` | pass | **NoNegativeLatency** (early wake-ups are resynchronised, so no latency wraps), **NoDrift** (late wake-ups do not shift the period grid), **StatsMatchSamples** (cycles, max, act and the avg sum summarise exactly the recorded samples, main's calibration sample included). |
| `cpu_list_sorted_input` | pass | For every `-a` list of up to 3 tokens in ascending order on 4 CPUs: **ListCanonical** (the list stays sorted and merged, and names exactly the CPUs given), **ComplementExact** (the other-cpuset is exactly the rest), **CountExact** (once parsed, the list is rejected exactly when it names a nonexistent CPU, and otherwise `nr_cpus` is the number of CPUs named). |
| `schedule_bounds` | pass | For 1, 3, 5 or 81 threads on 1 or 4 CPUs, every `-i`/`-s` in the bound set, every sched_features file and every write outcome: **RuntimeWithinDeadline** (even a wrapped product gives runtime ≤ deadline), **UtilizationCap** (with more threads than CPUs, each thread's runtime/deadline is within its share of 80% of the CPUs). |
| `startup_safety_liveness` (refinement) | pass | The same run also checks **AbstractStartup** (the detailed startup implements `StartupAbstract`) and **BarrierLockstep** (a step that takes one thread past a barrier takes all N+1 past it). |
| `schedule_wrap` | violation | **ScheduleExact**: `-i 20000` wraps `interval * percent` (Width 20), so the runtime is 1514 instead of 12000; `interval += step` wraps the same way. |
| `hrtick_absent` | violation | **HrtickRequired**: a sched_features file without HRTICK_DL or HRTICK makes `setup_hr_tick` return 1, so runtimes under 2 ms run without HRTICK. |
| `setattr_failure_exit_status` | violation | **SetupFailureIsFatal**: a late `sched_setattr` failure exits 0. |
| `signal_before_handlers` | violation | **CleanupOnExit**: SIGINT before line 1263 leaves the cpusets behind. |
| `isolation_before_apply` | violation | **IsolationAfterApply**: tids are moved before the attributes are applied. |
| `thread_create_failure_hang` | violation | **Termination**: a failed `pthread_create` hangs everybody at barrier 1. |
| `stat_min_sentinel` | violation | **MinIsMinimum**: a 0 latency makes min forget itself. |
| `cpu_list_unsorted_input` | violation | **ComplementExact** for unordered lists: `-a 2-3,0` gives CPU 0 to other tasks. |

Each violation is written up as a finding in `PROJECT.json`. Each property of a
passing run has a mutant in `PROJECT.json`: a plausible bug in the mapped code
that TLC catches under the run's own configuration.

A further gap is modelled but not asserted by a run: `make_cpuset` checks
only the last tid write (lines 523-530), so the startup model reaches states
in which the cpusets exist and a worker is not in `moved`. It is listed as a
hazard in `PROJECT.json`; `PidListComplete` covers the part the code does
guarantee, that the list it writes from names every worker.

### Bounds

- **CyclicDeadline: N = 3, MaxCycles = 2, AllCpus = FALSE, HasDuration = TRUE.**
  - Three workers are needed to interleave a failing worker, a succeeding
    worker and a worker that was not yet released.
  - With `AllCpus = FALSE` the cpuset step exists.
  - With the duration set, the alarm exists.
  - Two cycles let measuring interleave with a late failure.
- **DeadlineLoop: a 3 µs deadline, 1 µs runtime, 7 µs of clock, 4 cycles and
  an 8-bit word.**
  - This admits early wake-ups (resync), late wake-ups spanning more than one
    period, and a failed calibration.
  - The word is wider than any time reached, so wrapping happens only where
    the code subtracts.
- **CpuList: 4 CPUs, tokens over 0..4 (4 does not exist) and up to 3 tokens.**
  - This covers every branch of `add_cpus`: append, concatenate with
    absorption, extend-start and insert.
  - It also covers the out-of-range and malformed rejections.

- **Schedule: Width = 20; -i over {1, 1000, 20000}; -s over {500, 1040000};
  1, 3, 5 or 81 threads; 1 or 4 CPUs; calibration times 0 or 700 us.**
  - TLC's integers are 32-bit signed, so an exact 32-bit product does not fit.
    Width 20 keeps the same wrap-around behaviour at numbers TLC can hold:
    20000 * 60 exceeds 2^20, and so does 1000 + 1040000.
  - 5 threads on 4 CPUs raises percent to 64. 81 threads on 1 CPU makes it 0.
    1 thread on 4 CPUs keeps the default 60. (A percent of 0, and so runtime 0,
    reaches the kernel's `sched_setattr`, which rejects it; the worker's
    failure path then applies.)
  - -i 1 and -i 1000 give runtimes under 2000 us, so the HRTICK probe runs,
    and its static `set` is reused for the second thread.

### Fairness

`FairSpec` assumes:
- weak fairness of each worker and of main: the OS schedules every runnable
  thread;
- weak fairness of `Alarm`: an armed timer fires.

External signals carry no fairness: nobody must press Ctrl-C.

The configurations set `CHECK_DEADLOCK FALSE` because the process really does
terminate. A final state with `status # "running"` is the end of a run, not a
deadlock. A real hang (the barrier that never fills) is caught by the
liveness properties, not by deadlock detection.

## Proofs

`CyclicDeadlineProofs` proves, with TLAPS and for every `N ≥ 1` and every
`MaxCycles`:

- **TypeCorrect**: `Spec => []TypeOK`.
  - It goes through `TypeInv`, which strengthens `TypeOK` with "the barrier
    holds only threads at a barrier call".
  - The release step uses the cardinality lemma `ReleaseAll`: `N` waiting
    threads plus one arrival make all `N+1` threads. It rests on
    `FS_Subset`, `FS_AddElement` and `FS_Interval`.
- **MeasureAfterAllApplied**: `Spec => []MeasureOnlyWhenAllApplied`, the
  property the `startup_safety_liveness` run checks for N = 3. The inductive
  invariant `IInv` adds:
  - `Lockstep`: every thread has passed the same number of barriers. This
    holds because a release moves all threads at once.
  - `FailedSetShutdown`: a worker on a failure path has set `shutdown`.
  - `AppliedPcs`: `applied` is exactly the set of workers past a successful
    `sched_setattr`.
  - `CyclesInLoop`: only workers in their loop have counted cycles.

  Lemma `LoopImpliesApplied` carries the argument. Take a worker in its loop
  with `shutdown` clear. By `Lockstep`, every worker has passed barrier 3.
  None of them is on the failure path, or `shutdown` would be set. So every
  worker applied. TLC checked `IInv` as an invariant before the proof was
  written.

- **StartupRefinement**: `Spec => AbstractStartup`, the refinement the
  `startup_safety_liveness` run checks for N = 3. It follows the usual layout:
  - `Init => Abs!Init`;
  - `IInv /\ MainJoinShutdown /\ [Next]_vars => [Abs!Next]_Abs!vars`
    (lemma `RefineNext`, one step per action);
  - and the invariant, combined by PTL.

  `IInv` supplies the facts the steps need:
  - `Apply` needs main not released and the worker not yet applied. These
    come from `Lockstep` (a worker at `sched_setattr` has passed two
    barriers, so main has too) and from `AppliedPcs`.
  - `Release` needs `applied = Workers \/ shutdown`. At the release every
    worker waits at barrier 3, either after a successful `sched_setattr`
    (`AppliedPcs`) or on its failure path (`FailedSetShutdown`).
  - `End("ok")` needs `shutdown`, which comes from one more invariant,
    `MainJoinShutdown`: main reaches the join only through `loop()`'s exit on
    `shutdown`, and nothing clears the flag.

- **PidListCorrect**: `Spec => []PidListComplete`. The strengthening is
  `TidPublished` (`tidSet` is exactly the set of workers past their first
  step) and `TidsBeforeCpusets` (the cpusets exist only once every tid is
  published). With `Lockstep`, every worker is past its first step when main
  is at the cpuset step (after barrier 1), so every tid is published there
  (lemma `TidsAtCpuset`), and no step unpublishes one. Lemma `PidListFull`
  turns that into `MovedPids = Workers`: the pid list, cut by `make_cpuset`
  at the first unwritten tid, names every worker. The theorem is about the
  list, not about `moved`: an earlier tid write may fail unnoticed
  (lines 523-530), so the code does not guarantee that every worker ends up
  in `my_cpuset`. TLC checked `IInv /\ MovedInv` on the N = 3 instance before
  the proof was written.
- **BarrierMovesAll**: `Spec => BarrierLockstep`, an action property. Lemma
  `LockstepNext` shows `TypeInv /\ [Next]_vars => [LockstepStep]_vars`:
  - every non-barrier step moves one thread between two control points of
    the same phase (lemmas `SamePhase` and `SamePhase2`);
  - a release moves every thread one phase on (`ReleaseAll`,
    `AfterBarrierFacts`).

  `Passed` (the number of barriers behind a control point) lives in
  `CyclicDeadline` so that the run can state this property.

`ScheduleProofs` proves, for every `Width`, every set of inputs and every
thread and CPU count:

- **RuntimeNeverExceedsDeadline**: `Spec => []RuntimeWithinDeadline`;
- **UtilizationWithinCap**: `Spec => []UtilizationCap`.

The inductive invariant `SInv` keeps the inputs, the scaled percent once
`Scale` has run, and both bounds for every entry so far.
- Lemma `DutyPercentBound`: `percent ≤ 80` and
  `percent * nr_threads ≤ 80 * nr_cpus`.
- Lemma `ModBelow`: reducing modulo `2^Width` never increases a number.
- Lemma `RuntimeArith`: the bounds of a runtime, one nonlinear inequality per
  step.
- Lemma `AppendBounds`: appending a new entry keeps both bounds.

The one assumption added for the proof is `ModulusAssumption ==
2^Width \in Nat \ {0}`. It is a fact of arithmetic. The provers lack the
induction to derive it, and TLC evaluates it on every Schedule run. The
theorems cover `Width = 32`, which TLC cannot reach because its integers are
32-bit signed.

`DeadlineLoopProofs` proves, for every `Deadline`, `Runtime`, `MaxTime` and
`TimeMod` with `MaxTime + Deadline < TimeMod`:

- **LatencyNeverNegative**: `Spec => []NoNegativeLatency`;
- **PeriodGridKept**: `Spec => []NoDrift`.

The inductive invariant `DInv` adds `TypeOK`, `CyclesCounted` (cycles =
number of samples) and `CalibrationCounted` (main's sample exists once
calibration has run).
- Lemma `LatencyBound`: after the resync, `now - period` lies in `0..now`, so
  the u64 reduction is exact.
- For `NoDrift`, a late wakeup advances `period` by one deadline from the same
  anchor (witness `k + 1`). An early one restarts the grid at `now`
  (witness 1). `NoDrift` is stated with an explicit multiple
  (`period - anchor = k * Deadline`) rather than `% Deadline = 0`. This is
  the same property. The SMT backend proves `(x + D) % D = x % D` only for
  constant `D`.

- **StatsExact**: `Spec => []StatsMatchSamples`. The statistics that
  `do_runtime` keeps (lines 741-749) agree with the samples it was handed.
  `cycles` is their number, `max` the largest, `avg` the sum and `act` the
  last. `StatsMatchSamples` states this with `SeqMax` (a CHOOSE) and
  `SeqSum` (a recursive function), so the inductive invariant `StatsInv`
  carries witnesses instead of computing them:
  - `MaxRecorded`: `max` is one of the samples and bounds them all. Lemma
    `SeqMaxIs` turns this into `max = SeqMax(samples)`, and `MaxAppend`
    keeps it across one sample.
  - `SumRecorded`: some function satisfies `SeqSum`'s defining equation and
    ends in `avg`, and any two such functions are equal. Lemma `SumAppend`
    builds the extended function and shows it is again unique. Uniqueness
    is what lets the CHOOSE inside `SeqSum` be identified with the witness.
    No induction over the sequence is needed, because each step adds one
    sample.
  - `LastRecorded`: `act` is the last sample.

  Lemma `StatsStep` covers one `do_runtime` call. Both of its callers
  (main's calibration and the thread's cycle) use it. `SumRecorded`
  quantifies over all functions, so TLC cannot evaluate it.
  TLC did check `MaxRecorded /\ DInv`, and the run checks its consequence
  `StatsMatchSamples`.

`CpuListProofs` proves, for every `CpuCount` and every set of `-a` inputs
whose tokens have ascending starts (hypothesis `AscendingInputs`):

- **ListSorted**: `Spec => []ListCanonical`;
- **ComplementCorrect**: `Spec => []ComplementExact`;
- **CountCorrect**: `Spec => []CountExact`.

The hypothesis cannot be dropped. `add_cpus` (820-863) only merges a token
into the last range or appends it. The `cpu_list_unsorted_input` run shows
that an unsorted input breaks `ComplementExact`: a selected CPU is left
in the other cpuset. This is the code bug recorded at line 858.

The inductive invariant `CInv` has the following parts:
- `Separated(list)`: the ranges are ordered, and between any two ranges
  there is at least one CPU that is in neither.
- `Cpus(list) = selected`.
- While parsing: the remaining input ascends and starts after the list.
- After parsing: the rendered buffer is `Render(list)`, and every range ends
  below `CpuCount`. This holds because `calc_nr_cpus` sends a too-large CPU
  to the fatal path.
- During `make_other_cpu_list` (924-947), the walk invariant `WalkInv`:
  - the unread input is the suffix of the rendered list after the ranges
    consumed so far;
  - `curr` is one past the last consumed range;
  - the complement built so far is separated, lies below `curr`, and is
    exactly `0..curr-1` minus the selected CPUs.

The lemmas follow the code:
- `AddCpusShape` shows that, on an ascending token, `add_cpus` either
  appends a node or widens the last one. `AddCpusSorted` then shows that
  both shapes keep the list separated and name the right CPUs.
- `RenderFacts` covers the rendering.
- `ComplementStep` and `ComplementEnd` cover one gap and the tail of the
  walk.

TLC checked `CInv` on the cpu_list instance before the proof was written.

`CountCorrect` adds `CountInv` to `CInv`. `count_cpus`' recursive running
sum is a CHOOSE over the functions that satisfy its equation, so
`CountInv` makes three claims about them:
- such a function exists;
- every such function ends in `Cardinality(selected)`;
- one node earlier, it falls short by the size of the last node.

The second value is what lets `add_cpus` widen the last node.
- Lemma `CountCarry` moves a running sum between two lists that agree on a
  prefix.
- `CountAddCpus` covers the two shapes of `add_cpus` that `AddCpusShape`
  allows:
  - an append adds the new node's size;
  - widening the tail adds the CPUs past its old end (`CardAddAbove`).
- `CountValue` reads the count off through the CHOOSE.
- `CpusBelow` and `CountBelowCpuCount` show that a list whose nodes all
  exist names only CPUs below `cpu_count`, and at most `cpu_count` of
  them. So only a node past `cpu_count` can make `main` fatal, and an
  accepted list names only existing CPUs.

No induction over the list is needed. The universally quantified part of
`CountInv` ranges over all functions, so TLC cannot evaluate it. TLC
checked its instance for the program's own count (with `CInv` and
`CountExact`) on the cpu_list instance before the proof was written.

Only TLC checks the following:
- the liveness properties (`TerminationIfCreated`), because TLAPS does not
  handle fairness and ENABLED;
- the CpuList invariants for inputs that do not ascend, which fail there,
  as the violation run shows;
- the violation runs.

## Not modelled

- **The file-system side of cpusets:** `mount_cpuset`, and the rmdir retries
  in `destroy_cpuset`.
- **Trace and debugfs setup:** ftrace and the debugfs lookup. The HRTICK
  probe's file I/O is abstracted to a `readable` flag.
- **Option parsing and output formatting.**
- **Torn reads of `thread_stat` by `print_stat`:** they affect the display
  only.
- **The empty `-a ""` case:** it crashes in `strlen(NULL)`.

Dead code, noted while modelling:
- The default-CPU branch (1147-1153) cannot run, because without `-a` all
  CPUs are used.
- The verbose branch of `print_stat` is unreachable, because `loop()` passes
  `verbose = 0`.

## Plan for later work

1. Composing `DeadlineLoop` into the startup model, with per-worker statistics
   and main's calibration sample.
2. A refinement of the CpuList model by an abstract set-of-CPUs
   specification: the list as a representation of `selected`.
