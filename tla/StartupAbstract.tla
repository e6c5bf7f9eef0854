--------------------------- MODULE StartupAbstract ---------------------------
(***************************************************************************)
(* What cyclicdeadline's startup promises, without threads or barriers:    *)
(* workers get SCHED_DEADLINE one by one; the cohort is released into the  *)
(* measurement phase only once every worker has it or a failure has raised *)
(* shutdown; workers measure only after the release and while shutdown is  *)
(* clear; a successful end comes only after the release and a shutdown.    *)
(* Module CyclicDeadline implements it under the mapping it defines.       *)
(***************************************************************************)
EXTENDS Naturals

CONSTANTS N, MaxCycles

VARIABLES
  applied,   \* workers running under SCHED_DEADLINE
  shutdown,  \* the run has been asked to stop
  go,        \* the cohort has been released into the measurement phase
  cycles,    \* measurement cycles per worker
  status     \* "running", or how the process ended

vars == <<applied, shutdown, go, cycles, status>>

Workers == 1..N
Running == status = "running"

Init ==
  /\ applied = {}
  /\ shutdown = FALSE
  /\ go = FALSE
  /\ cycles = [w \in Workers |-> 0]
  /\ status = "running"

Apply(w) ==
  /\ Running
  /\ ~go
  /\ w \notin applied
  /\ applied' = applied \cup {w}
  /\ UNCHANGED <<shutdown, go, cycles, status>>

RaiseShutdown ==
  /\ Running
  /\ shutdown' = TRUE
  /\ UNCHANGED <<applied, go, cycles, status>>

Release ==
  /\ Running
  /\ ~go
  /\ applied = Workers \/ shutdown
  /\ go' = TRUE
  /\ UNCHANGED <<applied, shutdown, cycles, status>>

Measure(w) ==
  /\ Running
  /\ go
  /\ ~shutdown
  /\ cycles[w] < MaxCycles
  /\ cycles' = [cycles EXCEPT ![w] = @ + 1]
  /\ UNCHANGED <<applied, shutdown, go, status>>

End(s) ==
  /\ Running
  /\ s = "ok" => go /\ shutdown
  /\ status' = s
  /\ UNCHANGED <<applied, shutdown, go, cycles>>

Next ==
  \/ \E w \in Workers : Apply(w) \/ Measure(w)
  \/ RaiseShutdown
  \/ Release
  \/ \E s \in {"ok", "fail", "killed"} : End(s)

Spec == Init /\ [][Next]_vars

=============================================================================
