------------------------------- MODULE Workers -------------------------------
(***************************************************************************)
(* The worker processes of a site: each loads the catalog of contexts and  *)
(* takes its turn at the health check of a context (Health), which a       *)
(* maintenance lock gives to one of them at a time (Maintenance), while    *)
(* admins change the context through any of them.                          *)
(*                                                                         *)
(* What joins the parts: a worker that serves has a catalog; the scheduler *)
(* of a worker does one thing at a time, a load of the catalog or the run  *)
(* of a job; a check is made within a run of its job; and a process that   *)
(* dies leaves its locks, its catalog and its probes.  How a process comes *)
(* up is the subject of Startup.                                           *)
(***************************************************************************)
EXTENDS Naturals, FiniteSets

CONSTANTS
  Worker, Nobody,                            \* as in Maintenance
  Admin, ProcOf, MaxMoves, NoConfig, NoLoad  \* as in Health

VARIABLES
  lock, due, lost, run,                                        \* of Maintenance
  row, newer, config, load, probe, up, outdated, solid         \* of Health

Job == {"health"}

INSTANCE Maintenance
INSTANCE Health

ASSUME WorkersAssumption == HealthAssumption /\ Nobody \notin Worker

jobVars == <<lock, due, lost, run>>
ctxVars == <<row, newer, config, load, probe, up, outdated, solid>>

vars == <<jobVars, ctxVars>>

Init == MaintenanceInit /\ HealthInit

Up(w)      == config[w] # NoConfig
Working(w) == run[w]["health"] = "works"

\* The scheduler of a worker is not at work.
Resting(w) == Up(w) /\ run[w]["health"] = "idle" /\ load[w] = NoLoad

(***************************************************************************)
(* The runs of the job                                                     *)
(***************************************************************************)
Locks(w)        == Resting(w) /\ Acquire(w, "health") /\ UNCHANGED ctxVars
LocksInError(w) == Resting(w) /\ AcquireFails(w, "health") /\ UNCHANGED ctxVars

Proceeds(w) == (LooksIfDue(w, "health") \/ Starts(w, "health")) /\ UNCHANGED ctxVars

Unlocks(w) == (Release(w, "health") \/ Invalidate(w, "health")) /\ UNCHANGED ctxVars

GoesWrong(w) ==
  /\ ReleaseFails(w, "health") \/ StartFails(w, "health") \/ SessionLost(w, "health")
  /\ UNCHANGED ctxVars

TimePasses == FallsDue("health") /\ UNCHANGED ctxVars

(***************************************************************************)
(* Catalogs, checks and admins                                             *)
(***************************************************************************)
Comes(w) == ~Up(w) /\ FirstCatalog(w) /\ UNCHANGED jobVars

\* Every ten seconds at the most, between two runs of jobs.
Refreshes(w) ==
  /\ \/ Resting(w) /\ ReadsCatalog(w)
     \/ InstallsCatalog(w)
  /\ UNCHANGED jobVars

\* The operation of the job ...
Probes(w) == Working(w) /\ (CheckBegins(w) \/ Answers(w)) /\ UNCHANGED jobVars

\* ... and its end, with the verdict.
Concludes(w) == Records(w) /\ Finishes(w, "health")

\* ... or an exception.
Breaks(w) == GivesUp(w) /\ Finishes(w, "health")

Dies(w) == Up(w) /\ WorkerDies(w) /\ ProcessDies(w)

Administers(a)  == AdminStep(a) /\ UNCHANGED jobVars
AdminUpdates(a) == Updates(a) /\ UNCHANGED jobVars
Flips(e)        == HostFlips(e) /\ UNCHANGED jobVars

----------------------------------------------------------------------------
Next ==
  \/ \E w \in Worker :
       \/ Comes(w) \/ Dies(w)
       \/ Locks(w) \/ LocksInError(w) \/ Proceeds(w) \/ Unlocks(w) \/ GoesWrong(w)
       \/ Refreshes(w) \/ Probes(w) \/ Concludes(w) \/ Breaks(w)
  \/ TimePasses
  \/ \E a \in Admin : Administers(a) \/ AdminUpdates(a)
  \/ \E e \in Endpoint : Flips(e)

Spec == Init /\ [][Next]_vars

=============================================================================
