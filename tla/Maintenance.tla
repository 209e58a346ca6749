----------------------------- MODULE Maintenance -----------------------------
(***************************************************************************)
(* Every worker process of a site runs the same scheduler; a named lock of *)
(* the database server and the time of the last start make each job run in *)
(* one of them at a time, once per interval (_run_maintenance_job).        *)
(*                                                                         *)
(* The lock belongs to a session of the server.  Sessions come from a pool *)
(* and go back to it, so a lock that is not released outlives the job; and *)
(* a session may be lost while its worker goes on.                         *)
(*                                                                         *)
(* The clocks of workers are those of one machine.  SQLite, with a lock    *)
(* file, is for a single process and left out.                             *)
(***************************************************************************)
EXTENDS Integers, FiniteSets

CONSTANTS Worker, Job, Nobody

VARIABLES
  lock,   \* the worker whose session holds the named lock of a job
  due,    \* the interval since last_started is over
  lost,   \* jobs whose lock was lost in the midst of a run, until all runs end
  run     \* where each worker is in each job

maintenanceVars == <<lock, due, lost, run>>

MaintenanceInit ==
  /\ lock = [j \in Job |-> Nobody]
  /\ due \in [Job -> BOOLEAN]
  /\ lost = {}
  /\ run = [w \in Worker |-> [j \in Job |-> "idle"]]

RunsTo(w, j, to) == run' = [run EXCEPT ![w][j] = to]
Advance(w, j, from, to) == run[w][j] = from /\ RunsTo(w, j, to)

\* The session ends, or releases the lock.
SessionEnds(w, j) == lock' = [lock EXCEPT ![j] = IF @ = w THEN Nobody ELSE @]

\* These workers end their runs of these jobs.
Settles(ws, js) ==
  lost' = {j \in lost : j \in js => \E v \in Worker \ ws : run[v][j] # "idle"}

(***************************************************************************)
(* _maintenance_lock                                                       *)
(***************************************************************************)

\* Mutant of Acquire: the answer of the server is taken for granted.
AcquireAnyway(w, j) ==
  /\ Advance(w, j, "idle", "locked")
  /\ lock' = [lock EXCEPT ![j] = w]
  /\ UNCHANGED <<due, lost>>

\* The lock is asked for without waiting: a worker that does not get it gives up
\* this turn.
Acquire(w, j) ==
  /\ lock[j] = Nobody
  /\ Advance(w, j, "idle", "locked")
  /\ lock' = [lock EXCEPT ![j] = w]
  /\ UNCHANGED <<due, lost>>

\* An error arrives although the server has granted the lock.
AcquireFails(w, j) ==
  /\ lock[j] = Nobody
  /\ Advance(w, j, "idle", "broken")
  /\ lock' = [lock EXCEPT ![j] = w]
  /\ UNCHANGED <<due, lost>>

\* The lock is released, be it after an exception.
Release(w, j) ==
  /\ Advance(w, j, "release", "idle")
  /\ SessionEnds(w, j)
  /\ Settles({w}, {j})
  /\ UNCHANGED due

ReleaseFails(w, j) ==
  /\ Advance(w, j, "release", "broken")
  /\ UNCHANGED <<lock, due, lost>>

\* Mutant of Invalidate: the session goes back to the pool as it is.
InvalidateNot(w, j) ==
  /\ Advance(w, j, "broken", "idle")
  /\ Settles({w}, {j})
  /\ UNCHANGED <<lock, due>>

\* After an error the session is ended instead of going back to the pool.
Invalidate(w, j) ==
  /\ Advance(w, j, "broken", "idle")
  /\ SessionEnds(w, j)
  /\ Settles({w}, {j})
  /\ UNCHANGED due

\* The server ends the session of a worker that has the lock, and has not
\* noticed yet.
SessionLost(w, j) ==
  /\ lock[j] = w /\ run[w][j] \in {"locked", "starts", "works"}
  /\ lock' = [lock EXCEPT ![j] = Nobody]
  /\ lost' = lost \cup {j}
  /\ UNCHANGED <<due, run>>

(***************************************************************************)
(* _run_maintenance_job                                                    *)
(***************************************************************************)
LooksIfDue(w, j) ==
  /\ Advance(w, j, "locked", IF due[j] THEN "starts" ELSE "release")
  /\ UNCHANGED <<lock, due, lost>>

\* last_started is committed before the operation.
Starts(w, j) ==
  /\ Advance(w, j, "starts", "works")
  /\ due' = [due EXCEPT ![j] = FALSE]
  /\ UNCHANGED <<lock, lost>>

StartFails(w, j) == Advance(w, j, "starts", "release") /\ UNCHANGED <<lock, due, lost>>

\* The operation is over, or has raised.
Finishes(w, j) == Advance(w, j, "works", "release") /\ UNCHANGED <<lock, due, lost>>

\* Time passes.
FallsDue(j) ==
  /\ ~due[j] /\ due' = [due EXCEPT ![j] = TRUE]
  /\ UNCHANGED <<lock, lost, run>>

\* The worker dies, and its sessions with it.
WorkerDies(w) ==
  /\ lock' = [j \in Job |-> IF lock[j] = w THEN Nobody ELSE lock[j]]
  /\ Settles({w}, Job)
  /\ run' = [run EXCEPT ![w] = [j \in Job |-> "idle"]]
  /\ UNCHANGED due

\* Mishaps, which the code must get over.
Mishap(w, j) ==
  AcquireFails(w, j) \/ ReleaseFails(w, j) \/ StartFails(w, j) \/ SessionLost(w, j) \/ WorkerDies(w)

Proceed(w, j) ==
  LooksIfDue(w, j) \/ Starts(w, j) \/ Finishes(w, j) \/ Release(w, j) \/ Invalidate(w, j)

MaintenanceNext ==
  \E j \in Job :
    \/ FallsDue(j)
    \/ \E w \in Worker : Acquire(w, j) \/ Proceed(w, j) \/ Mishap(w, j)

MaintenanceSpec == MaintenanceInit /\ [][MaintenanceNext]_maintenanceVars

\* The schedulers tick every second, sessions and operations end, time passes.
MaintenanceFairness ==
  \A j \in Job :
    /\ WF_maintenanceVars(FallsDue(j))
    /\ \A w \in Worker : WF_maintenanceVars(Acquire(w, j)) /\ WF_maintenanceVars(Proceed(w, j))

(***************************************************************************)
(* Properties                                                              *)
(***************************************************************************)

\* A job is in one worker at a time, and starts once per interval, as long as no
\* session is lost: errors while the lock is taken or released, and deaths, let
\* no second worker in.
OneAtATime ==
  \A j \in Job \ lost :
    /\ Cardinality({w \in Worker : run[w][j] \in {"locked", "starts", "works"}}) <= 1
    /\ \A w \in Worker : run[w][j] = "starts" => due[j]

\* From some time on nothing goes wrong.
Untroubled == <>[][\A w \in Worker, j \in Job : ~Mishap(w, j)]_maintenanceVars

\* Each job is done again and again, however its lock was lost or kept before: no
\* error, loss or death leaves it with a session that nobody uses.
JobsGoOn == Untroubled => \A j \in Job : []<>(\E w \in Worker : run[w][j] = "works")

=============================================================================
